------------------------ MODULE DurableJournalProofs ------------------------
(***************************************************************************)
(* What DurableJournal promises of power losses, for any files, contents   *)
(* and run directories and any log.  On either kind of file system the     *)
(* tree is the disk with the log on top and shows what the journal thinks  *)
(* (TreeInv).  Where changes of directories reach the disk in order, every *)
(* part of the log that may be written leaves whole batches (DurableInv).  *)
(***************************************************************************)
EXTENDS DurableJournal, PartialFunctionTheorems, FiniteSetTheorems, SequenceTheorems,
        WellFoundedInduction, TLAPS

JP == INSTANCE CommitJournalProofs

-----------------------------------------------------------------------------
(* Paths. *)

Paths == Seq(Names) \ {<< >>}

StagedPaths(r) == {StagedPath(r, f) : f \in Files}
LivePaths      == {LivePath(f) : f \in Files}
RunFiles(r)    == StagedPaths(r) \cup {PlanPath(r), ReadyPath(r)}
FilePaths      == LivePaths \cup UNION {RunFiles(r) : r \in RunIds}
RunRoots       == {RunDir(r) : r \in RunIds}

(* A prefix, element by element. *)
LEMMA PrefixAt ==
  ASSUME NEW s \in Seq(Names), NEW t \in Seq(Names)
  PROVE  IsPrefix(s, t) <=> Len(s) <= Len(t) /\ \A i \in 1..Len(s) : s[i] = t[i]
<1>1. SubSeq(s, 1, Len(s)) = s
  OBVIOUS
<1>2. ASSUME Len(s) <= Len(t)
      PROVE  SubSeq(s, 1, Len(s)) = SubSeq(t, 1, Len(s)) <=> \A i \in 1..Len(s) : s[i] = t[i]
  <2>1. SubSeq(t, 1, Len(s)) \in Seq(Names) /\ Len(SubSeq(t, 1, Len(s))) = Len(s)
    BY <1>2
  <2>2. \A i \in 1..Len(s) : SubSeq(t, 1, Len(s))[i] = t[i]
    BY <1>2
  <2> QED
    BY <1>1, <2>1, <2>2
<1> QED
  BY <1>2 DEF IsPrefix

(* The path of an output file below its root. *)
LEMMA RelPaths ==
  ASSUME NEW f \in Files
  PROVE  /\ RelPath[f] \in Seq(Names) /\ Len(RelPath[f]) \in Nat /\ Len(RelPath[f]) >= 1
         /\ RelPath[f][1] \notin {"state", "commit_plan.json", "READY"}
         /\ f = CheckpointFile => RelPath[f][1] # "runs"
         /\ CheckpointFile \in Files
<1>1. RelPath[f] \in Seq(STRING)
  BY DurableAssumption
<1>2. RelPath[f] \in Seq(Names)
  BY <1>1 DEF Names
<1>3. CheckpointFile \in Files
  BY JournalConstants DEF J!JournalAssumption
<1> QED
  BY <1>1, <1>2, <1>3, PathAssumption

(* The paths of a run directory and of the live files, element by element. *)
LEMMA RunDirAt ==
  ASSUME NEW r \in RunIds
  PROVE  /\ RunDir(r) \in Seq(Names) /\ Len(RunDir(r)) = 3
         /\ RunDir(r)[1] = "state" /\ RunDir(r)[2] = "runs" /\ RunDir(r)[3] = r
BY DEF RunDir, Names

(* Of a staged file. *)
LEMMA StagedAt ==
  ASSUME NEW r \in RunIds, NEW f \in Files
  PROVE  /\ StagedPath(r, f) \in Seq(Names) /\ Len(StagedPath(r, f)) = 3 + Len(RelPath[f])
         /\ StagedPath(r, f)[1] = "state" /\ StagedPath(r, f)[2] = "runs" /\ StagedPath(r, f)[3] = r
         /\ \A i \in 1..Len(RelPath[f]) : StagedPath(r, f)[3 + i] = RelPath[f][i]
<1>1. PICK d \in Seq(Names) : d = RunDir(r)
  BY RunDirAt
<1>2. PICK p \in Seq(Names) : p = RelPath[f]
  BY RelPaths
<1>3. /\ d \o p \in Seq(Names) /\ Len(d \o p) = Len(d) + Len(p)
      /\ \A i \in 1..Len(d) : (d \o p)[i] = d[i]
      /\ \A i \in 1..Len(p) : (d \o p)[Len(d) + i] = p[i]
  OBVIOUS
<1>4. Len(d) = 3 /\ d[1] = "state" /\ d[2] = "runs" /\ d[3] = r
  BY <1>1, RunDirAt
<1> QED
  BY <1>1, <1>2, <1>3, <1>4 DEF StagedPath

(* Of a plan and of the marker. *)
LEMMA MarkerAt ==
  ASSUME NEW r \in RunIds
  PROVE  /\ PlanPath(r) \in Seq(Names) /\ Len(PlanPath(r)) = 4
         /\ PlanPath(r)[1] = "state" /\ PlanPath(r)[2] = "runs" /\ PlanPath(r)[3] = r
         /\ PlanPath(r)[4] = "commit_plan.json"
         /\ ReadyPath(r) \in Seq(Names) /\ Len(ReadyPath(r)) = 4
         /\ ReadyPath(r)[1] = "state" /\ ReadyPath(r)[2] = "runs" /\ ReadyPath(r)[3] = r
         /\ ReadyPath(r)[4] = "READY"
<1>1. <<"commit_plan.json">> \in Seq(Names) /\ <<"READY">> \in Seq(Names)
  BY DEF Names
<1> QED
  BY <1>1, RunDirAt DEF PlanPath, ReadyPath

(* Of a live file. *)
LEMMA LiveAt ==
  ASSUME NEW f \in Files
  PROVE  /\ LivePath(f) \in Seq(Names)
         /\ f # CheckpointFile => LivePath(f) = RelPath[f]
         /\ f = CheckpointFile => /\ Len(LivePath(f)) = 1 + Len(RelPath[f])
                                  /\ LivePath(f)[1] = "state"
                                  /\ \A i \in 1..Len(RelPath[f]) : LivePath(f)[1 + i] = RelPath[f][i]
<1>1. <<"state">> \in Seq(Names)
  BY DEF Names
<1> QED
  BY <1>1, RelPaths DEF LivePath

(* No path is at or below the path of a staged file but its own. *)
LEMMA StagedApart ==
  ASSUME NEW r \in RunIds, NEW f \in Files, NEW s \in RunIds, NEW g \in Files
  PROVE  /\ IsPrefix(StagedPath(r, f), StagedPath(s, g)) => r = s /\ f = g
         /\ ~IsPrefix(StagedPath(r, f), PlanPath(s))
         /\ ~IsPrefix(StagedPath(r, f), ReadyPath(s))
         /\ ~IsPrefix(StagedPath(r, f), RunDir(s))
         /\ ~IsPrefix(StagedPath(r, f), LivePath(g))
<1>1. PICK p \in Seq(Names) : p = StagedPath(r, f)
  BY StagedAt
<1>2. PICK x \in Seq(Names) : x = RelPath[f]
  BY RelPaths
<1>3. PICK y \in Seq(Names) : y = RelPath[g]
  BY RelPaths
<1>4. /\ Len(x) >= 1 /\ x[1] \notin {"state", "commit_plan.json", "READY"}
      /\ Len(y) >= 1 /\ y[1] # "state" /\ (g = CheckpointFile => y[1] # "runs")
  BY <1>2, <1>3, RelPaths
<1>5. /\ Len(p) = 3 + Len(x) /\ p[1] = "state" /\ p[2] = "runs" /\ p[3] = r
      /\ \A i \in 1..Len(x) : p[3 + i] = x[i]
  BY <1>1, <1>2, StagedAt
<1>6. ASSUME IsPrefix(p, StagedPath(s, g))
      PROVE  r = s /\ f = g
  <2>1. PICK q \in Seq(Names) : q = StagedPath(s, g)
    BY StagedAt
  <2>2. /\ Len(q) = 3 + Len(y) /\ q[3] = s
        /\ \A i \in 1..Len(y) : q[3 + i] = y[i]
    BY <1>3, <2>1, StagedAt
  <2>3. Len(p) <= Len(q) /\ \A i \in 1..Len(p) : p[i] = q[i]
    BY <1>6, <2>1, PrefixAt
  <2>4. Len(x) <= Len(y) /\ \A i \in 1..Len(x) : x[i] = y[i]
    <3>1. \A i \in 1..Len(x) : p[3 + i] = q[3 + i] /\ i \in 1..Len(y)
      BY <1>5, <2>2, <2>3
    <3> QED
      BY <1>5, <2>2, <2>3, <3>1
  <2>5. IsPrefix(x, y)
    BY <2>4, PrefixAt
  <2>6. r = s
    BY <1>4, <1>5, <2>2, <2>3
  <2> QED
    BY <1>2, <1>3, <2>5, <2>6, PathAssumption
<1>7. ~IsPrefix(p, PlanPath(s)) /\ ~IsPrefix(p, ReadyPath(s))
  <2>1. ASSUME NEW q \in Seq(Names), IsPrefix(p, q)
        PROVE  Len(q) = 4 => q[4] = x[1]
    <3>1. Len(p) <= Len(q) /\ \A i \in 1..Len(p) : p[i] = q[i]
      BY <2>1, PrefixAt
    <3>2. Len(p) >= 4 /\ p[3 + 1] = x[1]
      BY <1>4, <1>5
    <3> QED
      BY <3>1, <3>2
  <2> QED
    BY <1>4, <2>1, MarkerAt
<1>8. ~IsPrefix(p, RunDir(s))
  <2>1. PICK q \in Seq(Names) : q = RunDir(s) /\ Len(q) = 3
    BY RunDirAt
  <2>2. IsPrefix(p, q) => Len(p) <= Len(q)
    BY PrefixAt
  <2> QED
    BY <1>4, <1>5, <2>1, <2>2
<1>9. ~IsPrefix(p, LivePath(g))
  <2>1. PICK q \in Seq(Names) : q = LivePath(g)
    BY LiveAt
  <2>2. /\ g # CheckpointFile => q = y
        /\ g = CheckpointFile => Len(q) = 1 + Len(y) /\ q[1 + 1] = y[1]
    BY <1>3, <1>4, <2>1, LiveAt
  <2>3. SUFFICES ASSUME Len(p) <= Len(q) /\ \A i \in 1..Len(p) : p[i] = q[i] PROVE FALSE
    BY <2>1, PrefixAt
  <2>4. q[1] = "state" /\ q[2] = "runs"
    BY <1>4, <1>5, <2>3
  <2> QED
    BY <1>4, <2>2, <2>4
<1> QED
  BY <1>1, <1>6, <1>7, <1>8, <1>9

(* Nor at or below that of a plan or a marker. *)
LEMMA MarkerApart ==
  ASSUME NEW r \in RunIds, NEW s \in RunIds, NEW g \in Files
  PROVE  /\ IsPrefix(PlanPath(r), PlanPath(s)) => r = s
         /\ IsPrefix(ReadyPath(r), ReadyPath(s)) => r = s
         /\ ~IsPrefix(PlanPath(r), ReadyPath(s)) /\ ~IsPrefix(ReadyPath(r), PlanPath(s))
         /\ ~IsPrefix(PlanPath(r), StagedPath(s, g)) /\ ~IsPrefix(ReadyPath(r), StagedPath(s, g))
         /\ ~IsPrefix(PlanPath(r), RunDir(s)) /\ ~IsPrefix(ReadyPath(r), RunDir(s))
         /\ ~IsPrefix(PlanPath(r), LivePath(g)) /\ ~IsPrefix(ReadyPath(r), LivePath(g))
<1>1. PICK y \in Seq(Names) : y = RelPath[g]
  BY RelPaths
<1>2. /\ Len(y) >= 1 /\ y[1] \notin {"state", "commit_plan.json", "READY"}
      /\ g = CheckpointFile => y[1] # "runs"
  BY <1>1, RelPaths
<1>3. ASSUME NEW p \in Seq(Names), Len(p) = 4, p[1] = "state", p[2] = "runs",
             p[4] \in {"commit_plan.json", "READY"}
      PROVE  /\ \A q \in Seq(Names) : IsPrefix(p, q) => Len(q) >= 4 /\ q[3] = p[3] /\ q[4] = p[4]
             /\ ~IsPrefix(p, StagedPath(s, g)) /\ ~IsPrefix(p, LivePath(g))
  <2>1. ASSUME NEW q \in Seq(Names), IsPrefix(p, q)
        PROVE  Len(q) >= 4 /\ q[1] = p[1] /\ q[2] = p[2] /\ q[3] = p[3] /\ q[4] = p[4]
    <3>1. Len(p) <= Len(q) /\ \A i \in 1..Len(p) : p[i] = q[i]
      BY <2>1, PrefixAt
    <3> QED
      BY <1>3, <3>1
  <2>2. ~IsPrefix(p, StagedPath(s, g))
    <3>1. PICK q \in Seq(Names) : q = StagedPath(s, g)
      BY StagedAt
    <3>2. q[3 + 1] = y[1]
      BY <1>1, <1>2, <3>1, StagedAt
    <3> QED
      BY <1>2, <1>3, <2>1, <3>1, <3>2
  <2>3. ~IsPrefix(p, LivePath(g))
    <3>1. PICK q \in Seq(Names) : q = LivePath(g)
      BY LiveAt
    <3>2. /\ g # CheckpointFile => q = y
          /\ g = CheckpointFile => q[1 + 1] = y[1]
      BY <1>1, <1>2, <3>1, LiveAt
    <3> QED
      BY <1>2, <1>3, <2>1, <3>1, <3>2
  <2> QED
    BY <2>1, <2>2, <2>3
<1>4. PICK p \in Seq(Names) : p = PlanPath(r)
  BY MarkerAt
<1>5. PICK q \in Seq(Names) : q = ReadyPath(r)
  BY MarkerAt
<1>6. /\ Len(p) = 4 /\ p[1] = "state" /\ p[2] = "runs" /\ p[3] = r /\ p[4] = "commit_plan.json"
      /\ Len(q) = 4 /\ q[1] = "state" /\ q[2] = "runs" /\ q[3] = r /\ q[4] = "READY"
  BY <1>4, <1>5, MarkerAt
<1>7. ~IsPrefix(p, RunDir(s)) /\ ~IsPrefix(q, RunDir(s))
  <2>1. PICK d \in Seq(Names) : d = RunDir(s) /\ Len(d) = 3
    BY RunDirAt
  <2>2. ASSUME NEW x \in Seq(Names), Len(x) = 4
        PROVE  ~IsPrefix(x, d)
    <3>1. IsPrefix(x, d) => Len(x) <= Len(d)
      BY PrefixAt
    <3> QED
      BY <2>1, <2>2, <3>1
  <2> QED
    BY <1>6, <2>1, <2>2
<1>8. /\ IsPrefix(p, PlanPath(s)) => r = s
      /\ IsPrefix(q, ReadyPath(s)) => r = s
      /\ ~IsPrefix(p, ReadyPath(s)) /\ ~IsPrefix(q, PlanPath(s))
  BY <1>3, <1>6, MarkerAt
<1> QED
  BY <1>3, <1>4, <1>5, <1>6, <1>7, <1>8

(* Nor at or below that of a live file. *)
LEMMA LiveApart ==
  ASSUME NEW f \in Files, NEW g \in Files
  PROVE  /\ IsPrefix(LivePath(f), LivePath(g)) => f = g
         /\ \A s \in RunIds : /\ ~IsPrefix(LivePath(f), StagedPath(s, g))
                              /\ ~IsPrefix(LivePath(f), PlanPath(s))
                              /\ ~IsPrefix(LivePath(f), ReadyPath(s))
                              /\ ~IsPrefix(LivePath(f), RunDir(s))
<1>1. PICK p \in Seq(Names) : p = LivePath(f)
  BY LiveAt
<1>2. /\ Len(p) >= 1
      /\ f # CheckpointFile => p[1] # "state" /\ p = RelPath[f]
      /\ f = CheckpointFile => Len(p) >= 2 /\ p[1] = "state" /\ p[1 + 1] # "runs"
  BY <1>1, LiveAt, RelPaths
<1>3. ASSUME NEW q \in Seq(Names), IsPrefix(p, q), Len(q) >= 2, q[1] = "state", q[2] = "runs"
      PROVE  FALSE
  BY <1>2, <1>3, PrefixAt
<1>4. ASSUME IsPrefix(p, LivePath(g))
      PROVE  f = g
  <2>1. PICK q \in Seq(Names) : q = LivePath(g)
    BY LiveAt
  <2>2. q[1] = p[1]
    BY <1>2, <1>4, <2>1, PrefixAt
  <2>3. g # CheckpointFile => q[1] # "state" /\ q = RelPath[g]
    BY <2>1, LiveAt, RelPaths
  <2>4. g = CheckpointFile => q[1] = "state"
    BY <2>1, LiveAt
  <2>5. f # CheckpointFile /\ g # CheckpointFile => IsPrefix(RelPath[f], RelPath[g])
    BY <1>2, <1>4, <2>1, <2>3
  <2> QED
    BY <1>2, <2>2, <2>3, <2>4, <2>5, PathAssumption
<1>5. ASSUME NEW s \in RunIds
      PROVE  ~IsPrefix(p, PlanPath(s)) /\ ~IsPrefix(p, ReadyPath(s)) /\ ~IsPrefix(p, RunDir(s))
  BY <1>3, MarkerAt, RunDirAt
<1>6. ASSUME NEW s \in RunIds
      PROVE  ~IsPrefix(p, StagedPath(s, g))
  <2>1. /\ StagedPath(s, g) \in Seq(Names) /\ Len(StagedPath(s, g)) >= 2
        /\ StagedPath(s, g)[1] = "state" /\ StagedPath(s, g)[2] = "runs"
    <3>1. Len(RelPath[g]) \in Nat
      BY RelPaths
    <3> QED
      BY <3>1, StagedAt
  <2> QED
    BY <1>3, <2>1
<1> QED
  BY <1>1, <1>4, <1>5, <1>6

(* Below a run directory is what is in it, and nothing else. *)
LEMMA RunDirApart ==
  ASSUME NEW r \in RunIds, NEW s \in RunIds, NEW g \in Files
  PROVE  /\ IsPrefix(RunDir(r), RunDir(s)) <=> r = s
         /\ IsPrefix(RunDir(r), StagedPath(s, g)) <=> r = s
         /\ IsPrefix(RunDir(r), PlanPath(s)) <=> r = s
         /\ IsPrefix(RunDir(r), ReadyPath(s)) <=> r = s
         /\ ~IsPrefix(RunDir(r), LivePath(g))
<1>1. PICK p \in Seq(Names) : p = RunDir(r)
  BY RunDirAt
<1>2. Len(p) = 3 /\ p[1] = "state" /\ p[2] = "runs" /\ p[3] = r
  BY <1>1, RunDirAt
<1>3. ASSUME NEW q \in Seq(Names)
      PROVE  IsPrefix(p, q) <=> Len(q) >= 3 /\ q[1] = "state" /\ q[2] = "runs" /\ q[3] = r
  <2>1. IsPrefix(p, q) <=> Len(p) <= Len(q) /\ \A i \in 1..Len(p) : p[i] = q[i]
    BY PrefixAt
  <2>2. 1..Len(p) = {1, 2, 3}
    BY <1>2
  <2> QED
    BY <1>2, <2>1, <2>2
<1>4. IsPrefix(p, RunDir(s)) <=> r = s
  BY <1>3, RunDirAt
<1>5. (IsPrefix(p, PlanPath(s)) <=> r = s) /\ (IsPrefix(p, ReadyPath(s)) <=> r = s)
  BY <1>3, MarkerAt
<1>6. IsPrefix(p, StagedPath(s, g)) <=> r = s
  <2>1. /\ StagedPath(s, g) \in Seq(Names) /\ Len(StagedPath(s, g)) >= 3
        /\ StagedPath(s, g)[1] = "state" /\ StagedPath(s, g)[2] = "runs" /\ StagedPath(s, g)[3] = s
    BY StagedAt, RelPaths
  <2> QED
    BY <1>3, <2>1
<1>7. ~IsPrefix(p, LivePath(g))
  <2>1. PICK q \in Seq(Names) : q = LivePath(g)
    BY LiveAt
  <2>2. g # CheckpointFile => q[1] # "state"
    BY <2>1, LiveAt, RelPaths
  <2>3. g = CheckpointFile => q[1 + 1] # "runs"
    BY <2>1, LiveAt, RelPaths
  <2> QED
    BY <1>3, <2>1, <2>2, <2>3
<1> QED
  BY <1>1, <1>4, <1>5, <1>6, <1>7

-----------------------------------------------------------------------------
(* Changes of a tree. *)

IsFunction(f) == f = [x \in DOMAIN f |-> f[x]]

(* Numbers up to a bound have a greatest one. *)
LEMMA GreatestOf ==
  ASSUME NEW S \in SUBSET Nat, NEW k \in Nat, \A n \in S : n <= k
  PROVE  /\ Max({0} \cup S) \in {0} \cup S
         /\ \A n \in S : n <= Max({0} \cup S)
<1> DEFINE Above == {n \in Nat : \A m \in S : m <= n}
<1>1. Above # {} /\ Above \subseteq Nat
  OBVIOUS
<1>2. PICK n \in Above : \A m \in Above : <<m, n>> \notin OpToRel(<, Nat)
  BY <1>1, NatLessThanWellFounded, WFMin
<1>3. \A m \in Above : ~(m < n)
  BY <1>1, <1>2 DEF OpToRel
<1>4. n \in {0} \cup S
  <2>1. SUFFICES ASSUME n # 0, n \notin S PROVE FALSE
    OBVIOUS
  <2>2. n - 1 \in Above
    BY <2>1
  <2> QED
    BY <1>3, <2>2
<1>5. \E x \in {0} \cup S : \A y \in {0} \cup S : x >= y
  BY <1>4
<1> QED
  BY <1>5 DEF Max

(* What is at a path after some changes is up to the last that concerns it. *)
LEMMA AppliedAt ==
  ASSUME NEW t, NEW C, NEW changes \in Seq(C), NEW p
  PROVE  /\ Changing(changes, p) = {} =>
              /\ p \in DOMAIN Applied(t, changes) <=> p \in DOMAIN t
              /\ p \in DOMAIN t => Applied(t, changes)[p] = t[p]
         /\ \A n \in Changing(changes, p) :
              (\A m \in Changing(changes, p) : m <= n) =>
                 /\ p \in DOMAIN Applied(t, changes) <=> p \in DOMAIN changes[n].new
                 /\ p \in DOMAIN changes[n].new => Applied(t, changes)[p] = changes[n].new[p]
         /\ Changing(changes, p) # {} =>
              \E n \in Changing(changes, p) : \A m \in Changing(changes, p) : m <= n
<1> DEFINE last(q) == Max({0} \cup Changing(changes, q))
           paths == DOMAIN t \cup UNION {DOMAIN changes[n].new : n \in DOMAIN changes}
<1>1. Changing(changes, p) \subseteq 1..Len(changes) /\ DOMAIN changes = 1..Len(changes)
  BY DEF Changing
<1>2. /\ last(p) \in {0} \cup Changing(changes, p)
      /\ \A n \in Changing(changes, p) : n <= last(p)
  <2>1. Len(changes) \in Nat
    OBVIOUS
  <2>2. PICK S \in SUBSET Nat : S = Changing(changes, p)
    BY <1>1, <2>1
  <2>3. \A n \in S : n <= Len(changes)
    BY <1>1, <2>1, <2>2
  <2> QED
    BY <2>1, <2>2, <2>3, GreatestOf
<1>3. /\ p \in DOMAIN Applied(t, changes) <=>
           p \in paths /\ (last(p) = 0 \/ p \in DOMAIN changes[last(p)].new)
      /\ p \in DOMAIN Applied(t, changes) =>
           Applied(t, changes)[p] = IF last(p) = 0 THEN t[p] ELSE changes[last(p)].new[p]
  BY DEF Applied
<1> HIDE DEF last
<1>4. CASE Changing(changes, p) = {}
  <2>1. last(p) = 0
    BY <1>2, <1>4
  <2>2. p \in paths <=> p \in DOMAIN t
    BY <1>1, <1>4 DEF Changing
  <2> QED
    BY <1>3, <1>4, <2>1, <2>2
<1>5. CASE Changing(changes, p) # {}
  <2>1. last(p) \in Changing(changes, p) /\ last(p) # 0 /\ last(p) \in DOMAIN changes
    BY <1>1, <1>2, <1>5
  <2>2. p \in DOMAIN changes[last(p)].new => p \in paths
    BY <2>1
  <2>3. \A n \in Changing(changes, p) : (\A m \in Changing(changes, p) : m <= n) => n = last(p)
    BY <1>1, <1>2, <2>1
  <2> QED
    BY <1>2, <1>3, <1>5, <2>1, <2>2, <2>3
<1> QED
  BY <1>4, <1>5

(* A tree with changes is a tree. *)
LEMMA AppliedFunction ==
  ASSUME NEW t, NEW changes
  PROVE  IsFunction(Applied(t, changes))
BY DEF Applied, IsFunction

(* Two trees are one if each path shows the same in both. *)
LEMMA SameTree ==
  ASSUME NEW t, NEW u, IsFunction(t), IsFunction(u),
         \A p : (p \in DOMAIN t <=> p \in DOMAIN u) /\ (p \in DOMAIN t => t[p] = u[p])
  PROVE  t = u
<1>1. DOMAIN t = DOMAIN u
  OBVIOUS
<1>2. [p \in DOMAIN t |-> t[p]] = [p \in DOMAIN u |-> u[p]]
  BY <1>1
<1> QED
  BY <1>2 DEF IsFunction

(* No change, no difference. *)
LEMMA AppliedNone ==
  ASSUME NEW t, IsFunction(t)
  PROVE  Applied(t, << >>) = t
<1>1. << >> \in Seq({}) /\ \A p : Changing(<< >>, p) = {}
  BY DEF Changing
<1>2. PICK u : u = Applied(t, << >>)
  OBVIOUS
<1>3. \A p : (p \in DOMAIN u <=> p \in DOMAIN t) /\ (p \in DOMAIN t => u[p] = t[p])
  BY <1>1, <1>2, AppliedAt
<1>4. IsFunction(u)
  BY <1>2, AppliedFunction
<1> QED
  BY <1>2, <1>3, <1>4, SameTree

(* Changes can be made in two goes. *)
LEMMA AppliedConcat ==
  ASSUME NEW t, NEW C, NEW a \in Seq(C), NEW b \in Seq(C)
  PROVE  Applied(t, a \o b) = Applied(Applied(t, a), b)
<1>1. PICK c \in Seq(C) : c = a \o b
  BY ConcatProperties
<1>2. /\ DOMAIN a = 1..Len(a) /\ DOMAIN b = 1..Len(b) /\ DOMAIN c = 1..(Len(a) + Len(b))
      /\ \A n \in 1..Len(a) : c[n] = a[n]
      /\ \A n \in 1..Len(b) : c[Len(a) + n] = b[n]
      /\ Len(a) \in Nat /\ Len(b) \in Nat
  BY <1>1
<1>3. PICK u : u = Applied(t, a)
  OBVIOUS
<1>4. PICK v : v = Applied(u, b)
  OBVIOUS
<1>5. PICK w : w = Applied(t, c)
  OBVIOUS
<1>6. ASSUME NEW p
      PROVE  (p \in DOMAIN w <=> p \in DOMAIN v) /\ (p \in DOMAIN w => w[p] = v[p])
  <2>1. \A n \in Changing(a, p) : n \in 1..Len(a) /\ n \in Changing(c, p)
    BY <1>2 DEF Changing
  <2>2. \A n \in Changing(b, p) : n \in 1..Len(b) /\ Len(a) + n \in Changing(c, p)
    BY <1>2 DEF Changing
  <2>3. ASSUME NEW n \in Changing(c, p)
        PROVE  n \in Changing(a, p) \/ (n > Len(a) /\ n - Len(a) \in Changing(b, p))
    <3>1. n \in 1..(Len(a) + Len(b)) /\ p \in DOMAIN c[n].new \cup c[n].gone
      BY <1>2, <2>3 DEF Changing
    <3>2. CASE n <= Len(a)
      BY <1>2, <3>1, <3>2 DEF Changing
    <3>3. CASE n > Len(a)
      <4>1. n - Len(a) \in 1..Len(b) /\ c[Len(a) + (n - Len(a))] = b[n - Len(a)]
        BY <1>2, <3>1, <3>3
      <4>2. Len(a) + (n - Len(a)) = n
        BY <1>2, <3>1
      <4> QED
        BY <1>2, <3>1, <3>3, <4>1, <4>2 DEF Changing
    <3> QED
      BY <1>2, <3>1, <3>2, <3>3
  <2>4. CASE Changing(b, p) # {}
    <3>1. PICK n \in Changing(b, p) : \A m \in Changing(b, p) : m <= n
      BY <2>4, AppliedAt
    <3>2. Len(a) + n \in Changing(c, p) /\ \A m \in Changing(c, p) : m <= Len(a) + n
      <4>1. ASSUME NEW m \in Changing(c, p)
            PROVE  m <= Len(a) + n
        <5>1. CASE m \in Changing(a, p)
          BY <1>2, <2>1, <2>2, <5>1
        <5>2. CASE m - Len(a) \in Changing(b, p)
          <6>1. m - Len(a) <= n /\ m \in 1..(Len(a) + Len(b)) /\ n \in 1..Len(b)
            BY <1>2, <2>2, <3>1, <5>2 DEF Changing
          <6> QED
            BY <1>2, <6>1
        <5> QED
          BY <2>3, <5>1, <5>2
      <4> QED
        BY <2>2, <4>1
    <3>3. c[Len(a) + n] = b[n]
      BY <1>2, <2>2, <3>1
    <3>4. /\ p \in DOMAIN w <=> p \in DOMAIN b[n].new
          /\ p \in DOMAIN b[n].new => w[p] = b[n].new[p]
      BY <1>5, <3>2, <3>3, AppliedAt
    <3>5. /\ p \in DOMAIN v <=> p \in DOMAIN b[n].new
          /\ p \in DOMAIN b[n].new => v[p] = b[n].new[p]
      BY <1>4, <3>1, AppliedAt
    <3> QED
      BY <3>4, <3>5
  <2>5. CASE Changing(b, p) = {} /\ Changing(a, p) # {}
    <3>1. PICK n \in Changing(a, p) : \A m \in Changing(a, p) : m <= n
      BY <2>5, AppliedAt
    <3>2. n \in Changing(c, p) /\ \A m \in Changing(c, p) : m <= n
      BY <2>1, <2>3, <2>5, <3>1
    <3>3. c[n] = a[n]
      BY <1>2, <2>1, <3>1
    <3>4. /\ p \in DOMAIN w <=> p \in DOMAIN a[n].new
          /\ p \in DOMAIN a[n].new => w[p] = a[n].new[p]
      BY <1>5, <3>2, <3>3, AppliedAt
    <3>5. /\ p \in DOMAIN u <=> p \in DOMAIN a[n].new
          /\ p \in DOMAIN a[n].new => u[p] = a[n].new[p]
      BY <1>3, <3>1, AppliedAt
    <3>6. (p \in DOMAIN v <=> p \in DOMAIN u) /\ (p \in DOMAIN u => v[p] = u[p])
      BY <1>4, <2>5, AppliedAt
    <3> QED
      BY <3>4, <3>5, <3>6
  <2>6. CASE Changing(b, p) = {} /\ Changing(a, p) = {}
    <3>1. Changing(c, p) = {}
      BY <2>3, <2>6
    <3>2. (p \in DOMAIN w <=> p \in DOMAIN t) /\ (p \in DOMAIN t => w[p] = t[p])
      BY <1>5, <3>1, AppliedAt
    <3>3. (p \in DOMAIN u <=> p \in DOMAIN t) /\ (p \in DOMAIN t => u[p] = t[p])
      BY <1>3, <2>6, AppliedAt
    <3>4. (p \in DOMAIN v <=> p \in DOMAIN u) /\ (p \in DOMAIN u => v[p] = u[p])
      BY <1>4, <2>6, AppliedAt
    <3> QED
      BY <3>2, <3>3, <3>4
  <2> QED
    BY <2>4, <2>5, <2>6
<1>7. IsFunction(v) /\ IsFunction(w)
  BY <1>4, <1>5, AppliedFunction
<1> QED
  BY <1>1, <1>3, <1>4, <1>5, <1>6, <1>7, SameTree

(* One change: its new entries, and what was there and is not gone. *)
LEMMA AppliedOne ==
  ASSUME NEW t, NEW change, NEW p
  PROVE  /\ p \in DOMAIN change.new =>
              p \in DOMAIN Applied(t, <<change>>) /\ Applied(t, <<change>>)[p] = change.new[p]
         /\ p \notin DOMAIN change.new /\ p \in change.gone => p \notin DOMAIN Applied(t, <<change>>)
         /\ p \notin DOMAIN change.new /\ p \notin change.gone =>
              /\ p \in DOMAIN Applied(t, <<change>>) <=> p \in DOMAIN t
              /\ p \in DOMAIN t => Applied(t, <<change>>)[p] = t[p]
<1>1. PICK c \in Seq({change}) : c = <<change>>
  <2>1. <<change>> \in Seq({change})
    OBVIOUS
  <2> QED
    BY <2>1
<1>2. DOMAIN c = {1} /\ c[1] = change
  BY <1>1
<1>3. Changing(c, p) = IF p \in DOMAIN change.new \cup change.gone THEN {1} ELSE {}
  BY <1>2 DEF Changing
<1>4. CASE p \in DOMAIN change.new \cup change.gone
  <2>1. 1 \in Changing(c, p) /\ \A m \in Changing(c, p) : m <= 1
    BY <1>3, <1>4
  <2>2. /\ p \in DOMAIN Applied(t, c) <=> p \in DOMAIN c[1].new
        /\ p \in DOMAIN c[1].new => Applied(t, c)[p] = c[1].new[p]
    BY <2>1, AppliedAt
  <2> QED
    BY <1>1, <1>2, <1>4, <2>2
<1>5. CASE p \notin DOMAIN change.new \cup change.gone
  <2>1. Changing(c, p) = {}
    BY <1>3, <1>5
  <2> QED
    BY <1>1, <1>5, <2>1, AppliedAt
<1> QED
  BY <1>4, <1>5

(* Changes that only make entries, all of one kind. *)
MakeOnly(changes, node) ==
  \A n \in DOMAIN changes :
     changes[n].gone = {} /\ \A q \in DOMAIN changes[n].new : changes[n].new[q] = node

(* What is there after such changes. *)
LEMMA AppliedMade ==
  ASSUME NEW t, NEW C, NEW changes \in Seq(C), NEW node, MakeOnly(changes, node), NEW p
  PROVE  IF \E n \in DOMAIN changes : p \in DOMAIN changes[n].new
         THEN p \in DOMAIN Applied(t, changes) /\ Applied(t, changes)[p] = node
         ELSE /\ p \in DOMAIN Applied(t, changes) <=> p \in DOMAIN t
              /\ p \in DOMAIN t => Applied(t, changes)[p] = t[p]
<1>1. Changing(changes, p) = {n \in DOMAIN changes : p \in DOMAIN changes[n].new}
  BY DEF Changing, MakeOnly
<1>2. CASE Changing(changes, p) = {}
  BY <1>1, <1>2, AppliedAt
<1>3. CASE Changing(changes, p) # {}
  <2>1. PICK n \in Changing(changes, p) : \A m \in Changing(changes, p) : m <= n
    BY <1>3, AppliedAt
  <2> QED
    BY <1>1, <2>1, AppliedAt DEF MakeOnly
<1> QED
  BY <1>2, <1>3

(* The changes before a point, the others left out. *)
First(changes, n) == [i \in DOMAIN changes |-> IF i \in 1..n THEN changes[i] ELSE Unchanged]

(* Some first changes are changes, and as many. *)
LEMMA FirstType ==
  ASSUME NEW C, NEW changes \in Seq(C), NEW n \in Nat
  PROVE  /\ First(changes, n) \in Seq(C \cup {Unchanged})
         /\ Len(First(changes, n)) = Len(changes)
         /\ Len(changes) <= n => First(changes, n) = changes
<1>1. First(changes, n) \in [1..Len(changes) -> C \cup {Unchanged}]
  BY DEF First
<1>2. Len(changes) <= n => First(changes, n) = [i \in 1..Len(changes) |-> changes[i]]
  BY DEF First
<1> QED
  BY <1>1, <1>2

(* None of them. *)
LEMMA AppliedFirstNone ==
  ASSUME NEW t, IsFunction(t), NEW C, NEW changes \in Seq(C)
  PROVE  Applied(t, First(changes, 0)) = t
<1>1. PICK c \in Seq(C \cup {Unchanged}) : c = First(changes, 0)
  BY FirstType
<1>2. \A p : Changing(c, p) = {}
  BY <1>1 DEF First, Changing, Unchanged
<1>3. PICK u : u = Applied(t, c)
  OBVIOUS
<1>4. \A p : (p \in DOMAIN u <=> p \in DOMAIN t) /\ (p \in DOMAIN t => u[p] = t[p])
  BY <1>2, <1>3, AppliedAt
<1> QED
  BY <1>1, <1>3, <1>4, AppliedFunction, SameTree

(* Of changes that are made in two goes, all of the first or none of the   *)
(* second.                                                                 *)
LEMMA FirstConcat ==
  ASSUME NEW C, NEW a \in Seq(C), NEW b \in Seq(C), NEW n \in Nat
  PROVE  /\ n <= Len(a) => First(a \o b, n) = First(a, n) \o First(b, 0)
         /\ n > Len(a) => First(a \o b, n) = a \o First(b, n - Len(a))
<1>1. PICK c \in Seq(C) : c = a \o b
  BY ConcatProperties
<1>2. /\ Len(c) = Len(a) + Len(b) /\ Len(a) \in Nat /\ Len(b) \in Nat
      /\ \A i \in 1..(Len(a) + Len(b)) : c[i] = IF i <= Len(a) THEN a[i] ELSE b[i - Len(a)]
  BY <1>1, ConcatProperties
<1>3. ASSUME NEW k \in Nat, NEW m \in Nat,
             n <= Len(a) => k = n /\ m = 0, n > Len(a) => k = Len(a) /\ m = n - Len(a)
      PROVE  First(c, n) = First(a, k) \o First(b, m)
  <2>1. PICK x \in Seq(C \cup {Unchanged}) : x = First(a, k) /\ Len(x) = Len(a)
    BY FirstType
  <2>2. PICK y \in Seq(C \cup {Unchanged}) : y = First(b, m) /\ Len(y) = Len(b)
    BY FirstType
  <2>3. PICK z \in Seq(C \cup {Unchanged}) : z = First(c, n) /\ Len(z) = Len(c)
    BY FirstType
  <2>4. PICK w \in Seq(C \cup {Unchanged}) : w = x \o y
    BY ConcatProperties
  <2>5. /\ Len(w) = Len(a) + Len(b)
        /\ \A i \in 1..(Len(a) + Len(b)) : w[i] = IF i <= Len(a) THEN x[i] ELSE y[i - Len(a)]
    <3>1. /\ Len(x \o y) = Len(x) + Len(y)
          /\ \A i \in 1..(Len(x) + Len(y)) : (x \o y)[i] = IF i <= Len(x) THEN x[i] ELSE y[i - Len(x)]
      BY ConcatProperties
    <3> QED
      BY <2>1, <2>2, <2>4, <3>1
  <2>6. ASSUME NEW i \in 1..(Len(a) + Len(b))
        PROVE  z[i] = w[i]
    <3>1. z[i] = IF i \in 1..n THEN c[i] ELSE Unchanged
      BY <1>2, <2>3 DEF First
    <3>2. CASE i <= Len(a)
      <4>1. x[i] = IF i \in 1..k THEN a[i] ELSE Unchanged
        BY <1>2, <2>1, <3>2 DEF First
      <4> QED
        BY <1>2, <1>3, <2>5, <3>1, <3>2, <4>1
    <3>3. CASE i > Len(a)
      <4>1. i - Len(a) \in 1..Len(b)
        BY <1>2, <3>3
      <4>2. y[i - Len(a)] = IF i - Len(a) \in 1..m THEN b[i - Len(a)] ELSE Unchanged
        BY <1>2, <2>2, <4>1 DEF First
      <4> QED
        BY <1>2, <1>3, <2>5, <3>1, <3>3, <4>1, <4>2
    <3> QED
      BY <1>2, <3>2, <3>3
  <2>7. z = w
    BY <1>2, <2>3, <2>5, <2>6
  <2> QED
    BY <2>1, <2>2, <2>3, <2>4, <2>7
<1>4. CASE n <= Len(a)
  BY <1>1, <1>2, <1>3, <1>4
<1>5. CASE n > Len(a)
  <2>1. First(a, Len(a)) = a
    <3>1. PICK m \in Nat : m = Len(a)
      BY <1>2
    <3>2. Len(a) <= m => First(a, m) = a
      BY FirstType
    <3> QED
      BY <3>1, <3>2
  <2>2. PICK m \in Nat : m = n - Len(a)
    <3>1. n - Len(a) \in Nat
      BY <1>2, <1>5
    <3> QED
      BY <3>1
  <2>3. First(c, n) = First(a, Len(a)) \o First(b, m)
    BY <1>2, <1>3, <1>5, <2>2
  <2> QED
    BY <1>1, <1>2, <1>5, <2>1, <2>2, <2>3
<1> QED
  BY <1>2, <1>4, <1>5

-----------------------------------------------------------------------------
(* Trees of the service: its files, and directories above them. *)

Known == {p \in Paths : \E q \in FilePaths : IsPrefix(p, q)}

Node == [dir : {TRUE}] \cup [dir : {FALSE}, data : Contents \cup Seq(Files) \cup {<< >>}]

(* What is at the path of a file is a file with contents of its kind. *)
Fits(p, node) ==
  /\ p \in LivePaths \cup UNION {StagedPaths(r) : r \in RunIds} => node.data \in Contents
  /\ p \in {PlanPath(r) : r \in RunIds} => node.data \in Seq(Files)
  /\ p \in FilePaths => node.dir = FALSE

Trees == {t \in Partial(Known, Node) : \A p \in DOMAIN t : Fits(p, t[p])}

Changes == [new : Trees, gone : SUBSET Known]

(* Some of the changes, the others left out. *)
Part(changes, kept) == [n \in DOMAIN changes |-> IF n \in kept THEN changes[n] ELSE Unchanged]

(* With a change go all before it that share a path with it. *)
InOrder(changes, kept) ==
  \A p : \A i \in Changing(changes, p), j \in Changing(changes, p) : i \in kept /\ j < i => j \in kept

(* The last change that has a path decides what is there. *)
LEMMA AppliedLast ==
  ASSUME NEW t, NEW C, NEW changes \in Seq(C), NEW p,
         NEW n \in Changing(changes, p), \A m \in Changing(changes, p) : m <= n
  PROVE  /\ p \in DOMAIN Applied(t, changes) <=> p \in DOMAIN changes[n].new
         /\ p \in DOMAIN changes[n].new => Applied(t, changes)[p] = changes[n].new[p]
BY AppliedAt

(* The changes that go first and the rest after them are all the changes. *)
LEMMA AppliedSplit ==
  ASSUME NEW t, NEW c \in Seq(Changes), NEW kept \in SUBSET DOMAIN c, InOrder(c, kept),
         NEW a \in Seq(Changes), a = Part(c, kept), NEW b \in Seq(Changes), b = Part(c, DOMAIN c \ kept)
  PROVE  Applied(Applied(t, a), b) = Applied(t, c)
<1> USE DEF Part, InOrder
<1>1. PICK u : u = Applied(t, a)
  OBVIOUS
<1>2. PICK v : v = Applied(u, b)
  OBVIOUS
<1>3. PICK w : w = Applied(t, c)
  OBVIOUS
<1>4. ASSUME NEW p
      PROVE  (p \in DOMAIN v <=> p \in DOMAIN w) /\ (p \in DOMAIN v => v[p] = w[p])
  <2>1. Changing(a, p) = Changing(c, p) \cap kept /\ Changing(b, p) = Changing(c, p) \ kept
    BY DEF Changing, Unchanged
  <2>2. \A n \in Changing(c, p) : n \in Nat
    BY DEF Changing
  <2>3. CASE Changing(b, p) # {}
    <3>1. PICK n \in Changing(b, p) : \A m \in Changing(b, p) : m <= n
      BY <2>3, AppliedAt
    <3>2. \A m \in Changing(c, p) : m <= n
      <4>1. ASSUME NEW m \in Changing(c, p)
            PROVE  m <= n
        <5>1. CASE m \in kept
          <6>1. n \in Changing(c, p) /\ n \notin kept
            BY <2>1, <3>1
          <6>2. ~(n < m)
            BY <4>1, <5>1, <6>1
          <6> QED
            BY <2>2, <4>1, <6>1, <6>2
        <5>2. CASE m \notin kept
          BY <2>1, <3>1, <4>1, <5>2
        <5> QED
          BY <5>1, <5>2
      <4> QED
        BY <4>1
    <3>3. b[n] = c[n] /\ n \in Changing(c, p)
      BY <2>1, <3>1 DEF Changing
    <3>4. /\ p \in DOMAIN v <=> p \in DOMAIN c[n].new
          /\ p \in DOMAIN c[n].new => v[p] = c[n].new[p]
      <4>1. /\ p \in DOMAIN Applied(u, b) <=> p \in DOMAIN b[n].new
            /\ p \in DOMAIN b[n].new => Applied(u, b)[p] = b[n].new[p]
        BY <3>1, AppliedLast
      <4>2. PICK e : e = b[n] /\ e = c[n]
        BY <3>3
      <4>3. /\ p \in DOMAIN v <=> p \in DOMAIN e.new
            /\ p \in DOMAIN e.new => v[p] = e.new[p]
        BY <1>2, <4>1, <4>2, Zenon
      <4> QED
        BY <4>2, <4>3, Zenon
    <3>5. /\ p \in DOMAIN w <=> p \in DOMAIN c[n].new
          /\ p \in DOMAIN c[n].new => w[p] = c[n].new[p]
      BY <1>3, <3>2, <3>3, AppliedAt
    <3> QED
      BY <3>4, <3>5
  <2>4. CASE Changing(b, p) = {}
    <3>1. (p \in DOMAIN v <=> p \in DOMAIN u) /\ (p \in DOMAIN u => v[p] = u[p])
      BY <1>2, <2>4, AppliedAt
    <3>2. Changing(a, p) = Changing(c, p)
      BY <2>1, <2>4
    <3>3. CASE Changing(c, p) = {}
      <4>1. (p \in DOMAIN u <=> p \in DOMAIN t) /\ (p \in DOMAIN t => u[p] = t[p])
        BY <1>1, <3>2, <3>3, AppliedAt
      <4>2. (p \in DOMAIN w <=> p \in DOMAIN t) /\ (p \in DOMAIN t => w[p] = t[p])
        BY <1>3, <3>3, AppliedAt
      <4> QED
        BY <3>1, <4>1, <4>2
    <3>4. CASE Changing(c, p) # {}
      <4>1. PICK n \in Changing(c, p) : \A m \in Changing(c, p) : m <= n
        BY <3>4, AppliedAt
      <4>2. a[n] = c[n]
        BY <2>1, <3>2, <4>1 DEF Changing
      <4>3. /\ p \in DOMAIN u <=> p \in DOMAIN c[n].new
            /\ p \in DOMAIN c[n].new => u[p] = c[n].new[p]
        BY <1>1, <3>2, <4>1, <4>2, AppliedAt
      <4>4. /\ p \in DOMAIN w <=> p \in DOMAIN c[n].new
            /\ p \in DOMAIN c[n].new => w[p] = c[n].new[p]
        BY <1>3, <4>1, AppliedAt
      <4> QED
        BY <3>1, <4>3, <4>4
    <3> QED
      BY <3>3, <3>4
  <2> QED
    BY <2>3, <2>4
<1>5. IsFunction(v) /\ IsFunction(w)
  BY <1>2, <1>3, AppliedFunction
<1> QED
  BY <1>1, <1>2, <1>3, <1>4, <1>5, SameTree

(* Every entry has its directory. *)
Closed(t) == \A p \in DOMAIN t : Len(p) > 1 => Front(p) \in DOMAIN t

(* Prefixes of paths. *)
LEMMA PrefixSelf ==
  ASSUME NEW s \in Seq(Names)
  PROVE  IsPrefix(s, s)
BY PrefixAt

(* A prefix of a prefix. *)
LEMMA PrefixTwice ==
  ASSUME NEW s \in Seq(Names), NEW t \in Seq(Names), NEW u \in Seq(Names),
         IsPrefix(s, t), IsPrefix(t, u)
  PROVE  IsPrefix(s, u)
<1>1. Len(s) <= Len(t) /\ \A i \in 1..Len(s) : s[i] = t[i]
  BY PrefixAt
<1>2. Len(t) <= Len(u) /\ \A i \in 1..Len(t) : t[i] = u[i]
  BY PrefixAt
<1>3. Len(s) <= Len(u) /\ \A i \in 1..Len(s) : s[i] = u[i]
  BY <1>1, <1>2
<1> QED
  BY <1>3, PrefixAt

(* A prefix of the same length is all of it. *)
LEMMA PrefixAll ==
  ASSUME NEW s \in Seq(Names), NEW t \in Seq(Names), IsPrefix(s, t), Len(s) >= Len(t)
  PROVE  s = t
<1>1. Len(s) <= Len(t) /\ \A i \in 1..Len(s) : s[i] = t[i]
  BY PrefixAt
<1> QED
  BY <1>1

(* The first elements of a path. *)
LEMMA Cut ==
  ASSUME NEW p \in Seq(Names), NEW n \in 0..Len(p)
  PROVE  /\ SubSeq(p, 1, n) \in Seq(Names) /\ Len(SubSeq(p, 1, n)) = n
         /\ IsPrefix(SubSeq(p, 1, n), p)
         /\ \A q \in Seq(Names) : IsPrefix(q, p) /\ Len(q) = n => q = SubSeq(p, 1, n)
<1>1. PICK s \in Seq(Names) : s = SubSeq(p, 1, n)
  <2>1. SubSeq(p, 1, n) \in Seq(Names)
    OBVIOUS
  <2> QED
    BY <2>1
<1>2. Len(s) = n /\ \A i \in 1..n : s[i] = p[i]
  BY <1>1
<1>3. IsPrefix(s, p)
  BY <1>2, PrefixAt
<1>4. ASSUME NEW q \in Seq(Names), IsPrefix(q, p), Len(q) = n
      PROVE  q = s
  <2>1. \A i \in 1..Len(q) : q[i] = p[i]
    BY <1>4, PrefixAt
  <2> QED
    BY <1>2, <1>4, <2>1
<1> QED
  BY <1>1, <1>2, <1>3, <1>4

(* The directory a path is in. *)
LEMMA FrontAt ==
  ASSUME NEW p \in Paths
  PROVE  /\ Front(p) \in Seq(Names) /\ Len(Front(p)) = Len(p) - 1 /\ IsPrefix(Front(p), p)
         /\ \A q \in Seq(Names) : IsPrefix(q, p) => q = p \/ IsPrefix(q, Front(p))
         /\ \A n \in 1..(Len(p) - 1) : SubSeq(Front(p), 1, n) = SubSeq(p, 1, n)
<1>1. p \in Seq(Names) /\ Len(p) \in Nat /\ Len(p) - 1 \in 0..Len(p)
  BY DEF Paths
<1>2. PICK s \in Seq(Names) : s = Front(p)
  <2>1. SubSeq(p, 1, Len(p) - 1) \in Seq(Names)
    BY <1>1
  <2> QED
    BY <2>1 DEF Front
<1>3. Len(s) = Len(p) - 1 /\ IsPrefix(s, p) /\ \A i \in 1..Len(s) : s[i] = p[i]
  <2>1. PICK n \in 0..Len(p) : n = Len(p) - 1
    BY <1>1
  <2>2. s = SubSeq(p, 1, n)
    BY <1>2, <2>1 DEF Front
  <2>3. Len(s) = n /\ IsPrefix(s, p)
    BY <1>1, <2>2, Cut
  <2>4. \A i \in 1..Len(s) : s[i] = p[i]
    BY <1>1, <2>3, PrefixAt
  <2> QED
    BY <2>1, <2>3, <2>4
<1>4. ASSUME NEW q \in Seq(Names), IsPrefix(q, p)
      PROVE  q = p \/ IsPrefix(q, s)
  <2>1. Len(q) <= Len(p) /\ \A i \in 1..Len(q) : q[i] = p[i]
    BY <1>1, <1>4, PrefixAt
  <2>2. CASE Len(q) = Len(p)
    BY <1>1, <1>4, <2>2, PrefixAll
  <2>3. CASE Len(q) < Len(p)
    <3>1. Len(q) <= Len(s) /\ \A i \in 1..Len(q) : q[i] = s[i]
      BY <1>1, <1>3, <2>1, <2>3
    <3> QED
      BY <3>1, PrefixAt
  <2> QED
    BY <1>1, <2>1, <2>2, <2>3
<1>5. ASSUME NEW n \in 1..(Len(p) - 1)
      PROVE  SubSeq(s, 1, n) = SubSeq(p, 1, n)
  BY <1>1, <1>3, <1>5
<1> QED
  BY <1>2, <1>3, <1>4, <1>5

(* No file is a directory of another. *)
LEMMA FilesApart ==
  ASSUME NEW p \in FilePaths, NEW q \in FilePaths, IsPrefix(p, q)
  PROVE  p = q
<1>1. ASSUME NEW f \in Files, p = LivePath(f)
      PROVE  p = q
  <2>1. ASSUME NEW g \in Files, q = LivePath(g)
        PROVE  p = q
    BY <1>1, <2>1, LiveApart
  <2>2. ASSUME NEW s \in RunIds, NEW g \in Files, q = StagedPath(s, g)
        PROVE  p = q
    BY <1>1, <2>2, LiveApart
  <2>3. ASSUME NEW s \in RunIds, q \in {PlanPath(s), ReadyPath(s)}
        PROVE  p = q
    BY <1>1, <2>3, LiveApart
  <2> QED
    BY <2>1, <2>2, <2>3 DEF FilePaths, LivePaths, RunFiles, StagedPaths
<1>2. ASSUME NEW r \in RunIds, NEW f \in Files, p = StagedPath(r, f)
      PROVE  p = q
  BY <1>2, StagedApart DEF FilePaths, LivePaths, RunFiles, StagedPaths
<1>3. ASSUME NEW r \in RunIds, p \in {PlanPath(r), ReadyPath(r)}
      PROVE  p = q
  <2>1. CASE \E g \in Files : q = LivePath(g)
    BY <1>3, <2>1, MarkerApart
  <2>2. CASE \E s \in RunIds, g \in Files : q = StagedPath(s, g)
    BY <1>3, <2>2, MarkerApart
  <2>3. ASSUME NEW s \in RunIds, q \in {PlanPath(s), ReadyPath(s)}
        PROVE  p = q
    <3>1. CheckpointFile \in Files
      BY JournalConstants DEF J!JournalAssumption
    <3> QED
      BY <1>3, <2>3, <3>1, MarkerApart
  <2> QED
    BY <2>1, <2>2, <2>3 DEF FilePaths, LivePaths, RunFiles, StagedPaths
<1> QED
  BY <1>1, <1>2, <1>3 DEF FilePaths, LivePaths, RunFiles, StagedPaths

(* The paths of files are paths. *)
LEMMA FilePathsType == FilePaths \subseteq Known
<1>1. ASSUME NEW p \in FilePaths
      PROVE  p \in Paths
  <2>1. CASE \E f \in Files : p = LivePath(f)
    BY <2>1, LiveAt, RelPaths DEF Paths
  <2>2. CASE \E r \in RunIds, f \in Files : p = StagedPath(r, f)
    BY <2>2, StagedAt, RelPaths DEF Paths
  <2>3. CASE \E r \in RunIds : p \in {PlanPath(r), ReadyPath(r)}
    BY <2>3, MarkerAt DEF Paths
  <2> QED
    BY <2>1, <2>2, <2>3 DEF FilePaths, LivePaths, RunFiles, StagedPaths
<1> QED
  BY <1>1, PrefixSelf DEF Known, Paths

(* What is above a known path is known, and no file. *)
LEMMA Above ==
  ASSUME NEW p \in Known, NEW d \in Paths, IsPrefix(d, p), d # p
  PROVE  d \in Known \ FilePaths
<1>1. PICK q \in FilePaths : IsPrefix(p, q)
  BY DEF Known
<1>2. p \in Seq(Names) /\ q \in Seq(Names) /\ d \in Seq(Names)
  BY <1>1, FilePathsType DEF Known, Paths
<1>3. IsPrefix(d, q)
  BY <1>1, <1>2, PrefixTwice
<1>4. d # q
  <2>1. SUFFICES ASSUME d = q PROVE FALSE
    OBVIOUS
  <2>2. Len(p) <= Len(d)
    BY <1>1, <1>2, <2>1, PrefixAt
  <2> QED
    BY <1>2, <2>2, PrefixAll
<1> QED
  BY <1>1, <1>3, <1>4, FilesApart DEF Known

(* A run directory, and what is above it, is known and no file. *)
LEMMA RunDirKnown ==
  ASSUME NEW r \in RunIds
  PROVE  RunDir(r) \in Known \ FilePaths
<1>1. PlanPath(r) \in Known /\ RunDir(r) \in Paths
  BY FilePathsType, RunDirAt DEF FilePaths, RunFiles, Paths
<1>2. CheckpointFile \in Files
  BY JournalConstants DEF J!JournalAssumption
<1>3. IsPrefix(RunDir(r), PlanPath(r)) /\ RunDir(r) # PlanPath(r)
  BY <1>2, RunDirApart, RunDirAt, MarkerAt
<1> QED
  BY <1>1, <1>3, Above

(* Every file has a path of its own. *)
LEMMA PathsDiffer ==
  ASSUME NEW r \in RunIds, NEW s \in RunIds, NEW f \in Files, NEW g \in Files
  PROVE  /\ LivePath(f) = LivePath(g) => f = g
         /\ StagedPath(r, f) = StagedPath(s, g) => r = s /\ f = g
         /\ PlanPath(r) = PlanPath(s) => r = s
         /\ ReadyPath(r) = ReadyPath(s) => r = s
         /\ LivePath(f) \notin {StagedPath(s, g), PlanPath(s), ReadyPath(s)}
         /\ StagedPath(r, f) \notin {PlanPath(s), ReadyPath(s)}
         /\ PlanPath(r) # ReadyPath(s)
<1>1. \A p \in Seq(Names), q \in Seq(Names) : p = q => IsPrefix(p, q)
  BY PrefixSelf
<1>2. /\ LivePath(f) \in Seq(Names) /\ LivePath(g) \in Seq(Names)
      /\ StagedPath(r, f) \in Seq(Names) /\ StagedPath(s, g) \in Seq(Names)
      /\ PlanPath(r) \in Seq(Names) /\ PlanPath(s) \in Seq(Names)
      /\ ReadyPath(r) \in Seq(Names) /\ ReadyPath(s) \in Seq(Names)
  BY LiveAt, StagedAt, MarkerAt
<1>3. /\ LivePath(f) = LivePath(g) => f = g
      /\ LivePath(f) \notin {StagedPath(s, g), PlanPath(s), ReadyPath(s)}
  BY <1>1, <1>2, LiveApart
<1>4. /\ StagedPath(r, f) = StagedPath(s, g) => r = s /\ f = g
      /\ StagedPath(r, f) \notin {PlanPath(s), ReadyPath(s)}
  BY <1>1, <1>2, StagedApart
<1>5. /\ PlanPath(r) = PlanPath(s) => r = s
      /\ ReadyPath(r) = ReadyPath(s) => r = s
      /\ PlanPath(r) # ReadyPath(s)
  BY <1>1, <1>2, MarkerApart
<1> QED
  BY <1>3, <1>4, <1>5

-----------------------------------------------------------------------------
(* Trees. *)

(* A tree, path by path. *)
LEMMA TreeType ==
  ASSUME NEW t
  PROVE  t \in Trees <=> /\ IsFunction(t)
                         /\ DOMAIN t \subseteq Known
                         /\ \A p \in DOMAIN t : t[p] \in Node /\ Fits(p, t[p])
BY PartialIsFunction DEF Trees, IsFunction

(* Nothing, a path less. *)
LEMMA ChangeTypes ==
  /\ << >> \in Trees
  /\ Unchanged \in Changes
  /\ \A p \in Known : Gone(p) \in Changes
  /\ \A p \in Known \ FilePaths : Made(p, Directory) \in Changes
<1>1. << >> \in Trees
  BY EmptyPartial DEF Trees
<1>2. ASSUME NEW p \in Known \ FilePaths
      PROVE  Made(p, Directory) \in Changes
  <2>1. PICK t : t = [q \in {p} |-> Directory]
    OBVIOUS
  <2>2. Directory \in Node /\ Fits(p, Directory)
    <3>1. p \notin LivePaths \cup UNION {StagedPaths(r) : r \in RunIds}
          /\ p \notin {PlanPath(r) : r \in RunIds}
      BY <1>2 DEF FilePaths, RunFiles
    <3> QED
      BY <1>2, <3>1 DEF Node, Directory, Fits
  <2>3. t \in Trees
    BY <1>2, <2>1, <2>2, TreeType DEF IsFunction
  <2> QED
    BY <2>1, <2>3 DEF Made, Changes
<1> QED
  BY <1>1, <1>2 DEF Unchanged, Gone, Changes

(* Changes lead from tree to tree. *)
LEMMA AppliedType ==
  ASSUME NEW t \in Trees, NEW changes \in Seq(Changes)
  PROVE  Applied(t, changes) \in Trees
<1>1. PICK u : u = Applied(t, changes)
  OBVIOUS
<1>2. ASSUME NEW p \in DOMAIN u
      PROVE  p \in Known /\ u[p] \in Node /\ Fits(p, u[p])
  <2>1. CASE Changing(changes, p) = {}
    BY <1>1, <1>2, <2>1, AppliedAt, TreeType
  <2>2. CASE Changing(changes, p) # {}
    <3>1. PICK n \in Changing(changes, p) : \A m \in Changing(changes, p) : m <= n
      BY <2>2, AppliedAt
    <3>2. p \in DOMAIN changes[n].new /\ u[p] = changes[n].new[p]
      BY <1>1, <1>2, <3>1, AppliedAt
    <3>3. changes[n].new \in Trees
      <4>1. n \in DOMAIN changes
        BY <3>1 DEF Changing
      <4>2. PICK c \in Changes : c = changes[n]
        BY <4>1
      <4> QED
        BY <4>2 DEF Changes
    <3> QED
      BY <3>2, <3>3, TreeType
  <2> QED
    BY <2>1, <2>2
<1> QED
  BY <1>1, <1>2, AppliedFunction, TreeType

(* What can be seen of a tree is closed, and all of a closed one is seen. *)
LEMMA VisibleClosed ==
  ASSUME NEW t \in Trees
  PROVE  /\ Visible(t) \in Trees
         /\ Closed(Visible(t))
         /\ Closed(t) => Visible(t) = t
<1> DEFINE orphans == {p \in DOMAIN t : Len(p) > 1 /\ Front(p) \notin DOMAIN t}
           seen == {p \in DOMAIN t : \A o \in orphans : ~IsPrefix(o, p)}
<1>1. DOMAIN t \subseteq Known /\ \A p \in Known : p \in Paths /\ p \in Seq(Names)
  BY TreeType DEF Known, Paths
<1>2. Closed(t) <=> orphans = {}
  BY DEF Closed
<1>3. CASE orphans = {}
  BY <1>2, <1>3 DEF Visible
<1>4. CASE orphans # {}
  <2>1. PICK v : v = Restrict(t, seen)
    OBVIOUS
  <2>2. Visible(t) = v
    BY <1>4, <2>1 DEF Visible
  <2>3. DOMAIN v = seen /\ (\A p \in seen : v[p] = t[p]) /\ IsFunction(v)
    BY <2>1 DEF Restrict, IsFunction
  <2>4. v \in Trees
    BY <2>3, TreeType
  <2>5. ASSUME NEW p \in seen, Len(p) > 1
        PROVE  Front(p) \in seen
    <3>1. p \notin orphans
      BY <1>1, <2>5, PrefixSelf
    <3>2. Front(p) \in DOMAIN t
      BY <2>5, <3>1
    <3>3. ASSUME NEW o \in orphans, IsPrefix(o, Front(p))
          PROVE  FALSE
      <4>1. IsPrefix(Front(p), p)
        BY <1>1, <2>5, FrontAt
      <4>2. p \in Seq(Names) /\ Front(p) \in Seq(Names) /\ o \in Seq(Names)
        BY <1>1, <2>5, <3>2, <3>3
      <4>3. IsPrefix(o, p)
        BY <3>3, <4>1, <4>2, PrefixTwice
      <4> QED
        BY <2>5, <3>3, <4>3
    <3> QED
      BY <3>2, <3>3
  <2> QED
    BY <1>2, <1>4, <2>2, <2>3, <2>4, <2>5 DEF Closed
<1> QED
  BY <1>3, <1>4

(* In a closed tree, all directories above an entry are there. *)
LEMMA ClosedAbove ==
  ASSUME NEW t \in Trees, Closed(t), NEW n \in Nat, NEW p \in DOMAIN t, n >= 1, n <= Len(p)
  PROVE  SubSeq(p, 1, n) \in DOMAIN t
<1> DEFINE There == {m \in Nat : m <= Len(p) /\ SubSeq(p, 1, m) \in DOMAIN t /\ n <= m}
<1>1. p \in Known /\ p \in Paths /\ p \in Seq(Names) /\ Len(p) \in Nat
  BY TreeType DEF Known, Paths
<1>2. SubSeq(p, 1, Len(p)) = p
  BY <1>1
<1>3. There # {} /\ There \subseteq Nat
  <2>1. Len(p) \in Nat /\ Len(p) <= Len(p) /\ n <= Len(p)
    BY <1>1
  <2>2. SubSeq(p, 1, Len(p)) \in DOMAIN t
    BY <1>2, Zenon
  <2>3. Len(p) \in There
    BY <2>1, <2>2, Zenon
  <2> QED
    BY <2>3
<1>4. PICK m \in There : \A k \in There : <<k, m>> \notin OpToRel(<, Nat)
  BY <1>3, NatLessThanWellFounded, WFMin
<1>5. \A k \in There : ~(k < m)
  BY <1>3, <1>4 DEF OpToRel
<1>6. m = n
  <2>1. SUFFICES ASSUME m > n PROVE FALSE
    BY <1>3
  <2>2. m \in 0..Len(p)
    BY <1>1, <1>3
  <2>3. PICK s \in Seq(Names) : s = SubSeq(p, 1, m)
    BY <1>1, <2>2, Cut
  <2>4. Len(s) = m /\ s \in DOMAIN t
    BY <1>1, <2>2, <2>3, Cut
  <2>5. Front(s) \in DOMAIN t
    BY <2>1, <2>4 DEF Closed
  <2>6. Front(s) = SubSeq(p, 1, m - 1)
    <3>1. \A i \in 1..m : s[i] = p[i]
      BY <1>1, <2>2, <2>3
    <3> QED
      BY <1>1, <2>1, <2>2, <2>4, <3>1 DEF Front
  <2>7. m - 1 \in There
    BY <1>3, <2>1, <2>5, <2>6
  <2> QED
    BY <1>3, <1>5, <2>7
<1> QED
  BY <1>6

(* u is t with some of these directories more. *)
Grown(t, u, more) ==
  /\ u \in Trees /\ Closed(u)
  /\ \A p \in DOMAIN t : p \in DOMAIN u /\ u[p] = t[p]
  /\ DOMAIN u \ DOMAIN t \subseteq more

(* A path, and its directories if it is one. *)
UpTo(d) == {p \in Known \ FilePaths : IsPrefix(p, d)}

(* Making some directories, each of them below one that is there. *)
LEMMA GrowingTree ==
  ASSUME NEW t \in Trees, Closed(t), NEW changes \in Seq(Changes), NEW more \in SUBSET (Known \ FilePaths),
         \A n \in DOMAIN changes :
            changes[n] = Unchanged \/ \E p \in more : p \notin DOMAIN t /\ changes[n] = Made(p, Directory),
         \A n \in DOMAIN changes : \A p \in DOMAIN changes[n].new :
            Len(p) > 1 => \/ Front(p) \in DOMAIN t
                          \/ \E m \in DOMAIN changes : Front(p) \in DOMAIN changes[m].new
  PROVE  /\ Grown(t, Applied(t, changes), more)
         /\ \A n \in DOMAIN changes : DOMAIN changes[n].new \subseteq DOMAIN Applied(t, changes)
<1>1. PICK u : u = Applied(t, changes)
  OBVIOUS
<1>2. ASSUME NEW n \in DOMAIN changes
      PROVE  /\ changes[n].gone = {}
             /\ \A q \in DOMAIN changes[n].new :
                  changes[n].new[q] = Directory /\ q \in more /\ q \notin DOMAIN t
  <2>1. CASE changes[n] = Unchanged
    BY <2>1 DEF Unchanged
  <2>2. ASSUME NEW p \in more, p \notin DOMAIN t, changes[n] = Made(p, Directory)
        PROVE  /\ changes[n].gone = {}
               /\ \A q \in DOMAIN changes[n].new :
                    changes[n].new[q] = Directory /\ q \in more /\ q \notin DOMAIN t
    BY <2>2 DEF Made
  <2> QED
    BY <1>2, <2>1, <2>2
<1>3. ASSUME NEW p
      PROVE  IF \E n \in DOMAIN changes : p \in DOMAIN changes[n].new
             THEN p \in DOMAIN u
             ELSE (p \in DOMAIN u <=> p \in DOMAIN t) /\ (p \in DOMAIN t => u[p] = t[p])
  <2>1. MakeOnly(changes, Directory)
    BY <1>2 DEF MakeOnly
  <2> HIDE DEF Directory
  <2>2. IF \E n \in DOMAIN changes : p \in DOMAIN changes[n].new
        THEN p \in DOMAIN Applied(t, changes) /\ Applied(t, changes)[p] = Directory
        ELSE /\ p \in DOMAIN Applied(t, changes) <=> p \in DOMAIN t
             /\ p \in DOMAIN t => Applied(t, changes)[p] = t[p]
    BY <2>1, AppliedMade
  <2> QED
    BY <1>1, <2>2
<1>4. \A p \in DOMAIN t : p \in DOMAIN u /\ u[p] = t[p]
  BY <1>2, <1>3
<1>5. DOMAIN u \ DOMAIN t \subseteq more
  BY <1>2, <1>3
<1>6. Closed(u)
  <2>1. SUFFICES ASSUME NEW p \in DOMAIN u, Len(p) > 1 PROVE Front(p) \in DOMAIN u
    BY DEF Closed
  <2>2. CASE p \in DOMAIN t
    BY <1>4, <2>1, <2>2 DEF Closed
  <2>3. CASE p \notin DOMAIN t
    <3>1. PICK n \in DOMAIN changes : p \in DOMAIN changes[n].new
      BY <1>3, <2>1, <2>3
    <3> QED
      BY <1>3, <1>4, <2>1, <3>1
  <2> QED
    BY <2>2, <2>3
<1>7. u \in Trees
  BY <1>1, AppliedType
<1>8. \A n \in DOMAIN changes : DOMAIN changes[n].new \subseteq DOMAIN u
  BY <1>3
<1> QED
  BY <1>1, <1>4, <1>5, <1>6, <1>7, <1>8 DEF Grown

(* mkdir -p, and however far it has come.                                  *)
LEMMA EnsureDir ==
  ASSUME tree \in Trees, Closed(tree), NEW d \in Seq(Names), d # << >> => d \in Known \ FilePaths
  PROVE  /\ ensure_dir(d) \in Seq(Changes)
         /\ \A n \in Nat : Grown(tree, Applied(tree, First(ensure_dir(d), n)), UpTo(d))
         /\ Grown(tree, Applied(tree, ensure_dir(d)), UpTo(d))
         /\ d # << >> => d \in DOMAIN Applied(tree, ensure_dir(d))
<1> DEFINE Deep == {n \in 1..Len(d) : SubSeq(d, 1, n) \in DOMAIN tree}
<1>1. Len(d) \in Nat
  OBVIOUS
<1>2. PICK there : there = Max({0} \cup Deep)
  OBVIOUS
<1>3. there \in 0..Len(d) /\ (there # 0 => there \in Deep) /\ \A n \in Deep : n <= there
  <2>1. Deep \in SUBSET Nat /\ \A n \in Deep : n <= Len(d)
    BY <1>1
  <2>2. Max({0} \cup Deep) \in {0} \cup Deep /\ \A n \in Deep : n <= Max({0} \cup Deep)
    <3> HIDE DEF Deep
    <3> QED
      BY <1>1, <2>1, GreatestOf
  <2> QED
    BY <1>1, <1>2, <2>2
<1>4. PICK k \in Nat : k = Len(d) - there
  <2>1. Len(d) - there \in Nat
    BY <1>1, <1>3
  <2> QED
    BY <2>1
<1>5. PICK c : c = ensure_dir(d)
  OBVIOUS
<1>6. c = [n \in 1..k |-> Made(SubSeq(d, 1, there + n), Directory)]
  BY <1>2, <1>4, <1>5 DEF ensure_dir
<1>7. ASSUME NEW n \in 1..Len(d)
      PROVE  /\ SubSeq(d, 1, n) \in UpTo(d) /\ SubSeq(d, 1, n) \in Known \ FilePaths
             /\ n > 1 => Front(SubSeq(d, 1, n)) = SubSeq(d, 1, n - 1)
             /\ Len(SubSeq(d, 1, n)) = n
             /\ n > there => SubSeq(d, 1, n) \notin DOMAIN tree
  <2>1. n \in 0..Len(d)
    BY <1>1
  <2>2. PICK s \in Seq(Names) : s = SubSeq(d, 1, n)
    BY <2>1, Cut
  <2>3. Len(s) = n /\ IsPrefix(s, d)
    BY <2>1, <2>2, Cut
  <2>4. d # << >> /\ s # << >>
    BY <1>1, <2>3
  <2>5. s \in Known \ FilePaths
    <3>1. CASE s = d
      BY <2>4, <3>1
    <3>2. CASE s # d
      BY <2>3, <2>4, <3>2, Above DEF Paths
    <3> QED
      BY <3>1, <3>2
  <2>6. n > 1 => Front(s) = SubSeq(d, 1, n - 1)
    <3>1. \A i \in 1..n : s[i] = d[i]
      BY <1>1, <2>2
    <3> QED
      BY <1>1, <2>3, <3>1 DEF Front
  <2>7. n > there => s \notin DOMAIN tree
    BY <1>1, <1>3, <2>2
  <2> QED
    BY <2>2, <2>3, <2>5, <2>6, <2>7 DEF UpTo
<1>8. ASSUME NEW n \in 1..k
      PROVE  /\ there + n \in 1..Len(d) /\ there + n > there
             /\ c[n] = Made(SubSeq(d, 1, there + n), Directory)
             /\ c[n] \in Changes
  <2>1. there + n \in 1..Len(d) /\ there + n > there
    BY <1>1, <1>3, <1>4
  <2> QED
    BY <1>6, <1>7, <2>1, ChangeTypes
<1>9. c \in Seq(Changes) /\ Len(c) = k
  BY <1>6, <1>8
<1>10. ASSUME NEW n \in Nat
       PROVE  /\ Grown(tree, Applied(tree, First(c, n)), UpTo(d))
              /\ n = k => First(c, n) = c
  <2>1. PICK x \in Seq(Changes) : x = First(c, n)
    <3>1. First(c, n) \in Seq(Changes \cup {Unchanged})
      BY <1>9, FirstType
    <3>2. Changes \cup {Unchanged} = Changes
      BY ChangeTypes
    <3> QED
      BY <3>1, <3>2
  <2>2. DOMAIN x = 1..k /\ \A i \in 1..k : x[i] = IF i \in 1..n THEN c[i] ELSE Unchanged
    BY <1>9, <2>1 DEF First
  <2>3. UpTo(d) \in SUBSET (Known \ FilePaths)
    BY DEF UpTo
  <2>4. ASSUME NEW i \in DOMAIN x
        PROVE  x[i] = Unchanged \/ \E p \in UpTo(d) : p \notin DOMAIN tree /\ x[i] = Made(p, Directory)
    BY <1>7, <1>8, <2>2
  <2>5. ASSUME NEW i \in DOMAIN x, NEW p \in DOMAIN x[i].new, Len(p) > 1
        PROVE  Front(p) \in DOMAIN tree \/ \E m \in DOMAIN x : Front(p) \in DOMAIN x[m].new
    <3>1. i \in 1..n /\ x[i] = c[i]
      BY <2>2, <2>5 DEF Unchanged
    <3>2. p = SubSeq(d, 1, there + i)
      <4>1. i \in 1..k
        BY <2>2
      <4>2. x[i] = Made(SubSeq(d, 1, there + i), Directory)
        BY <1>8, <3>1, <4>1, Zenon
      <4> QED
        BY <4>2 DEF Made
    <3>3. there + i > 1 /\ Front(p) = SubSeq(d, 1, there + i - 1)
      <4>1. PICK j \in 1..Len(d) : j = there + i
        BY <1>8, <2>2
      <4>2. p = SubSeq(d, 1, j)
        BY <3>2, <4>1, Zenon
      <4>3. j > 1
        BY <1>7, <2>5, <4>2
      <4>4. Front(SubSeq(d, 1, j)) = SubSeq(d, 1, j - 1)
        BY <1>7, <4>3
      <4>5. Front(p) = SubSeq(d, 1, j - 1)
        BY <4>2, <4>4, Zenon
      <4>6. there + i > 1 /\ j - 1 = there + i - 1
        BY <1>1, <1>3, <2>2, <4>1, <4>3
      <4> QED
        BY <4>5, <4>6, Zenon
    <3>4. CASE i = 1
      <4>1. there + i - 1 = there /\ there # 0
        BY <1>3, <3>3, <3>4
      <4> QED
        BY <1>3, <3>3, <4>1
    <3>5. CASE i # 1
      <4>1. PICK m \in 1..k : m = i - 1 /\ m \in 1..n
        BY <2>2, <3>1, <3>5
      <4>2. x[m] = Made(SubSeq(d, 1, there + m), Directory)
        BY <1>8, <2>2, <4>1
      <4>3. there + m = there + i - 1
        BY <1>3, <2>2, <4>1
      <4>4. Front(p) = SubSeq(d, 1, there + m)
        BY <3>3, <4>3, Zenon
      <4>5. Front(p) \in DOMAIN x[m].new
        <5>1. PICK o : o = SubSeq(d, 1, there + m)
          OBVIOUS
        <5>2. x[m] = Made(o, Directory)
          BY <4>2, <5>1, Zenon
        <5>3. o \in DOMAIN x[m].new
          BY <5>2 DEF Made
        <5> QED
          BY <4>4, <5>1, <5>3, Zenon
      <4> QED
        BY <2>2, <4>1, <4>5, Zenon
    <3> QED
      BY <3>4, <3>5
  <2>6. Grown(tree, Applied(tree, x), UpTo(d))
    BY <2>3, <2>4, <2>5, GrowingTree
  <2>7. n = k => First(c, n) = c
    <3>1. SUFFICES ASSUME n = k PROVE First(c, n) = c
      OBVIOUS
    <3>2. c \in Seq(Changes) /\ Len(c) <= n
      BY <1>9, <3>1
    <3> QED
      BY <3>2, FirstType, Zenon
  <2> QED
    BY <2>1, <2>6, <2>7
<1>11. d # << >> => d \in DOMAIN Applied(tree, c)
  <2>1. SUFFICES ASSUME d # << >> PROVE d \in DOMAIN Applied(tree, c)
    OBVIOUS
  <2>2. Len(d) \in 1..Len(d) /\ SubSeq(d, 1, Len(d)) = d
    BY <1>1, <2>1
  <2>3. Grown(tree, Applied(tree, c), UpTo(d))
    BY <1>10
  <2>4. CASE there = Len(d)
    <3>1. SubSeq(d, 1, there) \in DOMAIN tree
      BY <1>1, <1>3, <2>1, <2>2, <2>4
    <3>2. d \in DOMAIN tree
      BY <2>2, <2>4, <3>1, Zenon
    <3> QED
      BY <2>3, <3>2 DEF Grown
  <2>5. CASE there # Len(d)
    <3>1. k \in 1..k /\ there + k = Len(d)
      BY <1>1, <1>3, <1>4, <2>5
    <3>2. d \in DOMAIN c[k].new
      <4>1. c[k] = Made(SubSeq(d, 1, Len(d)), Directory)
        BY <1>8, <3>1, Zenon
      <4>2. c[k] = Made(d, Directory)
        BY <2>2, <4>1, Zenon
      <4> QED
        BY <4>2 DEF Made
    <3>3. MakeOnly(c, Directory)
      <4>1. ASSUME NEW n \in DOMAIN c
            PROVE  /\ c[n].gone = {}
                   /\ \A q \in DOMAIN c[n].new : c[n].new[q] = Directory
        <5>1. n \in 1..k
          BY <1>9
        <5>2. PICK o : c[n] = Made(o, Directory)
          BY <1>8, <5>1, Zenon
        <5> QED
          BY <5>2 DEF Made
      <4> QED
        BY <4>1 DEF MakeOnly
    <3> HIDE DEF Directory
    <3> QED
      BY <1>9, <3>1, <3>2, <3>3, AppliedMade
  <2> QED
    BY <2>4, <2>5
<1> QED
  BY <1>5, <1>9, <1>10, <1>11

(* The directories that are no run's but that of these runs. *)
DirsOf(R) == {p \in Known \ FilePaths : \A s \in RunIds : p = RunDir(s) => s \in R}

(* Trees grow in goes. *)
LEMMA GrownTwice ==
  ASSUME NEW t, NEW u, NEW v, NEW A, NEW B, NEW C, Grown(t, u, A), Grown(u, v, B), A \cup B \subseteq C
  PROVE  Grown(t, v, C)
BY DEF Grown

(* Growing in some directories is growing in more. *)
LEMMA GrownMore ==
  ASSUME NEW t, NEW u, NEW A, NEW B, Grown(t, u, A), A \subseteq B
  PROVE  Grown(t, u, B)
BY DEF Grown

(* The directories above a file are of its run, if it is a run's. *)
LEMMA DirsAbove ==
  ASSUME NEW q \in FilePaths
  PROVE  /\ Front(q) \in Seq(Names)
         /\ Front(q) # << >> => Front(q) \in Known \ FilePaths
         /\ Front(q) = << >> <=> Len(q) = 1
         /\ UpTo(Front(q)) \subseteq DirsOf({s \in RunIds : IsPrefix(RunDir(s), q)})
<1>1. q \in Known /\ q \in Paths /\ q \in Seq(Names) /\ Len(q) \in Nat
  BY FilePathsType DEF Known, Paths
<1>2. PICK d \in Seq(Names) : d = Front(q)
  BY <1>1, FrontAt
<1>3. Len(d) = Len(q) - 1 /\ IsPrefix(d, q)
  BY <1>1, <1>2, FrontAt
<1>4. d # << >> => d \in Known \ FilePaths
  <2>1. d # q
    BY <1>1, <1>3
  <2> QED
    BY <1>1, <1>3, <2>1, Above DEF Paths
<1>5. ASSUME NEW p \in UpTo(d)
      PROVE  p \in DirsOf({s \in RunIds : IsPrefix(RunDir(s), q)})
  <2>1. p \in Known \ FilePaths /\ p \in Seq(Names) /\ IsPrefix(p, d)
    BY <1>5 DEF UpTo, Known, Paths
  <2>2. IsPrefix(p, q)
    BY <1>1, <1>3, <2>1, PrefixTwice
  <2> QED
    BY <2>1, <2>2 DEF DirsOf
<1>6. d = << >> <=> Len(q) = 1
  <2>1. Len(d) = 0 <=> Len(q) = 1
    BY <1>1, <1>3
  <2> QED
    BY <2>1, EmptySeq
<1> QED
  BY <1>2, <1>4, <1>5, <1>6

(* The run directory of a staged file's path. *)
LEMMA RunDirCut ==
  ASSUME NEW s \in RunIds, NEW q \in Seq(Names), IsPrefix(RunDir(s), q)
  PROVE  Len(q) >= 3 /\ RunDir(s) = SubSeq(q, 1, 3)
<1>1. PICK d \in Seq(Names) : d = RunDir(s) /\ Len(d) = 3
  BY RunDirAt
<1>2. Len(d) <= Len(q)
  BY <1>1, PrefixAt
<1>3. 3 \in 0..Len(q)
  BY <1>1, <1>2
<1> QED
  BY <1>1, <1>2, <1>3, Cut

(* Lengths are numbers. *)
LEMMA LongerThanOne ==
  ASSUME NEW p \in Seq(Names), Len(p) > 1
  PROVE  Len(p) # 1
<1>1. PICK n \in Nat : n = Len(p)
  BY LenProperties
<1>2. n # 1
  BY <1>1
<1> QED
  BY <1>1, <1>2, Zenon

(* A path and a name more. *)
LEMMA OneMore ==
  ASSUME NEW d \in Seq(Names), NEW m \in Nat, Len(d) = m, NEW x \in Names
  PROVE  /\ d \o <<x>> \in Seq(Names) /\ d \o <<x>> = Append(d, x)
         /\ Len(d \o <<x>>) = m + 1 /\ \A i \in 1..m : (d \o <<x>>)[i] = d[i]
<1>1. /\ Append(d, x) \in Seq(Names) /\ Len(Append(d, x)) = Len(d) + 1
      /\ \A i \in 1..Len(d) : Append(d, x)[i] = d[i]
  <2>1. Append(d, x) \in Seq(Names)
    OBVIOUS
  <2>2. Len(Append(d, x)) = Len(d) + 1
    OBVIOUS
  <2>3. \A i \in 1..Len(d) : Append(d, x)[i] = d[i]
    OBVIOUS
  <2> QED
    BY <2>1, <2>2, <2>3
<1>2. Append(d, x) = d \o <<x>>
  BY AppendIsConcat
<1>3. Len(d) + 1 = m + 1
  OBVIOUS
<1> QED
  BY <1>1, <1>2, <1>3, Zenon

(* v is t after a file was written, its directories made and others gone. *)
Wrote(t, v, q, node, gone) ==
  /\ v \in Trees /\ Closed(v)
  /\ q \in DOMAIN v /\ v[q] = node
  /\ \A p \in gone : p \notin DOMAIN v
  /\ \A p \in FilePaths \ (gone \cup {q}) :
       (p \in DOMAIN v <=> p \in DOMAIN t) /\ (p \in DOMAIN t => v[p] = t[p])
  /\ \A s \in RunIds : RunDir(s) \in DOMAIN v <=> RunDir(s) \in DOMAIN t \/ IsPrefix(RunDir(s), q)

(* The last step of writing a file or renaming one. *)
LEMMA PuttingFile ==
  ASSUME NEW t \in Trees, Closed(t), NEW q \in FilePaths,
         NEW u, Grown(t, u, UpTo(Front(q))), Front(q) # << >> => Front(q) \in DOMAIN u,
         NEW node \in Node, Fits(q, node), NEW gone \in SUBSET (FilePaths \ {q}),
         NEW change, change = [new |-> [p \in {q} |-> node], gone |-> gone]
  PROVE  /\ change \in Changes
         /\ Wrote(t, Applied(u, <<change>>), q, node, gone)
<1>1. PICK v : v = Applied(u, <<change>>)
  OBVIOUS
<1>2. DOMAIN change.new = {q} /\ change.new[q] = node /\ change.gone = gone
  OBVIOUS
<1>3. change \in Changes
  <2>1. PICK w : w = [p \in {q} |-> node]
    OBVIOUS
  <2>2. w \in Trees
    BY <2>1, FilePathsType, TreeType DEF IsFunction
  <2> QED
    BY <2>1, <2>2, FilePathsType DEF Changes
<1>4. v \in Trees
  <2>1. PICK c \in Seq(Changes) : c = <<change>>
    <3>1. <<change>> \in Seq(Changes)
      BY <1>3
    <3> QED
      BY <3>1
  <2> QED
    BY <1>1, <2>1, AppliedType DEF Grown
<1>5. q \in DOMAIN v /\ v[q] = node /\ \A p \in gone : p \notin DOMAIN v
  BY <1>1, <1>2, AppliedOne
<1>6. ASSUME NEW p, p \notin gone \cup {q}
      PROVE  (p \in DOMAIN v <=> p \in DOMAIN u) /\ (p \in DOMAIN u => v[p] = u[p])
  BY <1>1, <1>2, <1>6, AppliedOne
<1>7. DOMAIN u \subseteq Known /\ DOMAIN v \subseteq Known /\ \A p \in Known : p \in Paths /\ p \in Seq(Names)
  BY <1>4, TreeType DEF Grown, Known, Paths
<1>8. Closed(v)
  <2>1. SUFFICES ASSUME NEW p \in DOMAIN v, Len(p) > 1 PROVE Front(p) \in DOMAIN v
    BY DEF Closed
  <2>2. Front(p) \in DOMAIN u
    <3>1. CASE p = q
      <4>1. Front(q) # << >>
        <5>1. Len(q) # 1
          <6>1. p \in Seq(Names)
            BY <1>7, <2>1, Zenon
          <6>2. Len(p) # 1
            BY <2>1, <6>1, LongerThanOne, Zenon
          <6> QED
            BY <3>1, <6>2, Zenon
        <5> QED
          BY <5>1, DirsAbove, Zenon
      <4> QED
        BY <3>1, <4>1
    <3>2. CASE p # q
      BY <1>5, <1>6, <2>1, <3>2 DEF Grown, Closed
    <3> QED
      BY <3>1, <3>2
  <2>3. Front(p) \notin FilePaths
    <3>1. p \in Known /\ p \in Paths /\ Len(p) \in Nat
      BY <1>7, <2>1 DEF Paths
    <3>2. Front(p) \in Paths /\ IsPrefix(Front(p), p) /\ Front(p) # p
      BY <1>7, <2>2, <3>1, FrontAt
    <3> QED
      BY <3>1, <3>2, Above
  <2> QED
    BY <1>6, <2>2, <2>3
<1>9. ASSUME NEW p \in FilePaths \ (gone \cup {q})
      PROVE  (p \in DOMAIN v <=> p \in DOMAIN t) /\ (p \in DOMAIN t => v[p] = t[p])
  <2>1. p \in DOMAIN u => p \in DOMAIN t
    BY <1>9 DEF Grown, UpTo
  <2> QED
    BY <1>6, <1>9, <2>1 DEF Grown
<1>10. ASSUME NEW s \in RunIds
       PROVE  RunDir(s) \in DOMAIN v <=> RunDir(s) \in DOMAIN t \/ IsPrefix(RunDir(s), q)
  <2>1. RunDir(s) \in DOMAIN v <=> RunDir(s) \in DOMAIN u
    BY <1>6, RunDirKnown
  <2>2. RunDir(s) \in DOMAIN u => RunDir(s) \in DOMAIN t \/ IsPrefix(RunDir(s), q)
    <3>1. SUFFICES ASSUME RunDir(s) \in UpTo(Front(q)) PROVE IsPrefix(RunDir(s), q)
      BY DEF Grown
    <3>2. PICK R : R = {r \in RunIds : IsPrefix(RunDir(r), q)}
      OBVIOUS
    <3>3. RunDir(s) \in DirsOf(R)
      BY <3>1, <3>2, DirsAbove, Zenon
    <3> QED
      BY <3>2, <3>3 DEF DirsOf
  <2>3. RunDir(s) \in DOMAIN t => RunDir(s) \in DOMAIN u
    BY DEF Grown
  <2>4. ASSUME IsPrefix(RunDir(s), q)
        PROVE  RunDir(s) \in DOMAIN u
    <3>1. q \in Paths /\ q \in Seq(Names) /\ RunDir(s) \in Seq(Names) /\ RunDir(s) # q
      BY <1>7, FilePathsType, RunDirAt, RunDirKnown
    <3>2. PICK d \in Seq(Names) : d = Front(q)
      BY <3>1, FrontAt
    <3>3. IsPrefix(RunDir(s), d)
      BY <2>4, <3>1, <3>2, FrontAt
    <3>4. Len(d) >= 3 /\ RunDir(s) = SubSeq(d, 1, 3)
      BY <3>3, RunDirCut
    <3>5. d \in DOMAIN u
      BY <3>2, <3>4
    <3>6. PICK w \in Trees : w = u /\ Closed(w)
      BY DEF Grown
    <3>7. d \in DOMAIN w
      BY <3>5, <3>6, Zenon
    <3>8. SubSeq(d, 1, 3) \in DOMAIN w
      BY <3>4, <3>6, <3>7, ClosedAbove
    <3> QED
      BY <3>4, <3>6, <3>8, Zenon
  <2> QED
    BY <2>1, <2>2, <2>3, <2>4
<1> QED
  BY <1>1, <1>3, <1>4, <1>5, <1>8, <1>9, <1>10 DEF Wrote

(* The first of some changes and nothing of the others. *)
LEMMA AppliedFirstConcat ==
  ASSUME NEW t \in Trees, NEW a \in Seq(Changes), NEW b \in Seq(Changes), NEW n \in Nat
  PROVE  /\ n <= Len(a) => Applied(t, First(a \o b, n)) = Applied(t, First(a, n))
         /\ n > Len(a) => /\ n - Len(a) \in Nat
                          /\ Applied(t, First(a \o b, n)) = Applied(Applied(t, a), First(b, n - Len(a)))
<1>1. Changes \cup {Unchanged} = Changes
  BY ChangeTypes
<1>2. \A c \in Seq(Changes), m \in Nat : First(c, m) \in Seq(Changes)
  BY <1>1, FirstType
<1>3. CASE n <= Len(a)
  <2>1. PICK x \in Seq(Changes) : x = First(a, n)
    BY <1>2
  <2>2. PICK y \in Seq(Changes) : y = First(b, 0)
    BY <1>2
  <2>3. First(a \o b, n) = x \o y
    BY <1>3, <2>1, <2>2, FirstConcat
  <2>4. PICK u : u = Applied(t, x)
    OBVIOUS
  <2>5. IsFunction(u)
    BY <2>4, AppliedFunction
  <2>6. Applied(u, y) = u
    BY <2>2, <2>5, AppliedFirstNone
  <2>7. Applied(t, x \o y) = Applied(u, y)
    BY <2>4, AppliedConcat
  <2>8. ~(n > Len(a))
    <3>1. Len(a) \in Nat
      OBVIOUS
    <3> QED
      BY <1>3, <3>1
  <2> QED
    BY <2>1, <2>3, <2>4, <2>6, <2>7, <2>8
<1>4. CASE n > Len(a)
  <2>1. PICK m \in Nat : m = n - Len(a)
    <3>1. Len(a) \in Nat
      OBVIOUS
    <3>2. n - Len(a) \in Nat
      BY <1>4, <3>1
    <3> QED
      BY <3>2
  <2>2. PICK y \in Seq(Changes) : y = First(b, m)
    BY <1>2
  <2>3. First(a \o b, n) = a \o y
    BY <1>4, <2>1, <2>2, FirstConcat
  <2>4. Applied(t, a \o y) = Applied(Applied(t, a), y)
    BY AppliedConcat
  <2>5. ~(n <= Len(a))
    <3>1. Len(a) \in Nat
      OBVIOUS
    <3> QED
      BY <1>4, <3>1
  <2> QED
    BY <2>1, <2>2, <2>3, <2>4, <2>5
<1> QED
  <2>1. Len(a) \in Nat
    OBVIOUS
  <2> QED
    BY <1>3, <1>4, <2>1

(* Writing a file or renaming one: first its directories, then the entry.  *)
LEMMA WritingFile ==
  ASSUME tree \in Trees, Closed(tree), NEW q \in FilePaths, NEW node \in Node, Fits(q, node),
         NEW gone \in SUBSET (FilePaths \ {q}),
         NEW change, change = [new |-> [p \in {q} |-> node], gone |-> gone],
         NEW changes, changes = ensure_dir(Front(q)) \o <<change>>
  PROVE  /\ changes \in Seq(Changes) /\ Len(changes) \in Nat
         /\ Wrote(tree, Applied(tree, changes), q, node, gone)
         /\ \A n \in Nat : n < Len(changes) =>
              Grown(tree, Applied(tree, First(changes, n)), UpTo(Front(q)))
<1>1. PICK d \in Seq(Names) : d = Front(q) /\ (d # << >> => d \in Known \ FilePaths)
  BY DirsAbove
<1>2. PICK e : e = ensure_dir(d)
  OBVIOUS
<1>3. /\ e \in Seq(Changes)
      /\ \A n \in Nat : Grown(tree, Applied(tree, First(e, n)), UpTo(d))
      /\ Grown(tree, Applied(tree, e), UpTo(d))
      /\ d # << >> => d \in DOMAIN Applied(tree, e)
  BY <1>1, <1>2, EnsureDir
<1>4. PICK u : u = Applied(tree, e)
  OBVIOUS
<1>5. change \in Changes /\ Wrote(tree, Applied(u, <<change>>), q, node, gone)
  BY <1>1, <1>3, <1>4, PuttingFile
<1>6. PICK b \in Seq(Changes) : b = <<change>>
  <2>1. <<change>> \in Seq(Changes)
    BY <1>5
  <2> QED
    BY <2>1
<1>7. changes = e \o b
  BY <1>1, <1>2, <1>6
<1>11. e \in Seq(Changes)
  BY <1>3
<1>8. changes \in Seq(Changes) /\ Len(changes) = Len(e) + 1 /\ Len(e) \in Nat
  <2>1. Len(b) = 1
    BY <1>6
  <2> QED
    <3>1. PICK a \in Seq(Changes) : a = e
      BY <1>11
    <3>2. PICK c : c = a \o b
      OBVIOUS
    <3>3. c \in Seq(Changes) /\ Len(c) = Len(a) + Len(b)
      BY <3>2, ConcatProperties
    <3>4. Len(a) \in Nat /\ Len(c) = Len(a) + 1
      BY <2>1, <3>3
    <3>5. changes = c
      BY <1>7, <3>1, <3>2, Zenon
    <3> QED
      BY <3>1, <3>3, <3>4, <3>5, Zenon
<1>9. Applied(tree, changes) = Applied(u, b)
  <2>1. PICK a \in Seq(Changes) : a = e
    BY <1>11
  <2>2. Applied(tree, a \o b) = Applied(Applied(tree, a), b)
    BY AppliedConcat
  <2> QED
    BY <1>4, <1>7, <2>1, <2>2, Zenon
<1>10. ASSUME NEW n \in Nat, n < Len(changes)
       PROVE  Grown(tree, Applied(tree, First(changes, n)), UpTo(d))
  <2>1. n <= Len(e)
    BY <1>8, <1>10
  <2>2. Applied(tree, First(changes, n)) = Applied(tree, First(e, n))
    <3>1. PICK a \in Seq(Changes) : a = e
      BY <1>11
    <3>2. PICK x \in Trees : x = tree
      OBVIOUS
    <3>3. n <= Len(a)
      BY <2>1, <3>1, Zenon
    <3>4. Applied(x, First(a \o b, n)) = Applied(x, First(a, n))
      BY <3>3, AppliedFirstConcat
    <3> QED
      BY <1>7, <3>1, <3>2, <3>4, Zenon
  <2> QED
    BY <1>3, <2>2
<1> QED
  BY <1>1, <1>5, <1>6, <1>8, <1>9, <1>10

(* The elements of a finite set in some order. *)
LEMMA SomeOrder ==
  ASSUME NEW S, IsFiniteSet(S)
  PROVE  SetToSeq(S) \in Seq(S)
<1>1. Cardinality(S) \in Nat /\ ExistsBijection(1..Cardinality(S), S)
  BY FS_CardinalityType
<1>2. PICK f : f \in Bijection(1..Cardinality(S), S)
  BY <1>1 DEF ExistsBijection
<1>3. \E g \in [1..Cardinality(S) -> S] : IsInjective(g)
  BY <1>2 DEF Bijection, Injection
<1>4. SetToSeq(S) \in [1..Cardinality(S) -> S]
  BY <1>3 DEF SetToSeq
<1> QED
  BY <1>1, <1>4

(* ensure_layout makes directories of the run. *)
LEMMA LayingOut ==
  ASSUME tree \in Trees, Closed(tree), NEW r \in RunIds
  PROVE  /\ Layout(r) \in Seq(Changes)
         /\ \A n \in Nat : Grown(tree, Applied(tree, First(Layout(r), n)), DirsOf({r}))
         /\ Grown(tree, Applied(tree, Layout(r)), DirsOf({r}))
         /\ RunDir(r) \in DOMAIN Applied(tree, Layout(r))
<1> DEFINE deep  == {g \in Files : Len(RelPath[g]) > 1}
           Root(f) == RunDir(r) \o <<RelPath[f][1]>>
           roots == {Root(f) : f \in deep}
<1>1. PICK d \in Seq(Names) : d = RunDir(r) /\ Len(d) = 3 /\ d # << >> /\ d \in Known \ FilePaths
  <2>1. RunDir(r) \in Seq(Names) /\ Len(RunDir(r)) = 3
    BY RunDirAt
  <2>2. RunDir(r) \in Known \ FilePaths
    BY RunDirKnown
  <2>3. RunDir(r) # << >>
    BY <2>1
  <2> QED
    BY <2>1, <2>2, <2>3
<1>2. PICK e : e = ensure_dir(d)
  OBVIOUS
<1>3. /\ e \in Seq(Changes)
      /\ \A n \in Nat : Grown(tree, Applied(tree, First(e, n)), UpTo(d))
      /\ Grown(tree, Applied(tree, e), UpTo(d))
      /\ d \in DOMAIN Applied(tree, e)
  BY <1>1, <1>2, EnsureDir
<1>4. UpTo(d) \subseteq DirsOf({r})
  <2>1. ASSUME NEW s \in RunIds, RunDir(s) \in UpTo(d)
        PROVE  s = r
    <3>1. CheckpointFile \in Files
      BY JournalConstants DEF J!JournalAssumption
    <3> QED
      BY <1>1, <2>1, <3>1, RunDirApart DEF UpTo
  <2> QED
    BY <2>1 DEF UpTo, DirsOf
<1>5. ASSUME NEW f \in deep
      PROVE  /\ Root(f) \in DirsOf({r}) /\ Front(Root(f)) = d
             /\ Root(f) \notin UpTo(d)
  <2>1. PICK x \in Seq(Names) : x = RelPath[f] /\ Len(x) > 1
    BY RelPaths
  <2>2. PICK q \in Seq(Names) : q = Root(f)
    <3>1. <<x[1]>> \in Seq(Names) /\ d \o <<x[1]>> \in Seq(Names)
      BY <2>1
    <3> QED
      BY <1>1, <2>1, <3>1
  <2>3. q = Append(d, x[1]) /\ Len(q) = 4 /\ \A i \in 1..3 : q[i] = d[i]
    <3>1. x[1] \in Names
      BY <2>1
    <3>2. q = d \o <<x[1]>>
      BY <1>1, <2>1, <2>2, Zenon
    <3>3. Len(d) = 3
      BY <1>1, Zenon
    <3> QED
      <4>1. 3 \in Nat /\ 3 + 1 = 4
        OBVIOUS
      <4> QED
        BY <3>1, <3>2, <3>3, <4>1, OneMore, Zenon
  <2>4. q[4] = x[1]
    BY <1>1, <2>1, <2>3
  <2>5. Front(q) = d
    <3>1. Front(q) = SubSeq(q, 1, 3)
      BY <2>3 DEF Front
    <3>2. Len(SubSeq(q, 1, 3)) = 3 /\ \A i \in 1..3 : SubSeq(q, 1, 3)[i] = q[i]
      BY <2>3
    <3>3. SubSeq(q, 1, 3) \in Seq(Names)
      BY <2>3
    <3> QED
      BY <1>1, <2>3, <3>1, <3>2, <3>3
  <2>6. PICK p \in Seq(Names) : p = StagedPath(r, f)
    BY StagedAt
  <2>7. /\ Len(p) = 3 + Len(x) /\ \A i \in 1..3 : p[i] = d[i]
        /\ p[3 + 1] = x[1]
    <3>1. Len(p) = 3 + Len(x) /\ p[1] = "state" /\ p[2] = "runs" /\ p[3] = r /\ p[3 + 1] = x[1]
      <4>1. PICK g \in Files : g = f
        OBVIOUS
      <4>5. /\ Len(StagedPath(r, g)) = 3 + Len(RelPath[g]) /\ StagedPath(r, g)[1] = "state"
            /\ StagedPath(r, g)[2] = "runs" /\ StagedPath(r, g)[3] = r
            /\ \A i \in 1..Len(RelPath[g]) : StagedPath(r, g)[3 + i] = RelPath[g][i]
        BY StagedAt
      <4>2. /\ Len(p) = 3 + Len(RelPath[g]) /\ p[1] = "state" /\ p[2] = "runs" /\ p[3] = r
            /\ \A i \in 1..Len(RelPath[g]) : p[3 + i] = RelPath[g][i]
        BY <2>6, <4>1, <4>5, Zenon
      <4>3. RelPath[g] = x
        BY <2>1, <4>1, Zenon
      <4>4. 1 \in 1..Len(x)
        BY <2>1
      <4> QED
        BY <4>2, <4>3, <4>4, Zenon
    <3>2. d[1] = "state" /\ d[2] = "runs" /\ d[3] = r
      BY <1>1, RunDirAt
    <3> QED
      BY <3>1, <3>2
  <2>8. IsPrefix(q, p) /\ q # p /\ q \in Paths
    <3>1. Len(q) <= Len(p) /\ \A i \in 1..Len(q) : q[i] = p[i]
      BY <2>1, <2>3, <2>4, <2>7
    <3>2. q # p /\ q # << >>
      BY <2>1, <2>3, <2>7
    <3> QED
      BY <3>1, <3>2, PrefixAt DEF Paths
  <2>9. q \in Known \ FilePaths
    <3>1. p \in Known
      BY <2>6, FilePathsType DEF FilePaths, RunFiles, StagedPaths
    <3> QED
      BY <2>8, <3>1, Above
  <2>10. q \notin UpTo(d)
    <3>1. IsPrefix(q, d) => Len(q) <= Len(d)
      BY PrefixAt
    <3> QED
      BY <1>1, <2>3, <3>1 DEF UpTo
  <2>11. \A s \in RunIds : q # RunDir(s)
    BY <2>3, RunDirAt
  <2> QED
    BY <2>2, <2>5, <2>9, <2>10, <2>11 DEF DirsOf
<1>6. IsFiniteSet(roots)
  <2>1. IsFiniteSet(deep)
    BY DurableAssumption, FS_Subset
  <2>2. PICK f : f = [g \in deep |-> Root(g)]
    OBVIOUS
  <2>3. f \in Surjection(deep, roots)
    BY <2>2 DEF Surjection
  <2> QED
    BY <2>1, <2>3, FS_Surjection
<1> HIDE DEF Root
<1>7. PICK missing \in Seq(roots \ DOMAIN tree) : missing = SetToSeq(roots \ DOMAIN tree)
  <2>1. IsFiniteSet(roots \ DOMAIN tree)
    BY <1>6, FS_Subset
  <2> QED
    BY <2>1, SomeOrder
<1>8. PICK b : b = [n \in DOMAIN missing |-> Made(missing[n], Directory)]
  OBVIOUS
<1>9. Layout(r) = e \o b
  BY <1>1, <1>2, <1>7, <1>8 DEF Layout, Root
<1>10. PICK u : u = Applied(tree, e)
  OBVIOUS
<1>11. u \in Trees /\ Closed(u) /\ d \in DOMAIN u
  BY <1>3, <1>10 DEF Grown
<1>12. DOMAIN b = 1..Len(missing) /\ Len(missing) \in Nat
  BY <1>8
<1>13. ASSUME NEW n \in DOMAIN b
       PROVE  /\ \E p \in DirsOf({r}) : p \notin DOMAIN u /\ b[n] = Made(p, Directory) /\ Front(p) = d
              /\ b[n] \in Changes
  <2>1. PICK f \in deep : missing[n] = Root(f) /\ Root(f) \notin DOMAIN tree
    BY <1>12
  <2>2. Root(f) \notin DOMAIN u
    BY <1>3, <1>5, <1>10, <2>1 DEF Grown
  <2>3. b[n] = Made(Root(f), Directory)
    BY <1>8, <2>1
  <2>4. Root(f) \in Known \ FilePaths
    BY <1>5 DEF DirsOf
  <2> QED
    BY <1>5, <2>2, <2>3, <2>4, ChangeTypes
<1>14. b \in Seq(Changes)
  <2>1. b \in [1..Len(missing) -> Changes]
    BY <1>8, <1>12, <1>13
  <2> QED
    BY <1>12, <2>1
<1>15. ASSUME NEW c \in Seq(Changes), \A n \in DOMAIN c : n \in DOMAIN b /\ c[n] \in {b[n], Unchanged}
       PROVE  Grown(tree, Applied(u, c), DirsOf({r}))
  <2>1. DirsOf({r}) \in SUBSET (Known \ FilePaths)
    BY DEF DirsOf
  <2>2. ASSUME NEW n \in DOMAIN c
        PROVE  c[n] = Unchanged \/ \E p \in DirsOf({r}) : p \notin DOMAIN u /\ c[n] = Made(p, Directory)
    BY <1>13, <1>15, <2>2
  <2>3. ASSUME NEW n \in DOMAIN c, NEW p \in DOMAIN c[n].new
        PROVE  Front(p) \in DOMAIN u
    <3>1. c[n] = b[n]
      BY <1>15, <2>3 DEF Unchanged
    <3>2. PICK o \in DirsOf({r}) : b[n] = Made(o, Directory) /\ Front(o) = d
      BY <1>13, <1>15
    <3> QED
      BY <1>11, <2>3, <3>1, <3>2 DEF Made
  <2>4. Grown(u, Applied(u, c), DirsOf({r}))
    BY <1>11, <2>1, <2>2, <2>3, GrowingTree
  <2> QED
    BY <1>3, <1>4, <1>10, <2>4, GrownTwice
<1>16. ASSUME NEW n \in Nat
       PROVE  Grown(tree, Applied(tree, First(Layout(r), n)), DirsOf({r}))
  <2>1. Len(e) \in Nat
    BY <1>3
  <2>2. CASE n <= Len(e)
    <3>1. Applied(tree, First(Layout(r), n)) = Applied(tree, First(e, n))
      BY <1>3, <1>9, <1>14, <2>2, AppliedFirstConcat
    <3>2. Grown(tree, Applied(tree, First(e, n)), UpTo(d))
      BY <1>3
    <3> QED
      BY <1>4, <3>1, <3>2, GrownMore
  <2>3. CASE n > Len(e)
    <3>1. PICK m \in Nat : m = n - Len(e)
      BY <1>3, <1>14, <2>3, AppliedFirstConcat
    <3>2. Applied(tree, First(Layout(r), n)) = Applied(u, First(b, m))
      BY <1>3, <1>9, <1>10, <1>14, <2>3, <3>1, AppliedFirstConcat
    <3>3. PICK c \in Seq(Changes) : c = First(b, m)
      <4>1. First(b, m) \in Seq(Changes \cup {Unchanged})
        BY <1>14, FirstType
      <4>2. Changes \cup {Unchanged} = Changes
        BY ChangeTypes
      <4> QED
        BY <4>1, <4>2
    <3>4. \A i \in DOMAIN c : i \in DOMAIN b /\ c[i] \in {b[i], Unchanged}
      BY <3>3 DEF First
    <3> QED
      BY <1>15, <3>2, <3>3, <3>4
  <2> QED
    BY <2>1, <2>2, <2>3
<1>17. Grown(tree, Applied(tree, Layout(r)), DirsOf({r})) /\ d \in DOMAIN Applied(tree, Layout(r))
  <2>1. Applied(tree, Layout(r)) = Applied(u, b)
    BY <1>3, <1>9, <1>10, <1>14, AppliedConcat
  <2>2. Grown(tree, Applied(u, b), DirsOf({r}))
    BY <1>14, <1>15
  <2>3. MakeOnly(b, Directory)
    <3>1. ASSUME NEW n \in DOMAIN b
          PROVE  b[n].gone = {} /\ \A p \in DOMAIN b[n].new : b[n].new[p] = Directory
      <4>1. PICK o : b[n] = Made(o, Directory)
        BY <1>13
      <4> QED
        BY <4>1 DEF Made
    <3> QED
      BY <3>1 DEF MakeOnly
  <2>4. d \in DOMAIN Applied(u, b)
    BY <1>11, <1>14, <2>3, AppliedMade
  <2> QED
    BY <2>1, <2>2, <2>4
<1>18. Layout(r) \in Seq(Changes)
  BY <1>3, <1>9, <1>14
<1> QED
  BY <1>1, <1>16, <1>17, <1>18

(* unlink of an entry that has nothing below it. *)
LEMMA Unlinking ==
  ASSUME NEW t \in Trees, Closed(t), NEW path \in DOMAIN t, Entries(t, path) = {},
         NEW v, v = Applied(t, <<Gone(path)>>)
  PROVE  /\ <<Gone(path)>> \in Seq(Changes)
         /\ v \in Trees /\ Closed(v)
         /\ path \notin DOMAIN v
         /\ \A p : p # path => (p \in DOMAIN v <=> p \in DOMAIN t) /\ (p \in DOMAIN t => v[p] = t[p])
<1>1. DOMAIN t \subseteq Known /\ \A p \in Known : p \in Paths /\ p \in Seq(Names)
  BY TreeType DEF Known, Paths
<1>2. Gone(path) \in Changes
  BY <1>1, ChangeTypes
<1>3. PICK c \in Seq(Changes) : c = <<Gone(path)>>
  <2>1. <<Gone(path)>> \in Seq(Changes)
    BY <1>2
  <2> QED
    BY <2>1
<1>4. v \in Trees
  BY <1>3, AppliedType
<1>5. Gone(path).new = << >> /\ Gone(path).gone = {path} /\ DOMAIN << >> = {}
  BY DEF Gone
<1>6. path \notin DOMAIN v
  BY <1>5, AppliedOne
<1>7. ASSUME NEW p, p # path
      PROVE  (p \in DOMAIN v <=> p \in DOMAIN t) /\ (p \in DOMAIN t => v[p] = t[p])
  BY <1>5, <1>7, AppliedOne
<1>8. Closed(v)
  <2>1. SUFFICES ASSUME NEW p \in DOMAIN v, Len(p) > 1 PROVE Front(p) \in DOMAIN v
    BY DEF Closed
  <2>2. p \in DOMAIN t /\ Front(p) \in DOMAIN t
    BY <1>6, <1>7, <2>1 DEF Closed
  <2>3. Front(p) # path
    <3>1. p \in Paths /\ Len(p) \in Nat
      BY <1>1, <2>2 DEF Paths
    <3>2. IsPrefix(Front(p), p) /\ Len(Front(p)) = Len(p) - 1
      BY <3>1, FrontAt
    <3> QED
      BY <2>2, <3>1, <3>2 DEF Entries
  <2> QED
    BY <1>7, <2>2, <2>3
<1> QED
  BY <1>3, <1>4, <1>6, <1>7, <1>8

-----------------------------------------------------------------------------
(* What a tree shows the journal. *)

FilesIn(t, r) == [f \in {g \in Files : StagedPath(r, g) \in DOMAIN t} |-> t[StagedPath(r, f)].data]
PlanIn(t, r)  == IF PlanPath(r) \in DOMAIN t THEN t[PlanPath(r)].data ELSE NoPlan
ReadyIn(t, r) == ReadyPath(r) \in DOMAIN t
DirIn(t, r)   == [files |-> FilesIn(t, r), plan |-> PlanIn(t, r), ready |-> ReadyIn(t, r)]

Same(t, u, p) == (p \in DOMAIN u <=> p \in DOMAIN t) /\ (p \in DOMAIN t => u[p] = t[p])

(* Directories that differ in a part. *)
WithFiles(dir, files) == [dir EXCEPT !.files = files]
WithPlan(dir, plan)   == [dir EXCEPT !.plan = plan]
WithReady(dir, ready) == [dir EXCEPT !.ready = ready]

(* A directory that differs in its ready marker. *)
LEMMA OtherReady ==
  ASSUME NEW t, NEW v, NEW r, FilesIn(v, r) = FilesIn(t, r), PlanIn(v, r) = PlanIn(t, r)
  PROVE  DirIn(v, r) = WithReady(DirIn(t, r), ReadyIn(v, r))
<1>1. PICK f : f = FilesIn(t, r)
  OBVIOUS
<1>2. PICK p : p = PlanIn(t, r)
  OBVIOUS
<1>3. PICK o : o = ReadyIn(t, r)
  OBVIOUS
<1>4. PICK q : q = ReadyIn(v, r)
  OBVIOUS
<1>5. PICK x : x = DirIn(v, r)
  OBVIOUS
<1>6. PICK y : y = DirIn(t, r)
  OBVIOUS
<1>7. x = [files |-> f, plan |-> p, ready |-> q]
  BY <1>1, <1>2, <1>4, <1>5, Zenon DEF DirIn
<1>8. y = [files |-> f, plan |-> p, ready |-> o]
  BY <1>1, <1>2, <1>3, <1>6, Zenon DEF DirIn
<1>9. x = [y EXCEPT !.ready = q]
  BY <1>7, <1>8
<1>10. x = WithReady(y, q)
  BY <1>9 DEF WithReady
<1> QED
  BY <1>4, <1>5, <1>6, <1>10, Zenon

(* DirsIn, directory by directory. *)
LEMMA DirsAt ==
  ASSUME NEW t
  PROVE  /\ DirsIn(t) = [r \in {s \in RunIds : RunDir(s) \in DOMAIN t} |-> DirIn(t, r)]
         /\ DOMAIN DirsIn(t) = {s \in RunIds : RunDir(s) \in DOMAIN t}
         /\ \A r \in DOMAIN DirsIn(t) : DirsIn(t)[r] = DirIn(t, r)
BY DEF DirsIn, DirIn, FilesIn, PlanIn, ReadyIn

(* A tree shows typed files. *)
LEMMA ShownTypes ==
  ASSUME NEW t \in Trees
  PROVE  /\ LiveIn(t) \in Partial(Files, Contents)
         /\ \A r \in RunIds : /\ FilesIn(t, r) \in Partial(Files, Contents)
                              /\ PlanIn(t, r) \in Seq(Files) \cup {NoPlan}
                              /\ ReadyIn(t, r) \in BOOLEAN
<1>1. \A p \in DOMAIN t : t[p] \in Node /\ Fits(p, t[p])
  BY TreeType
<1>2. LiveIn(t) \in Partial(Files, Contents)
  <2>1. \A f \in Files : LivePath(f) \in DOMAIN t => t[LivePath(f)].data \in Contents
    BY <1>1 DEF Fits, LivePaths
  <2> QED
    BY <2>1, PartialIsFunction DEF LiveIn
<1>3. ASSUME NEW r \in RunIds
      PROVE  /\ FilesIn(t, r) \in Partial(Files, Contents)
             /\ PlanIn(t, r) \in Seq(Files) \cup {NoPlan}
             /\ ReadyIn(t, r) \in BOOLEAN
  <2>1. \A f \in Files : StagedPath(r, f) \in DOMAIN t => t[StagedPath(r, f)].data \in Contents
    <3>1. \A f \in Files : StagedPath(r, f) \in UNION {StagedPaths(s) : s \in RunIds}
      BY DEF StagedPaths
    <3> QED
      BY <1>1, <3>1 DEF Fits
  <2>2. FilesIn(t, r) \in Partial(Files, Contents)
    BY <2>1, PartialIsFunction DEF FilesIn
  <2>3. PlanIn(t, r) \in Seq(Files) \cup {NoPlan}
    BY <1>1 DEF Fits, PlanIn
  <2> QED
    BY <2>2, <2>3 DEF ReadyIn
<1> QED
  BY <1>2, <1>3

(* In a closed tree a run directory that does not exist holds nothing. *)
LEMMA NoDirNoFiles ==
  ASSUME NEW t \in Trees, Closed(t), NEW r \in RunIds, RunDir(r) \notin DOMAIN t
  PROVE  DirIn(t, r) = [files |-> << >>, plan |-> NoPlan, ready |-> FALSE]
<1>1. ASSUME NEW p \in RunFiles(r)
      PROVE  p \notin DOMAIN t
  <2>1. p \in Seq(Names) /\ IsPrefix(RunDir(r), p)
    <3>1. CheckpointFile \in Files
      BY JournalConstants DEF J!JournalAssumption
    <3> QED
      BY <1>1, <3>1, RunDirApart, StagedAt, MarkerAt DEF RunFiles, StagedPaths
  <2>2. Len(p) >= 3 /\ RunDir(r) = SubSeq(p, 1, 3)
    BY <2>1, RunDirCut
  <2> QED
    BY <2>2, ClosedAbove
<1>2. FilesIn(t, r) = << >>
  <2>1. {g \in Files : StagedPath(r, g) \in DOMAIN t} = {}
    BY <1>1 DEF RunFiles, StagedPaths
  <2> QED
    BY <2>1 DEF FilesIn
<1>3. PlanIn(t, r) = NoPlan
  <2>1. PlanPath(r) \notin DOMAIN t
    BY <1>1 DEF RunFiles
  <2> QED
    BY <2>1 DEF PlanIn
<1>4. ReadyIn(t, r) = FALSE
  <2>1. ReadyPath(r) \notin DOMAIN t
    BY <1>1 DEF RunFiles
  <2> QED
    BY <2>1 DEF ReadyIn
<1> QED
  BY <1>2, <1>3, <1>4, Zenon DEF DirIn

(* Trees that are the same at the live files show the same of them. *)
LEMMA SameLive ==
  ASSUME NEW t, NEW u, \A f \in Files : Same(t, u, LivePath(f))
  PROVE  LiveIn(u) = LiveIn(t)
<1>1. {g \in Files : LivePath(g) \in DOMAIN u} = {g \in Files : LivePath(g) \in DOMAIN t}
  BY DEF Same
<1> QED
  BY <1>1 DEF Same, LiveIn

(* So do trees that are the same in a run directory. *)
LEMMA SameFiles ==
  ASSUME NEW t, NEW u, NEW r, \A f \in Files : Same(t, u, StagedPath(r, f))
  PROVE  FilesIn(u, r) = FilesIn(t, r)
<1>1. {g \in Files : StagedPath(r, g) \in DOMAIN u} = {g \in Files : StagedPath(r, g) \in DOMAIN t}
  BY DEF Same
<1> QED
  BY <1>1 DEF Same, FilesIn

(* And all of the run directory. *)
LEMMA SameDir ==
  ASSUME NEW t, NEW u, NEW r, \A p \in RunFiles(r) : Same(t, u, p)
  PROVE  DirIn(u, r) = DirIn(t, r)
<1>1. FilesIn(u, r) = FilesIn(t, r)
  BY SameFiles DEF RunFiles, StagedPaths
<1> QED
  BY <1>1 DEF DirIn, PlanIn, ReadyIn, RunFiles, Same

(* The same but for one run directory, which is there. *)
LEMMA OneDirDiffers ==
  ASSUME NEW t, NEW u, NEW r \in RunIds, RunDir(r) \in DOMAIN u,
         \A s \in RunIds \ {r} : /\ RunDir(s) \in DOMAIN u <=> RunDir(s) \in DOMAIN t
                                 /\ \A p \in RunFiles(s) : Same(t, u, p)
  PROVE  DirsIn(u) = Put(DirsIn(t), r, DirIn(u, r))
<1>1. DOMAIN DirsIn(u) = DOMAIN DirsIn(t) \cup {r}
  BY DirsAt
<1>2. ASSUME NEW s \in DOMAIN DirsIn(t), s # r
      PROVE  DirsIn(u)[s] = DirsIn(t)[s]
  <2>1. s \in RunIds
    BY <1>2, DirsAt
  <2>2. DirIn(u, s) = DirIn(t, s)
    BY <1>2, <2>1, SameDir
  <2> QED
    BY <1>1, <1>2, <2>2, DirsAt
<1>3. DirsIn(u)[r] = DirIn(u, r)
  BY <1>1, DirsAt
<1>4. DirsIn(u) = [s \in DOMAIN DirsIn(t) \cup {r} |-> DirsIn(u)[s]]
  BY <1>1, DirsAt
<1>5. \A s \in DOMAIN DirsIn(t) \cup {r} :
        DirsIn(u)[s] = IF s = r THEN DirIn(u, r) ELSE DirsIn(t)[s]
  BY <1>2, <1>3
<1> QED
  BY <1>4, <1>5 DEF Put

(* The same. *)
LEMMA NoDirDiffers ==
  ASSUME NEW t, NEW u,
         \A s \in RunIds : /\ RunDir(s) \in DOMAIN u <=> RunDir(s) \in DOMAIN t
                           /\ \A p \in RunFiles(s) : Same(t, u, p)
  PROVE  DirsIn(u) = DirsIn(t)
<1>1. {s \in RunIds : RunDir(s) \in DOMAIN u} = {s \in RunIds : RunDir(s) \in DOMAIN t}
  OBVIOUS
<1>2. \A s \in RunIds : DirIn(u, s) = DirIn(t, s)
  BY SameDir
<1> QED
  BY <1>1, <1>2, DirsAt

(* A tree that has grown by directories shows the same files, and perhaps  *)
(* one run directory more that is empty.                                   *)
LEMMA GrownShows ==
  ASSUME NEW t \in Trees, Closed(t), NEW u, NEW R \in SUBSET RunIds, Grown(t, u, DirsOf(R))
  PROVE  /\ LiveIn(u) = LiveIn(t)
         /\ \A s \in RunIds : DirIn(u, s) = DirIn(t, s)
         /\ \A s \in RunIds : RunDir(s) \in DOMAIN t => RunDir(s) \in DOMAIN u
         /\ \A s \in RunIds \ R : RunDir(s) \in DOMAIN u => RunDir(s) \in DOMAIN t
         /\ R = {} => DirsIn(u) = DirsIn(t)
         /\ \A r \in RunIds : R = {r} /\ RunDir(r) \in DOMAIN u =>
                                DirsIn(u) = Put(DirsIn(t), r, DirIn(t, r))
         /\ \A r \in RunIds : R = {r} /\ RunDir(r) \notin DOMAIN u => DirsIn(u) = DirsIn(t)
<1>1. \A p \in FilePaths : Same(t, u, p)
  BY DEF Grown, DirsOf, Same
<1>2. LiveIn(u) = LiveIn(t)
  BY <1>1, SameLive DEF FilePaths, LivePaths
<1>3. ASSUME NEW s \in RunIds
      PROVE  /\ \A p \in RunFiles(s) : Same(t, u, p)
             /\ DirIn(u, s) = DirIn(t, s)
             /\ RunDir(s) \in DOMAIN t => RunDir(s) \in DOMAIN u
             /\ s \notin R => (RunDir(s) \in DOMAIN u => RunDir(s) \in DOMAIN t)
  <2>1. \A p \in RunFiles(s) : Same(t, u, p)
    BY <1>1 DEF FilePaths
  <2>2. DirIn(u, s) = DirIn(t, s)
    BY <2>1, SameDir
  <2> QED
    BY <2>1, <2>2 DEF Grown, DirsOf
<1>4. R = {} => DirsIn(u) = DirsIn(t)
  BY <1>3, NoDirDiffers
<1>5. ASSUME NEW r \in RunIds, R = {r}, RunDir(r) \in DOMAIN u
      PROVE  DirsIn(u) = Put(DirsIn(t), r, DirIn(t, r))
  <2>1. DirsIn(u) = Put(DirsIn(t), r, DirIn(u, r))
    BY <1>3, <1>5, OneDirDiffers
  <2> QED
    BY <1>3, <2>1
<1>6. ASSUME NEW r \in RunIds, R = {r}, RunDir(r) \notin DOMAIN u
      PROVE  DirsIn(u) = DirsIn(t)
  BY <1>3, <1>6, NoDirDiffers
<1> QED
  BY <1>2, <1>3, <1>4, <1>5, <1>6

(* The files of a run directory are the ones below it. *)
LEMMA InRun ==
  ASSUME NEW r \in RunIds, NEW s \in RunIds, NEW p \in RunFiles(s)
  PROVE  /\ IsPrefix(RunDir(r), p) <=> r = s
         /\ p \in RunFiles(r) => r = s
         /\ p \in FilePaths /\ p \notin LivePaths
<1>1. CheckpointFile \in Files
  BY JournalConstants DEF J!JournalAssumption
<1>2. ASSUME NEW x \in RunIds, NEW y \in RunIds, NEW q \in RunFiles(y)
      PROVE  IsPrefix(RunDir(x), q) <=> x = y
  BY <1>1, <1>2, RunDirApart DEF RunFiles, StagedPaths
<1>3. p \in RunFiles(r) => r = s
  BY <1>2
<1>4. p \notin LivePaths
  BY <1>1, PathsDiffer DEF LivePaths, RunFiles, StagedPaths
<1> QED
  BY <1>2, <1>3, <1>4 DEF FilePaths

(* Writing a file in a run directory is seen there and nowhere else. *)
LEMMA WroteInRun ==
  ASSUME NEW t \in Trees, Closed(t), NEW v, NEW r \in RunIds, NEW q \in RunFiles(r), NEW node,
         Wrote(t, v, q, node, {})
  PROVE  /\ LiveIn(v) = LiveIn(t)
         /\ DirsIn(v) = Put(DirsIn(t), r, DirIn(v, r))
         /\ \A p \in RunFiles(r) \ {q} : Same(t, v, p)
<1>1. \A p \in FilePaths \ {q} : Same(t, v, p)
  BY DEF Wrote, Same
<1>2. LiveIn(v) = LiveIn(t)
  <2>1. \A f \in Files : LivePath(f) \in FilePaths \ {q}
    BY InRun DEF FilePaths, LivePaths
  <2> QED
    BY <1>1, <2>1, SameLive
<1>3. RunDir(r) \in DOMAIN v
  BY InRun DEF Wrote
<1>4. ASSUME NEW s \in RunIds \ {r}
      PROVE  /\ RunDir(s) \in DOMAIN v <=> RunDir(s) \in DOMAIN t
             /\ \A p \in RunFiles(s) : Same(t, v, p)
  <2>1. ~IsPrefix(RunDir(s), q)
    BY InRun
  <2>2. \A p \in RunFiles(s) : p \in FilePaths \ {q}
    BY InRun
  <2> QED
    BY <1>1, <2>1, <2>2 DEF Wrote
<1>5. DirsIn(v) = Put(DirsIn(t), r, DirIn(v, r))
  BY <1>3, <1>4, OneDirDiffers
<1>6. \A p \in RunFiles(r) \ {q} : Same(t, v, p)
  BY <1>1, InRun
<1> QED
  BY <1>2, <1>5, <1>6

(* What writing an output file, a plan or the marker makes of a directory. *)
LEMMA WroteShows ==
  ASSUME NEW t \in Trees, Closed(t), NEW v, NEW r \in RunIds, NEW node
  PROVE  /\ \A f \in Files : Wrote(t, v, StagedPath(r, f), node, {}) =>
              /\ LiveIn(v) = LiveIn(t)
              /\ DirsIn(v) = Put(DirsIn(t), r, WithFiles(DirIn(t, r), Put(DirIn(t, r).files, f, node.data)))
         /\ Wrote(t, v, PlanPath(r), node, {}) =>
              /\ LiveIn(v) = LiveIn(t)
              /\ DirsIn(v) = Put(DirsIn(t), r, WithPlan(DirIn(t, r), node.data))
         /\ Wrote(t, v, ReadyPath(r), node, {}) =>
              /\ LiveIn(v) = LiveIn(t)
              /\ DirsIn(v) = Put(DirsIn(t), r, WithReady(DirIn(t, r), TRUE))
<1>1. ASSUME NEW f \in Files, Wrote(t, v, StagedPath(r, f), node, {})
      PROVE  /\ LiveIn(v) = LiveIn(t)
             /\ DirsIn(v) = Put(DirsIn(t), r, WithFiles(DirIn(t, r), Put(DirIn(t, r).files, f, node.data)))
  <2>1. StagedPath(r, f) \in RunFiles(r)
    BY DEF RunFiles, StagedPaths
  <2>2. /\ LiveIn(v) = LiveIn(t)
        /\ DirsIn(v) = Put(DirsIn(t), r, DirIn(v, r))
        /\ \A p \in RunFiles(r) \ {StagedPath(r, f)} : Same(t, v, p)
    BY <1>1, <2>1, WroteInRun
  <2>3. FilesIn(v, r) = Put(FilesIn(t, r), f, node.data)
    <3>1. ASSUME NEW g \in Files, g # f
          PROVE  Same(t, v, StagedPath(r, g))
      BY <2>2, <3>1, PathsDiffer DEF RunFiles, StagedPaths
    <3>2. StagedPath(r, f) \in DOMAIN v /\ v[StagedPath(r, f)] = node
      BY <1>1 DEF Wrote
    <3>3. {g \in Files : StagedPath(r, g) \in DOMAIN v} = {g \in Files : StagedPath(r, g) \in DOMAIN t} \cup {f}
      BY <3>1, <3>2 DEF Same
    <3>4. \A g \in {h \in Files : StagedPath(r, h) \in DOMAIN t} \cup {f} :
            v[StagedPath(r, g)].data = IF g = f THEN node.data ELSE t[StagedPath(r, g)].data
      BY <3>1, <3>2 DEF Same
    <3> QED
      BY <3>3, <3>4 DEF FilesIn, Put
  <2>4. PlanIn(v, r) = PlanIn(t, r) /\ ReadyIn(v, r) = ReadyIn(t, r)
    BY <2>2, PathsDiffer DEF RunFiles, PlanIn, ReadyIn, Same
  <2>5. DirIn(v, r) = WithFiles(DirIn(t, r), Put(DirIn(t, r).files, f, node.data))
    BY <2>3, <2>4 DEF DirIn, WithFiles
  <2> QED
    BY <2>2, <2>5
<1> DEFINE q == PlanPath(r)
           m == ReadyPath(r)
<1>2. /\ q \in RunFiles(r) /\ m \in RunFiles(r) /\ q # m
      /\ \A f \in Files : StagedPath(r, f) \in RunFiles(r) /\ StagedPath(r, f) \notin {q, m}
  <2>1. CheckpointFile \in Files
    BY JournalConstants DEF J!JournalAssumption
  <2> QED
    BY <2>1, PathsDiffer DEF RunFiles, StagedPaths
<1>3. ASSUME Wrote(t, v, q, node, {})
      PROVE  /\ LiveIn(v) = LiveIn(t)
             /\ DirsIn(v) = Put(DirsIn(t), r, WithPlan(DirIn(t, r), node.data))
  <2>1. /\ LiveIn(v) = LiveIn(t)
        /\ DirsIn(v) = Put(DirsIn(t), r, DirIn(v, r))
        /\ \A p \in RunFiles(r) \ {q} : Same(t, v, p)
    BY <1>2, <1>3, WroteInRun
  <2>2. FilesIn(v, r) = FilesIn(t, r)
    BY <1>2, <2>1, SameFiles
  <2>3. PlanIn(v, r) = node.data
    BY <1>3 DEF Wrote, PlanIn
  <2>4. ReadyIn(v, r) = ReadyIn(t, r)
    BY <1>2, <2>1 DEF ReadyIn, Same
  <2>5. DirIn(v, r) = WithPlan(DirIn(t, r), node.data)
    BY <2>2, <2>3, <2>4 DEF DirIn, WithPlan
  <2> QED
    BY <2>1, <2>5
<1>4. ASSUME Wrote(t, v, m, node, {})
      PROVE  /\ LiveIn(v) = LiveIn(t)
             /\ DirsIn(v) = Put(DirsIn(t), r, WithReady(DirIn(t, r), TRUE))
  <2>1. /\ LiveIn(v) = LiveIn(t)
        /\ DirsIn(v) = Put(DirsIn(t), r, DirIn(v, r))
        /\ \A p \in RunFiles(r) \ {m} : Same(t, v, p)
    BY <1>2, <1>4, WroteInRun
  <2>2. FilesIn(v, r) = FilesIn(t, r)
    BY <1>2, <2>1, SameFiles
  <2>3. ReadyIn(v, r) = TRUE
    BY <1>4 DEF Wrote, ReadyIn
  <2>4. PlanIn(v, r) = PlanIn(t, r)
    BY <1>2, <2>1 DEF PlanIn, Same
  <2>5. DirIn(v, r) = WithReady(DirIn(t, r), TRUE)
    <3>1. DirIn(v, r) = WithReady(DirIn(t, r), ReadyIn(v, r))
      BY <2>2, <2>4, OtherReady
    <3> QED
      BY <2>3, <3>1, Zenon
  <2> QED
    BY <2>1, <2>5
<1> QED
  BY <1>1, <1>3, <1>4

(* A file that leaves a run directory. *)
LEMMA FileLeaves ==
  ASSUME NEW t, NEW v, NEW r \in RunIds, NEW f \in Files, StagedPath(r, f) \notin DOMAIN v,
         \A p \in RunFiles(r) \ {StagedPath(r, f)} : Same(t, v, p)
  PROVE  DirIn(v, r) = WithFiles(DirIn(t, r), Drop(DirIn(t, r).files, f))
<1>1. ASSUME NEW g \in Files, g # f
      PROVE  Same(t, v, StagedPath(r, g))
  BY <1>1, PathsDiffer DEF RunFiles, StagedPaths
<1>2. FilesIn(v, r) = Drop(FilesIn(t, r), f)
  <2>1. {g \in Files : StagedPath(r, g) \in DOMAIN v} = {g \in Files : StagedPath(r, g) \in DOMAIN t} \ {f}
    BY <1>1 DEF Same
  <2>2. \A g \in {h \in Files : StagedPath(r, h) \in DOMAIN t} \ {f} :
          v[StagedPath(r, g)].data = t[StagedPath(r, g)].data
    BY <1>1 DEF Same
  <2> QED
    BY <2>1, <2>2 DEF FilesIn, Drop, Restrict
<1>3. PlanIn(v, r) = PlanIn(t, r) /\ ReadyIn(v, r) = ReadyIn(t, r)
  BY PathsDiffer DEF RunFiles, PlanIn, ReadyIn, Same
<1> QED
  BY <1>2, <1>3 DEF DirIn, WithFiles

(* What a rename makes of the live files and of the run directory. *)
LEMMA MovedShows ==
  ASSUME NEW t \in Trees, Closed(t), NEW v, NEW r \in RunIds, NEW f \in Files, NEW node,
         StagedPath(r, f) \in DOMAIN t, Wrote(t, v, LivePath(f), node, {StagedPath(r, f)})
  PROVE  /\ LiveIn(v) = Put(LiveIn(t), f, node.data)
         /\ DirsIn(v) = Put(DirsIn(t), r, WithFiles(DirIn(t, r), Drop(DirIn(t, r).files, f)))
<1> DEFINE q == LivePath(f)
           o == StagedPath(r, f)
<1>1. \A p \in FilePaths \ {q, o} : Same(t, v, p)
  BY DEF Wrote, Same
<1>2. o \in RunFiles(r) /\ q \in LivePaths /\ q \in DOMAIN v /\ v[q] = node /\ o \notin DOMAIN v
  BY DEF Wrote, RunFiles, StagedPaths, LivePaths
<1>3. LiveIn(v) = Put(LiveIn(t), f, node.data)
  <2>1. ASSUME NEW g \in Files, g # f
        PROVE  Same(t, v, LivePath(g))
    <3>1. LivePath(g) \in FilePaths /\ LivePath(g) # q /\ LivePath(g) # o
      BY <2>1, PathsDiffer DEF FilePaths, LivePaths
    <3> QED
      BY <1>1, <3>1
  <2>2. {g \in Files : LivePath(g) \in DOMAIN v} = {g \in Files : LivePath(g) \in DOMAIN t} \cup {f}
    BY <1>2, <2>1 DEF Same
  <2>3. \A g \in {h \in Files : LivePath(h) \in DOMAIN t} \cup {f} :
          v[LivePath(g)].data = IF g = f THEN node.data ELSE t[LivePath(g)].data
    BY <1>2, <2>1 DEF Same
  <2> QED
    BY <2>2, <2>3 DEF LiveIn, Put
<1>4. \A s \in RunIds : RunDir(s) \in DOMAIN v <=> RunDir(s) \in DOMAIN t
  BY RunDirApart DEF Wrote
<1>5. RunDir(r) \in DOMAIN t
  <2>1. o \in Seq(Names) /\ IsPrefix(RunDir(r), o)
    BY StagedAt, RunDirApart
  <2>2. Len(o) >= 3 /\ RunDir(r) = SubSeq(o, 1, 3)
    BY <2>1, RunDirCut
  <2> QED
    BY <2>2, ClosedAbove
<1>6. ASSUME NEW s \in RunIds, NEW p \in RunFiles(s), p # o
      PROVE  Same(t, v, p)
  BY <1>1, <1>2, <1>6, InRun
<1>7. \A s \in RunIds \ {r} : \A p \in RunFiles(s) : Same(t, v, p)
  BY <1>2, <1>6, InRun
<1>8. DirsIn(v) = Put(DirsIn(t), r, DirIn(v, r))
  BY <1>4, <1>5, <1>7, OneDirDiffers
<1>9. DirIn(v, r) = WithFiles(DirIn(t, r), Drop(DirIn(t, r).files, f))
  BY <1>2, <1>6, FileLeaves
<1> QED
  BY <1>3, <1>8, <1>9

(* v is t without an entry. *)
Removed(t, v, path) ==
  path \in DOMAIN t /\ path \notin DOMAIN v /\ \A p : p # path => Same(t, v, p)

(* What an entry that goes makes of them. *)
LEMMA GoneShows ==
  ASSUME NEW t \in Trees, Closed(t), NEW v, NEW path, Removed(t, v, path), NEW r \in RunIds
  PROVE  /\ \A f \in Files : path = StagedPath(r, f) =>
              /\ LiveIn(v) = LiveIn(t)
              /\ DirsIn(v) = Put(DirsIn(t), r, WithFiles(DirIn(t, r), Drop(DirIn(t, r).files, f)))
         /\ path = PlanPath(r) =>
              /\ LiveIn(v) = LiveIn(t)
              /\ DirsIn(v) = Put(DirsIn(t), r, WithPlan(DirIn(t, r), NoPlan))
         /\ path = ReadyPath(r) =>
              /\ LiveIn(v) = LiveIn(t)
              /\ DirsIn(v) = Put(DirsIn(t), r, WithReady(DirIn(t, r), FALSE))
         /\ path = RunDir(r) => LiveIn(v) = LiveIn(t) /\ DirsIn(v) = Drop(DirsIn(t), r)
         /\ path \notin FilePaths \cup RunRoots => LiveIn(v) = LiveIn(t) /\ DirsIn(v) = DirsIn(t)
<1> USE DEF Removed
<1>1. ASSUME path \notin LivePaths
      PROVE  LiveIn(v) = LiveIn(t)
  BY <1>1, SameLive DEF LivePaths
<1>2. ASSUME path \in RunFiles(r)
      PROVE  /\ LiveIn(v) = LiveIn(t)
             /\ DirsIn(v) = Put(DirsIn(t), r, DirIn(v, r))
  <2>1. path \notin LivePaths /\ path \in FilePaths
    BY <1>2, InRun
  <2>2. \A s \in RunIds : RunDir(s) \in DOMAIN v <=> RunDir(s) \in DOMAIN t
    BY <2>1, RunDirKnown DEF Same
  <2>3. RunDir(r) \in DOMAIN t
    <3>1. path \in Seq(Names) /\ IsPrefix(RunDir(r), path)
      BY <1>2, <2>1, InRun, FilePathsType DEF Known, Paths
    <3>2. Len(path) >= 3 /\ RunDir(r) = SubSeq(path, 1, 3)
      BY <3>1, RunDirCut
    <3> QED
      BY <3>2, ClosedAbove
  <2>4. \A s \in RunIds \ {r} : \A p \in RunFiles(s) : Same(t, v, p)
    BY <1>2, InRun
  <2> QED
    BY <1>1, <2>1, <2>2, <2>3, <2>4, OneDirDiffers
<1>3. ASSUME NEW f \in Files, path = StagedPath(r, f)
      PROVE  /\ LiveIn(v) = LiveIn(t)
             /\ DirsIn(v) = Put(DirsIn(t), r, WithFiles(DirIn(t, r), Drop(DirIn(t, r).files, f)))
  <2>1. path \in RunFiles(r)
    BY <1>3 DEF RunFiles, StagedPaths
  <2>2. DirIn(v, r) = WithFiles(DirIn(t, r), Drop(DirIn(t, r).files, f))
    BY <1>3, FileLeaves
  <2> QED
    BY <1>2, <2>1, <2>2
<1>4. CheckpointFile \in Files
  BY JournalConstants DEF J!JournalAssumption
<1>5. ASSUME path = PlanPath(r)
      PROVE  /\ LiveIn(v) = LiveIn(t)
             /\ DirsIn(v) = Put(DirsIn(t), r, WithPlan(DirIn(t, r), NoPlan))
  <2>1. path \in RunFiles(r) /\ path # ReadyPath(r) /\ \A f \in Files : path # StagedPath(r, f)
    BY <1>4, <1>5, PathsDiffer DEF RunFiles
  <2>2. FilesIn(v, r) = FilesIn(t, r) /\ ReadyIn(v, r) = ReadyIn(t, r) /\ PlanIn(v, r) = NoPlan
    BY <1>5, <2>1, SameFiles DEF ReadyIn, PlanIn, Same
  <2>3. DirIn(v, r) = WithPlan(DirIn(t, r), NoPlan)
    BY <2>2 DEF DirIn, WithPlan
  <2> QED
    BY <1>2, <2>1, <2>3
<1>6. ASSUME path = ReadyPath(r)
      PROVE  /\ LiveIn(v) = LiveIn(t)
             /\ DirsIn(v) = Put(DirsIn(t), r, WithReady(DirIn(t, r), FALSE))
  <2>1. path \in RunFiles(r) /\ path # PlanPath(r) /\ \A f \in Files : path # StagedPath(r, f)
    BY <1>4, <1>6, PathsDiffer DEF RunFiles
  <2>2. FilesIn(v, r) = FilesIn(t, r) /\ ReadyIn(v, r) = FALSE /\ PlanIn(v, r) = PlanIn(t, r)
    BY <1>6, <2>1, SameFiles DEF ReadyIn, PlanIn, Same
  <2>3. DirIn(v, r) = WithReady(DirIn(t, r), FALSE)
    <3>1. DirIn(v, r) = WithReady(DirIn(t, r), ReadyIn(v, r))
      BY <2>2, OtherReady
    <3> QED
      BY <2>2, <3>1, Zenon
  <2> QED
    BY <1>2, <2>1, <2>3
<1>7. ASSUME path = RunDir(r)
      PROVE  LiveIn(v) = LiveIn(t) /\ DirsIn(v) = Drop(DirsIn(t), r)
  <2>1. path \notin FilePaths
    BY <1>7, RunDirKnown
  <2>2. LiveIn(v) = LiveIn(t)
    BY <1>1, <2>1 DEF FilePaths
  <2>3. \A s \in RunIds : RunDir(s) = RunDir(r) => s = r
    BY RunDirAt
  <2>4. {s \in RunIds : RunDir(s) \in DOMAIN v} = {s \in RunIds : RunDir(s) \in DOMAIN t} \ {r}
    BY <1>7, <2>3 DEF Same
  <2>5. \A s \in RunIds : DirIn(v, s) = DirIn(t, s)
    BY <2>1, SameDir DEF FilePaths
  <2>6. DirsIn(v) = [s \in DOMAIN DirsIn(t) \ {r} |-> DirsIn(t)[s]]
    <3>1. PICK A : A = {s \in RunIds : RunDir(s) \in DOMAIN t}
      OBVIOUS
    <3>2. DirsIn(v) = [s \in A \ {r} |-> DirIn(v, s)]
      BY <2>4, <3>1, DirsAt
    <3>3. DOMAIN DirsIn(t) = A /\ \A s \in A : DirsIn(t)[s] = DirIn(t, s)
      BY <3>1, DirsAt
    <3>4. \A s \in A \ {r} : DirIn(v, s) = DirsIn(t)[s]
      BY <2>5, <3>1, <3>3
    <3> QED
      BY <3>2, <3>3, <3>4
  <2> QED
    BY <2>2, <2>6 DEF Drop, Restrict
<1>8. ASSUME path \notin FilePaths \cup RunRoots
      PROVE  LiveIn(v) = LiveIn(t) /\ DirsIn(v) = DirsIn(t)
  <2>1. \A s \in RunIds : /\ RunDir(s) \in DOMAIN v <=> RunDir(s) \in DOMAIN t
                          /\ \A p \in RunFiles(s) : Same(t, v, p)
    BY <1>8 DEF RunRoots, FilePaths, Same
  <2> QED
    BY <1>1, <1>8, <2>1, NoDirDiffers DEF FilePaths
<1> QED
  BY <1>3, <1>5, <1>6, <1>7, <1>8

-----------------------------------------------------------------------------
(* J and JP are two names of the same module. *)

(* What CommitJournal assumes of its constants holds of DurableJournal.    *)
LEMMA JournalAssumed == JP!JournalAssumption
BY JournalConstants DEF J!JournalAssumption, JP!JournalAssumption, J!Actors, JP!Actors

(* Its predicates on states say the same under both names.                 *)
LEMMA SameState ==
  /\ J!TypeOK <=> JP!TypeOK
  /\ J!JournalInv <=> JP!JournalInv
  /\ J!SingleInstance <=> JP!SingleInstance
<1>1. J!TypeOK <=> JP!TypeOK
  BY DEF J!TypeOK, JP!TypeOK, J!Partial, JP!Partial, J!RunDirs, JP!RunDirs, J!Labels, JP!Labels,
         J!Actors, JP!Actors
<1>2. J!LockInv <=> JP!LockInv
  BY DEF J!LockInv, JP!LockInv, J!Active, JP!Active
<1>3. ASSUME NEW a PROVE J!ActorInv(a) <=> JP!ActorInv(a)
  BY DEF J!ActorInv, JP!ActorInv, J!StageInv, JP!StageInv, J!ExecuteInv, JP!ExecuteInv,
         J!Staged, JP!Staged, J!CheckpointAtEnd, JP!CheckpointAtEnd, J!IsReady, JP!IsReady,
         J!HasPlan, JP!HasPlan, J!Range, JP!Range
<1>4. J!DirsInv <=> JP!DirsInv
  BY DEF J!DirsInv, JP!DirsInv, J!ReadyIsReplayable, JP!ReadyIsReplayable, J!Staged, JP!Staged,
         J!CheckpointAtEnd, JP!CheckpointAtEnd, J!Range, JP!Range
<1>5. J!JournalInv <=> JP!JournalInv
  BY <1>2, <1>3, <1>4 DEF J!JournalInv, JP!JournalInv, J!Actors, JP!Actors
<1> QED
  BY <1>1, <1>5 DEF J!SingleInstance, JP!SingleInstance

(* And of the next state.                                                  *)
LEMMA SameStateNext ==
  /\ J!TypeOK' <=> JP!TypeOK'
  /\ J!JournalInv' <=> JP!JournalInv'
BY SameState, PTL

(* The journal's operators are the same under both names. *)
LEMMA SameOperators ==
  /\ \A r, d : J!SetDir(r, d) <=> JP!SetDir(r, d)
  /\ \A r : J!DirOf(r) = JP!DirOf(r)
  /\ \A f, x, y : J!Put(f, x, y) = JP!Put(f, x, y)
  /\ \A f, x : J!Drop(f, x) = JP!Drop(f, x)
  /\ \A s : J!Range(s) = JP!Range(s)
  /\ \A r, f : J!IsStaged(r, f) <=> JP!IsStaged(r, f)
  /\ \A r : J!IsReady(r) <=> JP!IsReady(r)
  /\ \A r : J!HasPlan(r) <=> JP!HasPlan(r)
  /\ \A a : J!Removing(a) <=> JP!Removing(a)
BY DEF J!SetDir, JP!SetDir, J!DirOf, JP!DirOf, J!NewDir, JP!NewDir, J!Put, JP!Put, J!Drop, JP!Drop,
       J!Restrict, JP!Restrict, J!Range, JP!Range, J!IsStaged, JP!IsStaged, J!IsReady, JP!IsReady,
       J!HasPlan, JP!HasPlan, J!Removing, JP!Removing

(* A step of J is a step of JP. *)
LEMMA SameSteps == [J!Next]_(J!vars) => [JP!Next]_(JP!vars)
<1> USE DEF J!disk, JP!disk, J!memory, JP!memory, J!Goto, JP!Goto
<1>1. ASSUME NEW p PROVE J!Boot(p) => JP!Boot(p)
  BY DEF J!Boot, JP!Boot
<1>2. ASSUME NEW t PROVE J!Acquire(t) => JP!Acquire(t)
  BY DEF J!Acquire, JP!Acquire
<1>3. ASSUME NEW a, NEW status PROVE J!Leave(a, status) <=> JP!Leave(a, status)
  BY DEF J!Leave, JP!Leave
<1>4. ASSUME NEW a PROVE J!Sweep(a) => JP!Sweep(a)
  <2>1. J!Scan(a) => JP!Scan(a)
    BY DEF J!Scan, JP!Scan
  <2>2. \A r : J!ResumeReady(a, r) => JP!ResumeReady(a, r)
    BY DEF J!ResumeReady, JP!ResumeReady, J!IsReady, JP!IsReady, J!HasPlan, JP!HasPlan
  <2>3. \A r : J!ResumeDiscard(a, r) => JP!ResumeDiscard(a, r)
    BY DEF J!ResumeDiscard, JP!ResumeDiscard, J!IsReady, JP!IsReady
  <2>4. J!ResumeDone(a) => JP!ResumeDone(a)
    BY <1>3 DEF J!ResumeDone, JP!ResumeDone
  <2> QED
    BY <2>1, <2>2, <2>3, <2>4 DEF J!Sweep, JP!Sweep
<1>6. ASSUME NEW a PROVE J!Stage(a) => JP!Stage(a)
  <2>1. J!ReturnDry(a) => JP!ReturnDry(a)
    BY <1>3 DEF J!ReturnDry, JP!ReturnDry
  <2>2. \A r : J!BeginRun(a, r) => JP!BeginRun(a, r)
    BY SameOperators DEF J!BeginRun, JP!BeginRun
  <2>3. \A f, c : J!StageFile(a, f, c) => JP!StageFile(a, f, c)
    BY SameOperators DEF J!StageFile, JP!StageFile
  <2> QED
    BY <2>1, <2>2, <2>3 DEF J!Stage, JP!Stage
<1>7. ASSUME NEW a PROVE J!Execute(a) => JP!Execute(a)
  <2>1. J!WritePlan(a) => JP!WritePlan(a)
    BY SameOperators DEF J!WritePlan, JP!WritePlan
  <2>2. J!MarkReady(a) => JP!MarkReady(a)
    BY SameOperators DEF J!MarkReady, JP!MarkReady
  <2>3. J!Commit(a) => JP!Commit(a)
    BY SameOperators DEF J!Commit, JP!Commit
  <2>4. J!CheckStaged(a) => JP!CheckStaged(a)
    BY SameOperators DEF J!CheckStaged, JP!CheckStaged
  <2>5. J!SkipStep(a) => JP!SkipStep(a)
    BY SameOperators DEF J!SkipStep, JP!SkipStep
  <2>6. J!Replace(a) => JP!Replace(a)
    BY SameOperators DEF J!Replace, JP!Replace
  <2>7. J!ExecuteDone(a) => JP!ExecuteDone(a)
    BY DEF J!ExecuteDone, JP!ExecuteDone
  <2> QED
    BY <2>1, <2>2, <2>3, <2>4, <2>5, <2>6, <2>7 DEF J!Execute, JP!Execute
<1>8. ASSUME NEW a PROVE J!Remove(a) => JP!Remove(a)
  <2>1. J!Removed(a) <=> JP!Removed(a)
    BY <1>3 DEF J!Removed, JP!Removed
  <2>2. \A f : J!RemoveStaged(a, f) => JP!RemoveStaged(a, f)
    BY SameOperators DEF J!RemoveStaged, JP!RemoveStaged
  <2>3. J!RemovePlan(a) => JP!RemovePlan(a)
    BY SameOperators DEF J!RemovePlan, JP!RemovePlan
  <2>4. J!RemoveReady(a) => JP!RemoveReady(a)
    BY SameOperators DEF J!RemoveReady, JP!RemoveReady
  <2>5. J!RemoveDir(a) => JP!RemoveDir(a)
    BY SameOperators, <2>1 DEF J!RemoveDir, JP!RemoveDir, J!NewDir, JP!NewDir
  <2>6. J!CleanupMissing(a) => JP!CleanupMissing(a)
    BY <2>1 DEF J!CleanupMissing, JP!CleanupMissing
  <2> QED
    BY SameOperators, <2>2, <2>3, <2>4, <2>5, <2>6 DEF J!Remove, JP!Remove
<1>9. ASSUME NEW a PROVE (J!Raise(a) => JP!Raise(a)) /\ (J!OSError(a) => JP!OSError(a))
  <2>1. J!Stuck(a) <=> JP!Stuck(a)
    BY SameOperators DEF J!Stuck, JP!Stuck
  <2> QED
    BY <1>3, <2>1 DEF J!Raise, JP!Raise, J!OSError, JP!OSError
<1>10. ASSUME NEW p PROVE J!Crash(p) => JP!Crash(p)
  BY DEF J!Crash, JP!Crash, J!Killed, JP!Killed, J!Actors, JP!Actors
<1>11. J!Next => JP!Next
  BY <1>1, <1>2, <1>4, <1>6, <1>7, <1>8, <1>9, <1>10
     DEF J!Next, JP!Next, J!Work, JP!Work, J!Fault, JP!Fault, J!Actors, JP!Actors
<1> QED
  BY <1>11 DEF J!vars, JP!vars

(* The journal's own steps keep its invariant. *)
LEMMA JournalStep ==
  ASSUME J!SingleInstance, J!TypeOK, J!JournalInv, [J!Next]_(J!vars)
  PROVE  J!TypeOK' /\ J!JournalInv'
<1>1. JP!TypeOK /\ JP!JournalInv /\ JP!SingleInstance /\ [JP!Next]_(JP!vars)
  BY SameState, SameSteps
<1>2. JP!TypeOK' /\ JP!JournalInv'
  BY <1>1, JournalAssumed, JP!TypeStep, JP!InvStep
<1> QED
  BY <1>2, SameStateNext

(* What a directory that a write would make anew holds. *)
LEMMA DirOfIn ==
  ASSUME tree \in Trees, Closed(tree), dirs = DirsIn(tree), NEW r \in RunIds
  PROVE  /\ J!DirOf(r) = DirIn(tree, r)
         /\ r \in DOMAIN dirs <=> RunDir(r) \in DOMAIN tree
         /\ r \in DOMAIN dirs => dirs[r] = DirIn(tree, r)
<1>1. r \in DOMAIN dirs <=> RunDir(r) \in DOMAIN tree
  BY DirsAt
<1>2. r \in DOMAIN dirs => dirs[r] = DirIn(tree, r)
  BY DirsAt
<1>3. RunDir(r) \notin DOMAIN tree => DirIn(tree, r) = [files |-> << >>, plan |-> NoPlan, ready |-> FALSE]
  BY NoDirNoFiles
<1> QED
  BY <1>1, <1>2, <1>3 DEF J!DirOf, J!NewDir

(* The operators of PartialFunctions are the same here and in J. *)
LEMMA SamePartial ==
  /\ \A f, x, y : J!Put(f, x, y) = Put(f, x, y)
  /\ \A f, x : J!Drop(f, x) = Drop(f, x)
  /\ \A S, T : J!Partial(S, T) = Partial(S, T)
BY DEF J!Put, Put, J!Drop, Drop, J!Restrict, Restrict, J!Partial, Partial

-----------------------------------------------------------------------------
(* The types, and the steps that change the tree. *)

TreeInv == TypeOK /\ disk \in Trees /\ log \in Seq(Changes)

(* The tree of the processes is a tree, and closed. *)
LEMMA TreeTyped ==
  ASSUME TreeInv
  PROVE  tree \in Trees /\ Closed(tree) /\ IsFunction(tree)
<1>1. PICK t : t = tree
  OBVIOUS
<1>2. t \in Trees
  BY <1>1, AppliedType DEF TreeInv, TypeOK
<1>3. Closed(t)
  BY <1>1, <1>2, VisibleClosed DEF TreeInv, TypeOK
<1> QED
  BY <1>1, <1>2, <1>3, TreeType

(* The changes of a step that works on a run directory: they first make    *)
(* directories, and in the end the tree shows what the journal thinks.     *)
Batch(changes, r) ==
  /\ changes \in Seq(Changes)
  /\ \A n \in Nat : n < Len(changes) => Grown(tree, Applied(tree, First(changes, n)), DirsOf({r}))
  /\ Closed(Applied(tree, changes))
  /\ live' = LiveIn(Applied(tree, changes))
  /\ dirs' = DirsIn(Applied(tree, changes))

(* Directories above a file of a run are that run's.                       *)
LEMMA UpToRun ==
  ASSUME NEW r \in RunIds, NEW q \in RunFiles(r) \cup LivePaths
  PROVE  UpTo(Front(q)) \subseteq DirsOf({r}) /\ q \in FilePaths
<1>1. q \in FilePaths /\ \A s \in RunIds : IsPrefix(RunDir(s), q) => s \in {r}
  BY InRun, RunDirApart DEF FilePaths, LivePaths
<1>2. UpTo(Front(q)) \subseteq DirsOf({s \in RunIds : IsPrefix(RunDir(s), q)})
  BY <1>1, DirsAbove, Zenon
<1>3. DirsOf({s \in RunIds : IsPrefix(RunDir(s), q)}) \subseteq DirsOf({r})
  BY <1>1 DEF DirsOf
<1> QED
  BY <1>1, <1>2, <1>3, Zenon

(* Writing a file of a run directory. *)
LEMMA WriteBatch ==
  ASSUME TreeInv, NEW r \in RunIds, NEW q \in RunFiles(r), NEW c, File(c) \in Node, Fits(q, File(c)),
         NEW changes, changes = write_bytes_atomic(q, c)
  PROVE  /\ changes \in Seq(Changes)
         /\ \A n \in Nat : n < Len(changes) => Grown(tree, Applied(tree, First(changes, n)), DirsOf({r}))
         /\ Closed(Applied(tree, changes))
         /\ Wrote(tree, Applied(tree, changes), q, File(c), {})
<1>1. q \in FilePaths /\ UpTo(Front(q)) \subseteq DirsOf({r})
  BY UpToRun
<1>2. tree \in Trees /\ Closed(tree)
  BY TreeTyped
<1>3. PICK node \in Node : node = File(c)
  OBVIOUS
<1>4. PICK change : change = [new |-> [p \in {q} |-> node], gone |-> {}]
  OBVIOUS
<1>5. changes = ensure_dir(Front(q)) \o <<change>>
  BY <1>3, <1>4 DEF write_bytes_atomic, Made
<1>6. /\ changes \in Seq(Changes)
      /\ Wrote(tree, Applied(tree, changes), q, node, {})
      /\ \A n \in Nat : n < Len(changes) =>
           Grown(tree, Applied(tree, First(changes, n)), UpTo(Front(q)))
  BY <1>1, <1>2, <1>3, <1>4, <1>5, WritingFile
<1>7. \A n \in Nat : n < Len(changes) => Grown(tree, Applied(tree, First(changes, n)), DirsOf({r}))
  BY <1>1, <1>6, GrownMore
<1> QED
  BY <1>3, <1>6, <1>7 DEF Wrote

(* ensure_layout makes a batch of changes of the run's directories. *)
LEMMA BeginRunBatch ==
  ASSUME TreeInv, NEW a, NEW r \in RunIds, BeginRun(a, r)
  PROVE  \E changes : Change(changes, NoDir) /\ Batch(changes, r)
<1>1. tree \in Trees /\ Closed(tree) /\ live = LiveIn(tree) /\ dirs = DirsIn(tree)
  BY TreeTyped DEF TreeInv, TypeOK
<1>2. PICK changes : changes = Layout(r)
  OBVIOUS
<1>3. PICK v : v = Applied(tree, changes)
  OBVIOUS
<1>4. /\ changes \in Seq(Changes)
      /\ \A n \in Nat : Grown(tree, Applied(tree, First(changes, n)), DirsOf({r}))
      /\ Grown(tree, v, DirsOf({r}))
      /\ RunDir(r) \in DOMAIN v
  BY <1>1, <1>2, <1>3, LayingOut
<1>5. LiveIn(v) = live /\ DirsIn(v) = Put(dirs, r, DirIn(tree, r))
  BY <1>1, <1>4, GrownShows
<1>6. live' = live /\ dirs' = Put(dirs, r, DirIn(tree, r))
  BY <1>1, DirOfIn, SamePartial DEF BeginRun, J!BeginRun, J!SetDir
<1>7. Change(changes, NoDir)
  BY <1>2 DEF BeginRun
<1> QED
  BY <1>3, <1>4, <1>5, <1>6, <1>7 DEF Batch, Grown

(* Staging a file. *)
LEMMA StageFileBatch ==
  ASSUME TreeInv, NEW a \in J!Actors, NEW f \in Files, NEW c \in Contents, StageFile(a, f, c)
  PROVE  \E changes : /\ Change(changes, Front(StagedPath(run[a], f)))
                      /\ Batch(changes, run[a]) /\ run[a] \in RunIds
<1>1. /\ tree \in Trees /\ Closed(tree) /\ live = LiveIn(tree) /\ dirs = DirsIn(tree)
      /\ J!TypeOK
  BY TreeTyped DEF TreeInv, TypeOK
<1>2. PICK r \in RunIds : r = run[a]
  BY <1>1 DEF StageFile, J!TypeOK
<1>3. PICK q : q = StagedPath(r, f)
  OBVIOUS
<1>4. q \in RunFiles(r) /\ File(c) \in Node /\ Fits(q, File(c))
  <2>1. q \in RunFiles(r)
    BY <1>3 DEF RunFiles, StagedPaths
  <2>2. \A s \in RunIds : q # PlanPath(s)
    BY <1>3, PathsDiffer
  <2>3. File(c) \in Node /\ File(c).data = c /\ File(c).dir = FALSE
    BY DEF File, Node
  <2> HIDE DEF File
  <2> QED
    BY <2>1, <2>2, <2>3 DEF Fits
<1>5. PICK changes : changes = write_bytes_atomic(q, c)
  OBVIOUS
<1>6. /\ changes \in Seq(Changes)
      /\ \A n \in Nat : n < Len(changes) => Grown(tree, Applied(tree, First(changes, n)), DirsOf({r}))
      /\ Closed(Applied(tree, changes))
      /\ Wrote(tree, Applied(tree, changes), q, File(c), {})
  BY <1>4, <1>5, WriteBatch
<1>7. PICK v : v = Applied(tree, changes)
  OBVIOUS
<1>8. LiveIn(v) = live /\ DirsIn(v) = Put(dirs, r, WithFiles(DirIn(tree, r), Put(DirIn(tree, r).files, f, c)))
  <2>1. File(c).data = c
    BY DEF File
  <2>2. Wrote(tree, v, StagedPath(r, f), File(c), {})
    BY <1>3, <1>6, <1>7
  <2>3. /\ LiveIn(v) = LiveIn(tree)
        /\ DirsIn(v) = Put(DirsIn(tree), r, WithFiles(DirIn(tree, r), Put(DirIn(tree, r).files, f, File(c).data)))
    BY <1>1, <2>2, WroteShows
  <2> QED
    BY <1>1, <2>1, <2>3
<1>9. live' = live /\ dirs' = Put(dirs, r, WithFiles(DirIn(tree, r), Put(DirIn(tree, r).files, f, c)))
  BY <1>1, <1>2, DirOfIn, SamePartial DEF StageFile, J!StageFile, J!SetDir, WithFiles
<1>10. Change(changes, Front(StagedPath(run[a], f)))
  BY <1>2, <1>3, <1>5 DEF StageFile
<1> QED
  BY <1>2, <1>6, <1>7, <1>8, <1>9, <1>10 DEF Batch

(* Writing the plan. *)
LEMMA WritePlanBatch ==
  ASSUME TreeInv, NEW a \in J!Actors, WritePlan(a)
  PROVE  \E changes : Change(changes, RunDir(run[a])) /\ Batch(changes, run[a]) /\ run[a] \in RunIds
<1>1. /\ tree \in Trees /\ Closed(tree) /\ live = LiveIn(tree) /\ dirs = DirsIn(tree)
      /\ J!TypeOK
  BY TreeTyped DEF TreeInv, TypeOK
<1>2. PICK r \in RunIds : r = run[a]
  BY <1>1 DEF WritePlan, J!TypeOK
<1>3. PICK s \in Seq(Files) : s = steps[a]
  BY <1>1 DEF J!TypeOK
<1>4. PlanPath(r) \in RunFiles(r) /\ File(s) \in Node /\ Fits(PlanPath(r), File(s))
  <2>1. PICK q : q = PlanPath(r)
    OBVIOUS
  <2>2. q \in RunFiles(r)
    BY <2>1 DEF RunFiles
  <2>3. \A t \in RunIds, f \in Files : q # LivePath(f) /\ q # StagedPath(t, f)
    BY <2>1, PathsDiffer
  <2>4. File(s) \in Node /\ File(s).data = s /\ File(s).dir = FALSE
    BY DEF File, Node
  <2> HIDE DEF File
  <2>5. Fits(q, File(s))
    BY <2>3, <2>4 DEF Fits, LivePaths, StagedPaths
  <2> QED
    BY <2>1, <2>2, <2>4, <2>5, Zenon
<1>5. PICK changes : changes = write_bytes_atomic(PlanPath(r), s)
  OBVIOUS
<1>6. /\ changes \in Seq(Changes)
      /\ \A n \in Nat : n < Len(changes) => Grown(tree, Applied(tree, First(changes, n)), DirsOf({r}))
      /\ Closed(Applied(tree, changes))
      /\ Wrote(tree, Applied(tree, changes), PlanPath(r), File(s), {})
  BY <1>4, <1>5, WriteBatch
<1>7. PICK v : v = Applied(tree, changes)
  OBVIOUS
<1>8. LiveIn(v) = live /\ DirsIn(v) = Put(dirs, r, WithPlan(DirIn(tree, r), s))
  <2>1. File(s).data = s
    BY DEF File
  <2>2. Wrote(tree, v, PlanPath(r), File(s), {})
    BY <1>6, <1>7
  <2>3. /\ LiveIn(v) = LiveIn(tree)
        /\ DirsIn(v) = Put(DirsIn(tree), r, WithPlan(DirIn(tree, r), File(s).data))
    BY <1>1, <2>2, WroteShows
  <2> QED
    BY <1>1, <2>1, <2>3
<1>9. live' = live /\ dirs' = Put(dirs, r, WithPlan(DirIn(tree, r), s))
  BY <1>1, <1>2, <1>3, DirOfIn, SamePartial DEF WritePlan, J!WritePlan, J!SetDir, WithPlan
<1>10. Change(changes, RunDir(run[a]))
  BY <1>2, <1>3, <1>5 DEF WritePlan
<1> QED
  BY <1>2, <1>6, <1>7, <1>8, <1>9, <1>10 DEF Batch

(* Writing the marker. *)
LEMMA MarkReadyBatch ==
  ASSUME TreeInv, NEW a \in J!Actors, MarkReady(a)
  PROVE  \E changes : Change(changes, RunDir(run[a])) /\ Batch(changes, run[a]) /\ run[a] \in RunIds
<1>1. /\ tree \in Trees /\ Closed(tree) /\ live = LiveIn(tree) /\ dirs = DirsIn(tree)
      /\ J!TypeOK
  BY TreeTyped DEF TreeInv, TypeOK
<1>2. PICK r \in RunIds : r = run[a]
  BY <1>1 DEF MarkReady, J!TypeOK
<1>3. ReadyPath(r) \in RunFiles(r) /\ File(<< >>) \in Node /\ Fits(ReadyPath(r), File(<< >>))
  <2>1. PICK q : q = ReadyPath(r)
    OBVIOUS
  <2>2. q \in RunFiles(r)
    BY <2>1 DEF RunFiles
  <2>3. CheckpointFile \in Files
    BY JournalConstants DEF J!JournalAssumption
  <2>4. \A t \in RunIds, f \in Files : q # LivePath(f) /\ q # StagedPath(t, f) /\ q # PlanPath(t)
    BY <2>1, PathsDiffer
  <2>5. \A t \in RunIds : q # PlanPath(t)
    BY <2>3, <2>4
  <2>6. File(<< >>) \in Node /\ File(<< >>).dir = FALSE
    BY DEF File, Node
  <2> HIDE DEF File
  <2>7. Fits(q, File(<< >>))
    BY <2>4, <2>5, <2>6 DEF Fits, LivePaths, StagedPaths
  <2> QED
    BY <2>1, <2>2, <2>6, <2>7, Zenon
<1>4. PICK changes : changes = write_bytes_atomic(ReadyPath(r), << >>)
  OBVIOUS
<1>5. /\ changes \in Seq(Changes)
      /\ \A n \in Nat : n < Len(changes) => Grown(tree, Applied(tree, First(changes, n)), DirsOf({r}))
      /\ Closed(Applied(tree, changes))
      /\ Wrote(tree, Applied(tree, changes), ReadyPath(r), File(<< >>), {})
  BY <1>3, <1>4, WriteBatch
<1>6. PICK v : v = Applied(tree, changes)
  OBVIOUS
<1>7. LiveIn(v) = live /\ DirsIn(v) = Put(dirs, r, WithReady(DirIn(tree, r), TRUE))
  <2>1. Wrote(tree, v, ReadyPath(r), File(<< >>), {})
    BY <1>5, <1>6
  <2> QED
    BY <1>1, <2>1, WroteShows
<1>8. live' = live /\ dirs' = Put(dirs, r, WithReady(DirIn(tree, r), TRUE))
  BY <1>1, <1>2, DirOfIn, SamePartial DEF MarkReady, J!MarkReady, J!SetDir, WithReady
<1>9. Change(changes, RunDir(run[a]))
  BY <1>2, <1>4 DEF MarkReady
<1> QED
  BY <1>2, <1>5, <1>6, <1>7, <1>8, <1>9 DEF Batch

(* Renaming a staged file over the live one. *)
LEMMA ReplaceBatch ==
  ASSUME TreeInv, NEW a \in J!Actors, Replace(a)
  PROVE  \E changes : /\ Change(changes, Front(LivePath(Head(steps[a]))))
                      /\ Batch(changes, run[a]) /\ run[a] \in RunIds
<1>1. /\ tree \in Trees /\ Closed(tree) /\ live = LiveIn(tree) /\ dirs = DirsIn(tree)
      /\ J!TypeOK
  BY TreeTyped DEF TreeInv, TypeOK
<1>2. PICK r \in RunIds : r = run[a]
  BY <1>1 DEF Replace, J!TypeOK
<1>3. PICK f \in Files : f = Head(steps[a])
  BY <1>1 DEF Replace, J!TypeOK
<1>4. PICK o : o = StagedPath(r, f)
  OBVIOUS
<1>5. o \in DOMAIN tree /\ o \in RunFiles(r) /\ o \in FilePaths
  BY <1>2, <1>3, <1>4, InRun DEF Replace, RunFiles, StagedPaths
<1>6. PICK node \in Node : node = tree[o] /\ node.dir = FALSE /\ node.data \in Contents
  <2>1. tree[o] \in Node /\ Fits(o, tree[o])
    BY <1>1, <1>5, TreeType
  <2>2. o \in UNION {StagedPaths(s) : s \in RunIds}
    BY <1>4 DEF StagedPaths
  <2> QED
    BY <1>5, <2>1, <2>2 DEF Fits
<1>7. PICK q : q = LivePath(f)
  OBVIOUS
<1>8. q \in LivePaths /\ q \in FilePaths /\ o # q /\ Fits(q, node)
  <2>1. q \in LivePaths /\ q \in FilePaths
    BY <1>7 DEF LivePaths, FilePaths
  <2>2. o # q
    BY <1>5, <2>1, InRun
  <2>3. q \notin {PlanPath(s) : s \in RunIds}
    BY <1>7, PathsDiffer
  <2> QED
    BY <1>6, <2>1, <2>2, <2>3 DEF Fits
<1>9. PICK change : change = [new |-> [p \in {q} |-> node], gone |-> {o}]
  OBVIOUS
<1>10. PICK changes : changes = ensure_dir(Front(q)) \o <<change>>
  OBVIOUS
<1>11. PICK v : v = Applied(tree, changes)
  OBVIOUS
<1>12. /\ changes \in Seq(Changes)
       /\ Wrote(tree, v, q, node, {o})
       /\ \A n \in Nat : n < Len(changes) =>
            Grown(tree, Applied(tree, First(changes, n)), UpTo(Front(q)))
  BY <1>1, <1>5, <1>8, <1>9, <1>10, <1>11, WritingFile
<1>13. \A n \in Nat : n < Len(changes) => Grown(tree, Applied(tree, First(changes, n)), DirsOf({r}))
  <2>1. UpTo(Front(q)) \subseteq DirsOf({r})
    BY <1>8, UpToRun
  <2> QED
    BY <1>12, <2>1, GrownMore
<1>14. /\ LiveIn(v) = Put(live, f, node.data)
       /\ DirsIn(v) = Put(dirs, r, WithFiles(DirIn(tree, r), Drop(DirIn(tree, r).files, f)))
  <2>1. Wrote(tree, v, LivePath(f), node, {StagedPath(r, f)}) /\ StagedPath(r, f) \in DOMAIN tree
    BY <1>4, <1>5, <1>7, <1>12
  <2> QED
    BY <1>1, <2>1, MovedShows
<1>15. /\ live' = Put(live, f, node.data)
       /\ dirs' = Put(dirs, r, WithFiles(DirIn(tree, r), Drop(DirIn(tree, r).files, f)))
  <2>1. r \in DOMAIN dirs /\ f \in DOMAIN dirs[r].files
    BY <1>2, <1>3 DEF Replace, J!Replace, J!IsStaged
  <2>2. dirs[r] = DirIn(tree, r)
    BY <1>1, <2>1, DirOfIn
  <2>3. dirs[r].files[f] = node.data
    BY <1>4, <1>5, <1>6, <2>2 DEF DirIn, FilesIn
  <2>4. /\ live' = J!Put(live, f, dirs[r].files[f])
        /\ dirs' = J!Put(dirs, r, [dirs[r] EXCEPT !.files = J!Drop(@, f)])
    BY <1>2, <1>3 DEF Replace, J!Replace, J!SetDir
  <2> QED
    BY <2>2, <2>3, <2>4, SamePartial DEF WithFiles
<1>16. Change(changes, Front(LivePath(Head(steps[a]))))
  <2>1. changes = atomic_rename(o, q)
    BY <1>6, <1>9, <1>10 DEF atomic_rename
  <2> QED
    BY <1>2, <1>3, <1>4, <1>7, <2>1 DEF Replace
<1> QED
  BY <1>2, <1>11, <1>12, <1>13, <1>14, <1>15, <1>16 DEF Batch, Wrote

(* Removing an entry. *)
LEMMA UnlinkBatch ==
  ASSUME TreeInv, NEW path, Unlink(path), NEW r,
         NEW v, v = Applied(tree, <<Gone(path)>>), live' = LiveIn(v), dirs' = DirsIn(v)
  PROVE  Change(<<Gone(path)>>, NoDir) /\ Batch(<<Gone(path)>>, r)
<1>1. tree \in Trees /\ Closed(tree) /\ IsFunction(tree)
  BY TreeTyped
<1>2. path \in DOMAIN tree /\ Entries(tree, path) = {} /\ Change(<<Gone(path)>>, NoDir)
  BY DEF Unlink
<1>3. <<Gone(path)>> \in Seq(Changes) /\ Closed(v)
  BY <1>1, <1>2, Unlinking
<1>4. PICK c \in Seq(Changes) : c = <<Gone(path)>>
  BY <1>3
<1>5. ASSUME NEW n \in Nat, n < Len(c)
      PROVE  Grown(tree, Applied(tree, First(c, n)), DirsOf({r}))
  <2>1. Len(c) = 1
    BY <1>4
  <2>2. n = 0
    BY <1>5, <2>1
  <2>3. Applied(tree, First(c, 0)) = tree
    BY <1>1, AppliedFirstNone
  <2> QED
    BY <1>1, <2>2, <2>3 DEF Grown
<1> QED
  BY <1>2, <1>3, <1>4, <1>5 DEF Batch

(* rmtree removes an entry of a run directory. *)
LEMMA RemoveEntryBatch ==
  ASSUME TreeInv, NEW a \in J!Actors, RemoveEntry(a)
  PROVE  \E changes : Change(changes, NoDir) /\ Batch(changes, run[a]) /\ run[a] \in RunIds
<1>1. /\ tree \in Trees /\ Closed(tree) /\ live = LiveIn(tree) /\ dirs = DirsIn(tree)
      /\ J!TypeOK
  BY TreeTyped DEF TreeInv, TypeOK
<1>2. PICK r \in RunIds : r = run[a]
  BY <1>1 DEF RemoveEntry, J!Removing, J!TypeOK
<1>3. r \in DOMAIN dirs
  BY <1>2 DEF RemoveEntry, J!Removing
<1>4. dirs[r] = DirIn(tree, r)
  BY <1>1, <1>3, DirOfIn
<1>5. ASSUME NEW path, Unlink(path), NEW v, v = Applied(tree, <<Gone(path)>>)
      PROVE  Removed(tree, v, path)
  BY <1>1, <1>5, Unlinking DEF Unlink, Same, Removed
<1>6. ASSUME NEW path, Unlink(path), NEW v, v = Applied(tree, <<Gone(path)>>),
             live' = LiveIn(v), dirs' = DirsIn(v)
      PROVE  \E changes : Change(changes, NoDir) /\ Batch(changes, run[a]) /\ run[a] \in RunIds
  BY <1>2, <1>6, UnlinkBatch
<1>7. ASSUME NEW f \in Files, Unlink(StagedPath(run[a], f)), J!RemoveStaged(a, f)
      PROVE  \E changes : Change(changes, NoDir) /\ Batch(changes, run[a]) /\ run[a] \in RunIds
  <2>1. PICK path : path = StagedPath(r, f)
    OBVIOUS
  <2>2. PICK v : v = Applied(tree, <<Gone(path)>>)
    OBVIOUS
  <2>3. Removed(tree, v, path)
    BY <1>2, <1>5, <1>7, <2>1, <2>2
  <2>4. LiveIn(v) = live /\ DirsIn(v) = Put(dirs, r, WithFiles(DirIn(tree, r), Drop(DirIn(tree, r).files, f)))
    BY <1>1, <2>1, <2>3, GoneShows
  <2>5. live' = live /\ dirs' = Put(dirs, r, WithFiles(DirIn(tree, r), Drop(DirIn(tree, r).files, f)))
    BY <1>2, <1>4, <1>7, SamePartial DEF J!RemoveStaged, J!SetDir, WithFiles
  <2> QED
    BY <1>2, <1>6, <1>7, <2>1, <2>2, <2>4, <2>5
<1>8. ASSUME Unlink(PlanPath(run[a])), J!RemovePlan(a)
      PROVE  \E changes : Change(changes, NoDir) /\ Batch(changes, run[a]) /\ run[a] \in RunIds
  <2>1. PICK path : path = PlanPath(r)
    OBVIOUS
  <2>2. PICK v : v = Applied(tree, <<Gone(path)>>)
    OBVIOUS
  <2>3. Removed(tree, v, path)
    BY <1>2, <1>5, <1>8, <2>1, <2>2
  <2>4. LiveIn(v) = live /\ DirsIn(v) = Put(dirs, r, WithPlan(DirIn(tree, r), NoPlan))
    BY <1>1, <2>1, <2>3, GoneShows
  <2>5. live' = live /\ dirs' = Put(dirs, r, WithPlan(DirIn(tree, r), NoPlan))
    BY <1>2, <1>4, <1>8, SamePartial DEF J!RemovePlan, J!SetDir, WithPlan
  <2> QED
    BY <1>2, <1>6, <1>8, <2>1, <2>2, <2>4, <2>5
<1>9. ASSUME Unlink(ReadyPath(run[a])), J!RemoveReady(a)
      PROVE  \E changes : Change(changes, NoDir) /\ Batch(changes, run[a]) /\ run[a] \in RunIds
  <2>1. PICK path : path = ReadyPath(r)
    OBVIOUS
  <2>2. PICK v : v = Applied(tree, <<Gone(path)>>)
    OBVIOUS
  <2>3. Removed(tree, v, path)
    BY <1>2, <1>5, <1>9, <2>1, <2>2
  <2>4. LiveIn(v) = live /\ DirsIn(v) = Put(dirs, r, WithReady(DirIn(tree, r), FALSE))
    BY <1>1, <2>1, <2>3, GoneShows
  <2>5. live' = live /\ dirs' = Put(dirs, r, WithReady(DirIn(tree, r), FALSE))
    BY <1>2, <1>4, <1>9, SamePartial DEF J!RemoveReady, J!SetDir, WithReady
  <2> QED
    BY <1>2, <1>6, <1>9, <2>1, <2>2, <2>4, <2>5
<1>10. ASSUME NEW path \in Entries(tree, RunDir(run[a])), tree[path].dir, Unlink(path), UNCHANGED journal
       PROVE  \E changes : Change(changes, NoDir) /\ Batch(changes, run[a]) /\ run[a] \in RunIds
  <2>1. PICK v : v = Applied(tree, <<Gone(path)>>)
    OBVIOUS
  <2>2. Removed(tree, v, path)
    BY <1>5, <1>10, <2>1
  <2>3. path \notin FilePaths
    <3>1. Fits(path, tree[path])
      BY <1>1, <2>2, TreeType DEF Removed
    <3> QED
      BY <1>10, <3>1 DEF Fits
  <2>4. path \notin RunRoots
    <3>1. Len(path) > 3
      BY <1>2, <1>10, RunDirAt DEF Entries
    <3>2. SUFFICES ASSUME NEW s \in RunIds, path = RunDir(s) PROVE FALSE
      BY DEF RunRoots
    <3>3. Len(RunDir(s)) = 3
      BY RunDirAt
    <3>4. 3 > 3
      BY <3>1, <3>2, <3>3, Zenon
    <3> QED
      BY <3>4
  <2>5. LiveIn(v) = live /\ DirsIn(v) = dirs
    BY <1>1, <1>2, <2>2, <2>3, <2>4, GoneShows
  <2>6. live' = live /\ dirs' = dirs
    BY <1>10 DEF journal
  <2> QED
    BY <1>6, <1>10, <2>1, <2>5, <2>6
<1> QED
  BY <1>7, <1>8, <1>9, <1>10 DEF RemoveEntry

(* rmtree removes the run directory itself. *)
LEMMA RemoveDirBatch ==
  ASSUME TreeInv, NEW a \in J!Actors, RemoveDir(a)
  PROVE  \E changes : Change(changes, NoDir) /\ Batch(changes, run[a]) /\ run[a] \in RunIds
<1>1. /\ tree \in Trees /\ Closed(tree) /\ live = LiveIn(tree) /\ dirs = DirsIn(tree)
      /\ J!TypeOK
  BY TreeTyped DEF TreeInv, TypeOK
<1>2. PICK r \in RunIds : r = run[a]
  BY <1>1 DEF RemoveDir, J!Removing, J!TypeOK
<1>3. PICK path : path = RunDir(r)
  OBVIOUS
<1>4. PICK v : v = Applied(tree, <<Gone(path)>>)
  OBVIOUS
<1>5. Unlink(path)
  BY <1>2, <1>3 DEF RemoveDir
<1>6. Removed(tree, v, path)
  BY <1>1, <1>4, <1>5, Unlinking DEF Unlink, Same, Removed
<1>7. LiveIn(v) = live /\ DirsIn(v) = Drop(dirs, r)
  BY <1>1, <1>3, <1>6, GoneShows
<1>8. live' = live /\ dirs' = Drop(dirs, r)
  BY <1>2, SamePartial DEF RemoveDir, J!RemoveDir
<1> QED
  BY <1>2, <1>4, <1>5, <1>7, <1>8, UnlinkBatch

(* Every step but a power loss is a step of the journal, or unseen by it. *)
LEMMA JournalSteps == [Next]_vars => [J!Next]_(J!vars) \/ PowerLoss
<1>1. Think => J!Next
  BY DEF Think, Quiet, J!Next, J!Work, J!Execute, J!Stage, J!Actors
<1>2. ASSUME NEW a \in J!Actors, NEW r \in RunIds, BeginRun(a, r)
      PROVE  J!Next
  BY <1>2 DEF BeginRun, J!Next, J!Stage
<1>3. ASSUME NEW a \in J!Actors, NEW f \in Files, NEW c \in Contents, StageFile(a, f, c)
      PROVE  J!Next
  BY <1>3 DEF StageFile, J!Next, J!Stage
<1>4. ASSUME NEW a \in J!Actors, WritePlan(a) \/ MarkReady(a) \/ Replace(a)
      PROVE  J!Next
  BY <1>4 DEF WritePlan, MarkReady, Replace, J!Next, J!Work, J!Execute
<1>5. ASSUME NEW a \in J!Actors, RemoveEntry(a) \/ RemoveDir(a)
      PROVE  J!Next \/ UNCHANGED J!vars
  <2>1. ASSUME NEW f \in Files, J!RemoveStaged(a, f)
        PROVE  J!Remove(a)
    BY <2>1 DEF J!RemoveStaged, J!Remove
  <2>2. UNCHANGED journal => UNCHANGED J!vars
    BY DEF journal, J!vars
  <2>3. J!Remove(a) => J!Next
    BY DEF J!Next, J!Work
  <2> QED
    BY <1>5, <2>1, <2>2, <2>3 DEF RemoveEntry, RemoveDir, J!Remove
<1>6. Fsync \/ WriteBack => UNCHANGED J!vars
  BY DEF Fsync, WriteBack, journal, J!vars
<1>7. Abort => J!Next
  BY DEF Abort, J!Next, J!Fault
<1>8. UNCHANGED vars => UNCHANGED J!vars
  BY DEF vars, journal, J!vars
<1> QED
  BY <1>1, <1>2, <1>3, <1>4, <1>5, <1>6, <1>7, <1>8 DEF Next

(* A step that changes the tree keeps the types. *)
LEMMA ChangeStep ==
  ASSUME TreeInv, NEW changes, NEW due, Change(changes, due), NEW r, Batch(changes, r), J!TypeOK',
         due # NoDir => \E a \in J!Actors : pc'[a] # "idle", acked' \in BOOLEAN
  PROVE  TreeInv'
<1>1. tree \in Trees /\ Closed(tree)
  BY TreeTyped
<1>2. changes \in Seq(Changes) /\ log \in Seq(Changes) /\ tree = Applied(disk, log) /\ disk \in Trees
  BY DEF Batch, TreeInv, TypeOK
<1>3. PICK v : v = Applied(tree, changes)
  OBVIOUS
<1>4. tree' = v /\ log' = log \o changes /\ disk' = disk /\ dirty' = due
  BY <1>3 DEF Change
<1>5. v \in Trees /\ Closed(v) /\ Visible(v) = v
  <2>1. v \in Trees /\ Closed(v)
    BY <1>1, <1>2, <1>3, AppliedType DEF Batch
  <2> QED
    BY <2>1, VisibleClosed
<1>6. v = Applied(disk, log \o changes) /\ log \o changes \in Seq(Changes)
  <2>1. Applied(disk, log \o changes) = Applied(Applied(disk, log), changes)
    BY <1>2, AppliedConcat
  <2> QED
    BY <1>2, <1>3, <2>1
<1>7. live' = LiveIn(v) /\ dirs' = DirsIn(v)
  BY <1>3 DEF Batch
<1>8. tree' = Applied(disk', log') /\ Visible(tree') = tree' /\ live' = LiveIn(tree') /\ dirs' = DirsIn(tree')
  BY <1>4, <1>5, <1>6, <1>7
<1>9. TypeOK'
  BY <1>4, <1>8 DEF TypeOK
<1> QED
  BY <1>2, <1>4, <1>6, <1>9 DEF TreeInv

(* The parts of the log that may reach the disk by themselves are some of  *)
(* its changes, with all that came before them at the same path.           *)
LEMMA SurvivingPart ==
  ASSUME TreeInv, NEW kept \in Survivals
  PROVE  /\ kept \in SUBSET DOMAIN log
         /\ Only(kept) \in Seq(Changes)
         /\ Only(DOMAIN log \ kept) \in Seq(Changes)
         /\ kept = DOMAIN log => Only(kept) = log
         /\ Applied(Applied(disk, Only(kept)), Only(DOMAIN log \ kept)) = tree
         /\ Applied(disk, Only(kept)) \in Trees
<1>1. PICK c \in Seq(Changes) : c = log
  BY DEF TreeInv
<1>2. DOMAIN c = 1..Len(c) /\ Len(c) \in Nat
  OBVIOUS
<1>3. kept \in SUBSET DOMAIN c
  BY <1>1, <1>2 DEF Survivals
<1>4. ASSUME NEW some
      PROVE  Only(some) = [n \in DOMAIN c |-> IF n \in some THEN c[n] ELSE Unchanged]
  BY <1>1 DEF Only
<1>5. ASSUME NEW some
      PROVE  Only(some) \in Seq(Changes)
  <2>1. Only(some) \in [1..Len(c) -> Changes]
    BY <1>2, <1>4, ChangeTypes
  <2> QED
    BY <1>2, <2>1
<1>6. ASSUME NEW p, NEW i \in Changing(c, p), NEW j \in Changing(c, p), i \in kept, j < i
      PROVE  j \in kept
  <2>1. /\ i \in DOMAIN c /\ j \in DOMAIN c
        /\ p \in DOMAIN c[i].new \cup c[i].gone /\ p \in DOMAIN c[j].new \cup c[j].gone
    BY <1>6 DEF Changing
  <2>2. CASE Filesystem = "journal"
    <3>1. PICK n \in 0..Len(c) : kept = 1..n
      BY <1>1, <2>2 DEF Survivals
    <3> QED
      BY <1>2, <1>6, <2>1, <3>1
  <2>3. CASE Filesystem # "journal"
    <3>1. Front(p) \in Touched(c[i]) \cap Touched(c[j])
      BY <2>1, <2>3 DEF Touched
    <3> QED
      BY <1>1, <1>6, <2>1, <2>3, <3>1 DEF Survivals
  <2> QED
    BY <2>2, <2>3
<1>7. Applied(Applied(disk, Only(kept)), Only(DOMAIN log \ kept)) = Applied(disk, c)
  <2>1. PICK a \in Seq(Changes) : a = Only(kept)
    BY <1>5
  <2>2. PICK b \in Seq(Changes) : b = Only(DOMAIN c \ kept)
    BY <1>5
  <2>3. a = Part(c, kept)
    BY <1>4, <2>1 DEF Part
  <2>4. b = Part(c, DOMAIN c \ kept)
    BY <1>4, <2>2 DEF Part
  <2>5. InOrder(c, kept)
    BY <1>6 DEF InOrder
  <2>6. Applied(Applied(disk, a), b) = Applied(disk, c)
    BY <1>3, <2>3, <2>4, <2>5, AppliedSplit
  <2> QED
    BY <1>1, <2>1, <2>2, <2>6
<1>8. kept = DOMAIN log => Only(kept) = log
  <2>1. c = [n \in DOMAIN c |-> c[n]]
    OBVIOUS
  <2>2. kept = DOMAIN c => Only(kept) = [n \in DOMAIN c |-> c[n]]
    BY <1>4
  <2> QED
    BY <1>1, <2>1, <2>2
<1>9. Applied(disk, c) = tree /\ disk \in Trees
  BY <1>1 DEF TreeInv, TypeOK
<1>10. Applied(disk, Only(kept)) \in Trees
  BY <1>5, <1>9, AppliedType
<1> QED
  BY <1>1, <1>3, <1>5, <1>7, <1>8, <1>9, <1>10

(* fsync moves changes from the log to the disk. *)
LEMMA FsyncStep ==
  ASSUME TreeInv, Fsync
  PROVE  /\ TreeInv'
         /\ Filesystem = "journal" => disk' = tree /\ log' = << >>
<1>1. PICK kept \in Survivals :
        /\ Covers(kept, dirty)
        /\ disk' = Applied(disk, Only(kept))
        /\ log' = IF kept = DOMAIN log THEN << >> ELSE Only(DOMAIN log \ kept)
  BY DEF Fsync, fsync_dir
<1>2. /\ kept \in SUBSET DOMAIN log
      /\ Only(kept) \in Seq(Changes)
      /\ Only(DOMAIN log \ kept) \in Seq(Changes)
      /\ kept = DOMAIN log => Only(kept) = log
      /\ Applied(Applied(disk, Only(kept)), Only(DOMAIN log \ kept)) = tree
      /\ Applied(disk, Only(kept)) \in Trees
  BY SurvivingPart
<1>3. tree \in Trees /\ IsFunction(tree) /\ tree = Applied(disk, log)
  BY TreeTyped DEF TreeInv, TypeOK
<1>4. CASE kept = DOMAIN log
  <2>1. disk' = tree /\ log' = << >>
    BY <1>1, <1>2, <1>3, <1>4
  <2>2. tree = Applied(disk', log')
    BY <1>3, <2>1, AppliedNone
  <2> QED
    BY <1>3, <2>1, <2>2 DEF TreeInv, TypeOK, Fsync, journal, J!TypeOK
<1>5. CASE kept # DOMAIN log
  <2>1. disk' = Applied(disk, Only(kept)) /\ log' = Only(DOMAIN log \ kept)
    BY <1>1, <1>5
  <2>2. tree = Applied(disk', log') /\ disk' \in Trees /\ log' \in Seq(Changes)
    BY <1>2, <2>1
  <2>3. Filesystem # "journal"
    <3>1. SUFFICES ASSUME Filesystem = "journal" PROVE kept = DOMAIN log
      BY <1>5
    <3>2. \A n \in DOMAIN log : n \in kept
      BY <1>1, <3>1 DEF Covers, DirKey, Touched
    <3> QED
      BY <1>2, <3>2
  <2> QED
    BY <2>2, <2>3 DEF TreeInv, TypeOK, Fsync, journal, J!TypeOK
<1> QED
  BY <1>4, <1>5

(* So does the operating system by itself. *)
LEMMA WriteBackStep ==
  ASSUME TreeInv, WriteBack
  PROVE  TreeInv'
<1>1. tree \in Trees /\ IsFunction(tree)
  BY TreeTyped
<1>2. disk' = tree /\ log' = << >> /\ tree' = tree
  BY DEF WriteBack
<1>3. tree' = Applied(disk', log')
  BY <1>1, <1>2, AppliedNone
<1> QED
  BY <1>1, <1>2, <1>3 DEF TreeInv, TypeOK, WriteBack, journal, J!TypeOK

(* What a tree shows is typed. *)
LEMMA ShownJournal ==
  ASSUME NEW t \in Trees
  PROVE  /\ LiveIn(t) \in J!Partial(Files, Contents)
         /\ DOMAIN DirsIn(t) \subseteq RunIds
         /\ DirsIn(t) \in [DOMAIN DirsIn(t) -> J!RunDirs]
<1>1. \A r \in RunIds : DirIn(t, r) \in J!RunDirs
  BY ShownTypes, SamePartial DEF DirIn, J!RunDirs
<1> QED
  BY <1>1, ShownTypes, SamePartial, DirsAt

(* After a power loss processes find a tree again. *)
LEMMA PowerLossStep ==
  ASSUME TreeInv, PowerLoss
  PROVE  TreeInv'
<1>1. PICK kept \in Survivals : tree' = Visible(Applied(disk, Only(kept)))
  BY DEF PowerLoss
<1>2. PICK t \in Trees : t = Applied(disk, Only(kept))
  BY SurvivingPart
<1>3. PICK v \in Trees : v = Visible(t) /\ Closed(v) /\ Visible(v) = v
  BY VisibleClosed
<1>4. tree' = v /\ disk' = v /\ log' = << >> /\ live' = LiveIn(v) /\ dirs' = DirsIn(v) /\ dirty' = NoDir
  BY <1>1, <1>2, <1>3 DEF PowerLoss
<1>5. tree' = Applied(disk', log') /\ Visible(tree') = tree'
  BY <1>3, <1>4, AppliedNone, TreeType
<1>6. J!TypeOK'
  <2>1. /\ live' \in J!Partial(Files, Contents)
        /\ DOMAIN dirs' \subseteq RunIds
        /\ dirs' \in [DOMAIN dirs' -> J!RunDirs]
    BY <1>4, ShownJournal
  <2>2. /\ lock' = Nobody
        /\ svc' = [p \in Procs |-> "down"]
        /\ pc' = [a \in J!Actors |-> "idle"]
        /\ own' = [a \in J!Actors |-> FALSE]
        /\ run' = [a \in J!Actors |-> NoRun]
        /\ todo' = [a \in J!Actors |-> {}]
        /\ steps' = [a \in J!Actors |-> << >>]
    BY DEF PowerLoss
  <2> QED
    BY <2>1, <2>2 DEF J!TypeOK, J!Labels
<1>7. acked' \in BOOLEAN
  BY DEF PowerLoss, TreeInv, TypeOK
<1>8. TypeOK'
  BY <1>4, <1>5, <1>6, <1>7 DEF TypeOK
<1> QED
  BY <1>4, <1>8, EmptySeq DEF TreeInv

(* Steps that change no entry. *)
LEMMA StillStep ==
  ASSUME TreeInv, Think \/ Abort \/ UNCHANGED vars, J!TypeOK'
  PROVE  TreeInv' /\ UNCHANGED <<live, dirs, tree, disk, log, acked>>
<1>1. Think => UNCHANGED <<live, dirs, tree, disk, log, acked>> /\ dirty' = NoDir
  <2> USE DEF Quiet, NoChange, J!disk
  <2>1. ASSUME NEW a, Quiet(J!Sweep(a))
        PROVE  UNCHANGED <<live, dirs>>
    BY <2>1 DEF J!Sweep, J!Scan, J!ResumeReady, J!ResumeDiscard, J!ResumeDone
  <2>2. ASSUME NEW a, \/ Quiet(J!ReturnDry(a)) \/ Quiet(J!Raise(a)) \/ Quiet(J!Commit(a))
                      \/ Quiet(J!CheckStaged(a)) \/ Quiet(J!SkipStep(a)) \/ Quiet(J!ExecuteDone(a))
        PROVE  UNCHANGED <<live, dirs>>
    BY <2>2 DEF J!ReturnDry, J!Raise, J!Commit, J!CheckStaged, J!SkipStep, J!ExecuteDone
  <2>3. ASSUME NEW p, Quiet(J!Boot(p)) \/ Quiet(J!Acquire(p))
        PROVE  UNCHANGED <<live, dirs>>
    BY <2>3 DEF J!Boot, J!Acquire
  <2> QED
    BY <2>1, <2>2, <2>3 DEF Think
<1>2. Abort => UNCHANGED <<live, dirs, tree, disk, log, acked>> /\ dirty' = NoDir
  BY DEF Abort, J!OSError, J!Crash, J!disk
<1>3. UNCHANGED vars =>
        UNCHANGED <<live, dirs, tree, disk, log, acked>> /\ dirty' = dirty /\ pc' = pc
  BY DEF vars, journal
<1>4. UNCHANGED <<live, dirs, tree, disk, log, acked>>
  BY <1>1, <1>2, <1>3
<1>5. dirty' # NoDir => \E a \in J!Actors : pc'[a] # "idle"
  BY <1>1, <1>2, <1>3 DEF TreeInv, TypeOK
<1> QED
  BY <1>4, <1>5 DEF TreeInv, TypeOK

(* Every step that is not a power loss keeps the journal's types. *)
LEMMA JournalTypes ==
  ASSUME TreeInv, [Next]_vars
  PROVE  J!TypeOK'
<1>1. CASE PowerLoss
  BY <1>1, PowerLossStep DEF TreeInv, TypeOK
<1>2. CASE ~PowerLoss
  <2>1. JP!TypeOK /\ [JP!Next]_(JP!vars)
    BY <1>2, JournalSteps, SameState, SameSteps DEF TreeInv, TypeOK
  <2>2. JP!TypeOK'
    BY <2>1, JournalAssumed, JP!TypeStep
  <2> QED
    BY <2>2, SameStateNext
<1> QED
  BY <1>1, <1>2

(* Every step keeps the types of the tree, the disk and the log. *)
LEMMA TreeStep ==
  ASSUME TreeInv, [Next]_vars
  PROVE  TreeInv'
<1>1. J!TypeOK' /\ J!TypeOK
  BY JournalTypes DEF TreeInv, TypeOK
<1>2. ASSUME NEW a \in J!Actors, NEW label, J!Goto(a, label), label # "idle"
      PROVE  \E b \in J!Actors : pc'[b] # "idle"
  BY <1>1, <1>2 DEF J!Goto, J!TypeOK
<1>3. acked \in BOOLEAN /\ own \in [J!Actors -> BOOLEAN]
  BY <1>1 DEF TreeInv, TypeOK, J!TypeOK
<1>4. ASSUME NEW a \in J!Actors, NEW r \in RunIds, BeginRun(a, r)
      PROVE  TreeInv'
  BY <1>1, <1>3, <1>4, BeginRunBatch, ChangeStep DEF BeginRun
<1>5. ASSUME NEW a \in J!Actors, NEW f \in Files, NEW c \in Contents, StageFile(a, f, c)
      PROVE  TreeInv'
  <2>1. J!Goto(a, IF f = CheckpointFile THEN "plan" ELSE "stage") /\ acked' = acked
    BY <1>5 DEF StageFile, J!StageFile
  <2>2. (IF f = CheckpointFile THEN "plan" ELSE "stage") # "idle"
    OBVIOUS
  <2>3. \E b \in J!Actors : pc'[b] # "idle"
    BY <1>2, <2>1, <2>2
  <2> QED
    BY <1>1, <1>3, <1>5, <2>1, <2>3, StageFileBatch, ChangeStep
<1>6. ASSUME NEW a \in J!Actors, WritePlan(a)
      PROVE  TreeInv'
  <2>1. (\E b \in J!Actors : pc'[b] # "idle") /\ acked' = acked
    BY <1>2, <1>6 DEF WritePlan, J!WritePlan
  <2> QED
    BY <1>1, <1>3, <1>6, <2>1, WritePlanBatch, ChangeStep
<1>7. ASSUME NEW a \in J!Actors, MarkReady(a)
      PROVE  TreeInv'
  <2>1. (\E b \in J!Actors : pc'[b] # "idle") /\ acked' = FALSE
    BY <1>2, <1>7 DEF MarkReady, J!MarkReady
  <2> QED
    BY <1>1, <1>7, <2>1, MarkReadyBatch, ChangeStep
<1>8. ASSUME NEW a \in J!Actors, Replace(a)
      PROVE  TreeInv'
  <2>1. (\E b \in J!Actors : pc'[b] # "idle") /\ acked' = acked
    BY <1>2, <1>8 DEF Replace, J!Replace
  <2> QED
    BY <1>1, <1>3, <1>8, <2>1, ReplaceBatch, ChangeStep
<1>9. ASSUME NEW a \in J!Actors, RemoveEntry(a)
      PROVE  TreeInv'
  BY <1>1, <1>3, <1>9, RemoveEntryBatch, ChangeStep DEF RemoveEntry
<1>10. ASSUME NEW a \in J!Actors, RemoveDir(a)
       PROVE  TreeInv'
  <2>1. acked' \in BOOLEAN
    BY <1>3, <1>10 DEF RemoveDir
  <2> QED
    BY <1>1, <1>10, <2>1, RemoveDirBatch, ChangeStep
<1>11. CASE Think \/ Abort \/ UNCHANGED vars
  BY <1>1, <1>11, StillStep
<1>12. CASE Fsync \/ WriteBack \/ PowerLoss
  BY <1>12, FsyncStep, WriteBackStep, PowerLossStep
<1> QED
  BY <1>4, <1>5, <1>6, <1>7, <1>8, <1>9, <1>10, <1>11, <1>12 DEF Next

(* The service starts with an empty disk. *)
LEMMA TreeInit == Init => TreeInv
<1>1. SUFFICES ASSUME Init PROVE TreeInv
  OBVIOUS
<1>2. J!TypeOK
  <2>1. JP!Init
    BY <1>1 DEF Init, J!Init, JP!Init, J!Actors, JP!Actors
  <2> QED
    BY <2>1, JournalAssumed, JP!TypeInit, SameState
<1>3. << >> \in Trees /\ << >> \in Seq(Changes) /\ DOMAIN << >> = {}
  BY ChangeTypes
<1>4. Applied(<< >>, << >>) = << >> /\ Visible(<< >>) = << >>
  BY <1>3, AppliedNone, TreeType, VisibleClosed DEF Closed
<1>5. LiveIn(<< >>) = << >> /\ DirsIn(<< >>) = << >>
  BY <1>3 DEF LiveIn, DirsIn
<1>6. live = << >> /\ dirs = << >>
  BY <1>1 DEF Init, J!Init
<1> QED
  BY <1>1, <1>2, <1>3, <1>4, <1>5, <1>6 DEF Init, TreeInv, TypeOK

(* Whatever the file system promises of its directories, what processes    *)
(* see is what is on the disk with the log on top of it, and holds what    *)
(* the journal thinks it does, and every entry has its directory.          *)
THEOREM DurableTypeCorrect == Spec => []TypeOK
<1>1. Init => TreeInv
  BY TreeInit
<1>2. TreeInv /\ [Next]_vars => TreeInv'
  BY TreeStep
<1>3. TreeInv => TypeOK
  BY DEF TreeInv
<1> QED
  BY <1>1, <1>2, <1>3, PTL DEF Spec

-----------------------------------------------------------------------------
(* Durability.                                                             *)

(* The journal's replay is the same under both names. *)
LEMMA SameReplay == \A files, ds : J!Replayed(files, ds) = JP!Replayed(files, ds)
BY DEF J!Replayed, JP!Replayed

(* So are its outputs and its offers. *)
SameOutput == J!Committed = JP!Committed /\ J!Offered = JP!Offered

(* In every state. *)
LEMMA SameOutputs == SameOutput
<1>1. J!Offered = JP!Offered
  BY DEF J!Offered, JP!Offered, J!OfferedBy, JP!OfferedBy
<1> QED
  BY <1>1, SameReplay DEF SameOutput, J!Committed, JP!Committed

(* And in the next one. *)
LEMMA SameOutputsNext == SameOutput'
BY SameOutputs, PTL

(* A step of the one abstract specification is a step of the other. *)
LEMMA SameAtomicSteps == JP!A!Next => D!A!Next
<1>1. J!Committed = JP!Committed /\ J!Offered = JP!Offered
  BY SameOutputs DEF SameOutput
<1>2. J!Committed' = JP!Committed' /\ J!Offered' = JP!Offered'
  BY SameOutputsNext DEF SameOutput
<1> QED
  BY <1>1, <1>2 DEF JP!A!Next, JP!A!Prepare, JP!A!Commit, JP!A!IsBatch, JP!A!Overlay, JP!A!Partial,
     D!A!Next, D!A!Prepare, D!A!Commit, D!A!IsBatch, D!A!Overlay, D!A!Partial

(* What is required of the run directories a power loss leaves: one at     *)
(* most, and a READY one can be replayed with the checkpoint last.         *)
Sound(ds) ==
  /\ \A r, s \in DOMAIN ds : r = s
  /\ \A r \in DOMAIN ds : ds[r].plan # NoPlan => J!CheckpointAtEnd(ds[r].plan)
  /\ \A r \in DOMAIN ds :
       ds[r].ready /\ DOMAIN ds[r].files # {} =>
         /\ ds[r].plan # NoPlan
         /\ DOMAIN ds[r].files \subseteq J!Range(ds[r].plan)
         /\ CheckpointFile \in DOMAIN ds[r].files

(* The outputs a tree stands for. *)
Outputs(t) == J!Replayed(LiveIn(t), DirsIn(t))

(* What a power loss leaves if the first n changes of the log are written. *)
Snapshot(n) == Applied(disk, First(log, n))

Safe(t) == Closed(t) /\ Sound(DirsIn(t)) /\ Outputs(t) \in {DurablyCommitted, J!Committed}

(* Whatever is left is a journal that stands for the durable outputs or    *)
(* for the present ones.                                                   *)
SnapshotInv == \A n \in Nat : Safe(Snapshot(n))

(* Nothing is in the log when READY is written; and a run that wrote it    *)
(* has made it durable before it goes on.                                  *)
SealInv ==
  \A a \in J!Actors :
    /\ pc[a] = "ready" /\ dirty = NoDir => log = << >>
    /\ own[a] => pc[a] \in {"stage", "plan", "ready", "commit", "execute", "replace", "clean"}
    /\ own[a] /\ pc[a] \in {"commit", "execute", "replace", "clean"} /\ dirty = NoDir =>
         DurablyCommitted = J!Committed

AckInv == acked => DurablyCommitted = J!Committed

DurableInv == TreeInv /\ J!JournalInv /\ SnapshotInv /\ SealInv /\ AckInv

(* The journal's invariant says that its directories are sound. *)
LEMMA SoundDirs == J!DirsInv <=> Sound(dirs)
BY DEF J!DirsInv, J!ReadyIsReplayable, J!Staged, Sound

(* In the next state too. *)
LEMMA SoundDirsNext == J!DirsInv' <=> Sound(dirs')
BY DEF J!DirsInv, J!ReadyIsReplayable, J!Staged, Sound

(* With one service process. *)
LEMMA OneProcess == J!SingleInstance /\ JP!SingleInstance
BY DurableAssumption DEF J!SingleInstance, JP!SingleInstance

(* The tree of the processes is safe. *)
LEMMA TreeIsSafe ==
  ASSUME TreeInv, J!JournalInv
  PROVE  Safe(tree) /\ Outputs(tree) = J!Committed
<1>1. Closed(tree) /\ live = LiveIn(tree) /\ dirs = DirsIn(tree)
  BY TreeTyped DEF TreeInv, TypeOK
<1>2. Outputs(tree) = J!Committed
  BY <1>1 DEF Outputs, J!Committed
<1> QED
  BY <1>1, <1>2, SoundDirs DEF Safe, J!JournalInv

SafeTree ==
  TreeInv /\ J!JournalInv => Closed(tree) /\ Sound(DirsIn(tree)) /\ Outputs(tree) = J!Committed

(* Every tree of the processes. *)
LEMMA SafeTreeAlways == SafeTree
BY TreeIsSafe DEF SafeTree, Safe

(* And the next one. *)
LEMMA SafeTreeNext == SafeTree'
BY SafeTreeAlways, PTL

(* The disk is what is left if nothing of the log is written. *)
LEMMA DiskIsSafe ==
  ASSUME TreeInv, SnapshotInv
  PROVE  Closed(disk) /\ Visible(disk) = disk /\ DurablyCommitted = Outputs(disk)
<1>1. disk \in Trees /\ log \in Seq(Changes)
  BY DEF TreeInv
<1>2. Snapshot(0) = disk
  BY <1>1, AppliedFirstNone, TreeType DEF Snapshot
<1>3. Closed(disk)
  BY <1>2 DEF SnapshotInv, Safe
<1>4. Visible(disk) = disk
  BY <1>1, <1>3, VisibleClosed
<1> QED
  BY <1>3, <1>4 DEF DurablyCommitted, Outputs

(* With an empty log all snapshots are the tree. *)
LEMMA NothingToLose ==
  ASSUME TreeInv, J!JournalInv, log = << >>, disk = tree
  PROVE  SnapshotInv /\ DurablyCommitted = J!Committed
<1>1. tree \in Trees /\ IsFunction(tree) /\ Closed(tree)
  BY TreeTyped
<1>2. ASSUME NEW n \in Nat PROVE Snapshot(n) = tree
  <2>1. First(<< >>, n) = << >>
    BY DEF First
  <2> QED
    BY <1>1, <2>1, AppliedNone DEF Snapshot
<1>3. DurablyCommitted = J!Committed
  <2>1. Visible(tree) = tree
    BY <1>1, VisibleClosed
  <2> QED
    BY <2>1, TreeIsSafe DEF DurablyCommitted, Outputs
<1> QED
  BY <1>2, <1>3, TreeIsSafe DEF SnapshotInv

AllWritten ==
  TreeInv /\ J!JournalInv /\ log = << >> /\ disk = tree =>
    SnapshotInv /\ DurablyCommitted = J!Committed

(* Whenever the log is empty. *)
LEMMA AllWrittenAlways == AllWritten
BY NothingToLose DEF AllWritten

(* And in the next state. *)
LEMMA AllWrittenNext == AllWritten'
BY AllWrittenAlways, PTL

(* Directories that are made on the way are empty: nothing that is there   *)
(* or to be replayed changes with them.                                    *)
LEMMA MakingDirs ==
  ASSUME TreeInv, J!JournalInv, NEW r \in RunIds, DOMAIN dirs \subseteq {r},
         NEW u, Grown(tree, u, DirsOf({r}))
  PROVE  Closed(u) /\ Sound(DirsIn(u)) /\ Outputs(u) = J!Committed
<1>1. tree \in Trees /\ Closed(tree) /\ live = LiveIn(tree) /\ dirs = DirsIn(tree)
  BY TreeTyped DEF TreeInv, TypeOK
<1>2. /\ Closed(u) /\ LiveIn(u) = live
      /\ RunDir(r) \in DOMAIN u => DirsIn(u) = Put(dirs, r, DirIn(tree, r))
      /\ RunDir(r) \notin DOMAIN u => DirsIn(u) = dirs
  BY <1>1, GrownShows DEF Grown
<1>3. J!TypeOK /\ JP!TypeOK /\ JP!JournalAssumption
  BY SameState, JournalAssumed DEF TreeInv, TypeOK
<1>4. CASE DirsIn(u) = dirs
  BY <1>2, <1>4, SoundDirs DEF Outputs, J!Committed, J!JournalInv
<1>5. CASE DirsIn(u) # dirs
  <2>1. PICK d : d = DirIn(tree, r)
    OBVIOUS
  <2>2. PICK ds : ds = DirsIn(u)
    OBVIOUS
  <2>3. ds = Put(dirs, r, d)
    BY <1>2, <1>5, <2>1, <2>2
  <2>4. r \notin DOMAIN dirs
    <3>1. SUFFICES ASSUME r \in DOMAIN dirs PROVE Put(dirs, r, d) = dirs
      BY <1>5, <2>2, <2>3
    <3>2. dirs[r] = d
      BY <1>1, <2>1, <3>1, DirOfIn
    <3>3. PICK ds0 : ds0 = dirs
      OBVIOUS
    <3>4. IsFunction(ds0) /\ r \in DOMAIN ds0 /\ ds0[r] = d
      <4>1. dirs = [s \in DOMAIN dirs |-> dirs[s]]
        BY <1>3, Zenon DEF J!TypeOK
      <4> QED
        BY <3>1, <3>2, <3>3, <4>1 DEF IsFunction
    <3>5. Put(ds0, r, d) = ds0
      <4>1. DOMAIN ds0 \cup {r} = DOMAIN ds0
        BY <3>4
      <4>2. ASSUME NEW s \in DOMAIN ds0
            PROVE  ds0[s] = IF s = r THEN d ELSE ds0[s]
        BY <3>4
      <4> QED
        BY <3>4, <4>1, <4>2 DEF Put, IsFunction
    <3> QED
      BY <3>3, <3>5
  <2>5. d = [files |-> << >>, plan |-> NoPlan, ready |-> FALSE]
    BY <1>1, <2>1, <2>4, DirOfIn, NoDirNoFiles
  <2>6. DOMAIN dirs = {}
    BY <2>4
  <2>7. DOMAIN ds = {r} /\ ds[r] = d
    BY <2>3, <2>6 DEF Put
  <2>8. Sound(ds)
    BY <2>5, <2>7 DEF Sound
  <2>9. live \in JP!Partial(Files, Contents)
    BY <1>3 DEF JP!TypeOK
  <2>10. J!Replayed(live, ds) = live
    BY <2>5, <2>7, <2>9, <1>3, JP!ReplayingNothing, SameReplay
  <2>11. J!Replayed(live, dirs) = live
    BY <2>6, <2>9, <1>3, JP!ReplayingNothing, SameReplay
  <2> QED
    BY <1>2, <2>2, <2>8, <2>10, <2>11 DEF Outputs, J!Committed
<1> QED
  BY <1>4, <1>5

(* A batch of changes: wherever a power loss cuts it off, what is left     *)
(* stands for the outputs before it or for those after it.                 *)
LEMMA ChangeSnapshots ==
  ASSUME TreeInv, J!JournalInv, SnapshotInv, (TreeInv /\ J!JournalInv)',
         NEW changes, NEW due, Change(changes, due), NEW r \in RunIds, Batch(changes, r),
         DOMAIN dirs \subseteq {r},
         UNCHANGED J!Committed \/ log = << >>
  PROVE  SnapshotInv' /\ DurablyCommitted' = DurablyCommitted
<1>1. /\ tree' = Applied(tree, changes) /\ log' = log \o changes /\ disk' = disk
      /\ tree = Applied(disk, log) /\ disk \in Trees /\ log \in Seq(Changes)
      /\ changes \in Seq(Changes) /\ Len(changes) \in Nat /\ Len(log) \in Nat
  BY DEF Change, Batch, TreeInv, TypeOK
<1>2. DurablyCommitted' = DurablyCommitted
  BY <1>1 DEF DurablyCommitted
<1>3. DurablyCommitted = Outputs(disk)
  BY DiskIsSafe
<1>4. log = << >> => disk = tree /\ DurablyCommitted = J!Committed
  <2>1. Applied(disk, << >>) = disk
    BY <1>1, AppliedNone, TreeType
  <2> QED
    BY <1>1, <2>1, NothingToLose
<1>5. Closed(tree') /\ Sound(DirsIn(tree')) /\ Outputs(tree') = J!Committed'
  BY SafeTreeNext DEF SafeTree
<1>6. ASSUME NEW n \in Nat
      PROVE  \E s : /\ s = Applied(disk', First(log', n))
                    /\ Closed(s) /\ Sound(DirsIn(s))
                    /\ Outputs(s) \in {DurablyCommitted, J!Committed'}
  <2>1. CASE n <= Len(log)
    <3>1. Applied(disk', First(log', n)) = Snapshot(n)
      BY <1>1, <2>1, AppliedFirstConcat DEF Snapshot
    <3>2. Safe(Snapshot(n))
      BY DEF SnapshotInv
    <3>3. log = << >> => Snapshot(n) = disk
      <4>1. log = << >> => n = 0
        BY <2>1
      <4> QED
        BY <1>1, <4>1, AppliedFirstNone, TreeType DEF Snapshot
    <3> QED
      BY <1>3, <3>1, <3>2, <3>3 DEF Safe
  <2>2. CASE n > Len(log)
    <3>1. PICK m \in Nat : m = n - Len(log)
      <4>1. PICK k \in Nat : k = Len(log)
        BY <1>1
      <4>2. n - k \in Nat
        BY <2>2, <4>1
      <4> QED
        BY <4>1, <4>2
    <3>2. Applied(disk', First(log', n)) = Applied(tree, First(changes, m))
      BY <1>1, <2>2, <3>1, AppliedFirstConcat
    <3>3. CASE m < Len(changes)
      <4>1. PICK u : u = Applied(tree, First(changes, m))
        OBVIOUS
      <4>2. Grown(tree, u, DirsOf({r}))
        BY <3>3, <4>1 DEF Batch
      <4>3. Closed(u) /\ Sound(DirsIn(u)) /\ Outputs(u) = J!Committed
        BY <4>2, MakingDirs
      <4> QED
        BY <1>4, <3>2, <4>1, <4>3
    <3>4. CASE m >= Len(changes)
      <4>1. First(changes, m) = changes
        BY <1>1, <3>4, FirstType
      <4> QED
        BY <1>1, <1>5, <3>2, <4>1
    <3> QED
      BY <1>1, <3>3, <3>4
  <2> QED
    BY <1>1, <2>1, <2>2
<1>7. SnapshotInv'
  BY <1>2, <1>6 DEF SnapshotInv, Safe, Snapshot
<1> QED
  BY <1>2, <1>7

(* Who works on a run directory knows that it is the only one. *)
LEMMA OnlyDir ==
  ASSUME J!JournalInv, NEW a \in J!Actors
  PROVE  /\ pc[a] = "prepare" => DOMAIN dirs = {}
         /\ pc[a] \in {"stage", "plan", "ready", "replace", "clean", "discard"} =>
              DOMAIN dirs \subseteq {run[a]}
BY DEF J!JournalInv, J!ActorInv, J!StageInv, J!ExecuteInv

(* With one service process there is one active actor at most. *)
LEMMA AloneHere ==
  ASSUME J!TypeOK, J!JournalInv, NEW a \in J!Actors, pc[a] # "idle", NEW b \in J!Actors, b # a
  PROVE  pc[b] = "idle"
<1>1. JP!TypeOK /\ JP!JournalInv
  BY SameState
<1>2. a \in JP!Actors /\ b \in JP!Actors
  BY DEF J!Actors, JP!Actors
<1> QED
  BY <1>1, <1>2, OneProcess, JournalAssumed, JP!Alone DEF JP!JournalInv, JP!Active

(* The journal's invariant survives every step but a power loss. *)
LEMMA JournalKept ==
  ASSUME TreeInv, J!JournalInv, [Next]_vars, ~PowerLoss
  PROVE  J!JournalInv' /\ [J!Next]_(J!vars)
BY OneProcess, JournalSteps, JournalStep DEF TreeInv, TypeOK

(* While an actor works that does not write READY, the outputs-to-be do    *)
(* not change.                                                             *)
LEMMA CommittedKept ==
  ASSUME TreeInv, J!JournalInv, [J!Next]_(J!vars), NEW a \in J!Actors, pc[a] \notin {"idle", "ready"}
  PROVE  UNCHANGED J!Committed
<1>1. JP!TypeOK /\ JP!JournalInv /\ [JP!Next]_(JP!vars) /\ J!TypeOK
  BY SameState, SameSteps DEF TreeInv, TypeOK
<1>2. UNCHANGED JP!Committed \/ \E b \in JP!Actors : JP!MarkReady(b)
  BY <1>1, OneProcess, JournalAssumed, JP!CommittedStep
<1>3. ASSUME NEW b \in JP!Actors, JP!MarkReady(b)
      PROVE  FALSE
  <2>1. pc[b] = "ready" /\ b \in J!Actors
    BY <1>3 DEF JP!MarkReady, JP!Actors, J!Actors
  <2> QED
    BY <1>1, <2>1, AloneHere
<1>4. J!Committed = JP!Committed
  BY SameOutputs DEF SameOutput
<1>5. J!Committed' = JP!Committed'
  BY SameOutputsNext DEF SameOutput
<1> QED
  BY <1>2, <1>3, <1>4, <1>5

(* A power loss leaves a journal that stands for the outputs that were     *)
(* durable or for those that were committed.                               *)
LEMMA PowerLossJournal ==
  ASSUME Filesystem = "journal", TreeInv, SnapshotInv, PowerLoss
  PROVE  J!JournalInv' /\ J!Committed' \in {DurablyCommitted, J!Committed}
<1>1. PICK kept \in Survivals : tree' = Visible(Applied(disk, Only(kept)))
  BY DEF PowerLoss
<1>2. PICK n \in Nat : kept = 1..n
  <2>1. Len(log) \in Nat
    BY DEF TreeInv
  <2> QED
    BY <2>1 DEF Survivals
<1>3. PICK t \in Trees : t = Applied(disk, Only(kept))
  BY SurvivingPart
<1>4. t = Snapshot(n)
  BY <1>2, <1>3 DEF Snapshot, Only, First
<1>5. Closed(t) /\ Sound(DirsIn(t)) /\ Outputs(t) \in {DurablyCommitted, J!Committed}
  BY <1>4 DEF SnapshotInv, Safe
<1>6. tree' = t
  BY <1>1, <1>3, <1>5, VisibleClosed
<1>7. live' = LiveIn(t) /\ dirs' = DirsIn(t)
  BY <1>6 DEF PowerLoss
<1>8. J!Committed' = Outputs(t)
  BY <1>7 DEF J!Committed, Outputs
<1>9. J!DirsInv'
  BY <1>5, <1>7, SoundDirsNext
<1>10. J!LockInv' /\ \A a \in J!Actors : J!ActorInv(a)'
  <2>1. /\ lock' = Nobody
        /\ svc' = [p \in Procs |-> "down"]
        /\ pc' = [a \in J!Actors |-> "idle"]
    BY DEF PowerLoss
  <2>2. Nobody \notin Threads
    BY JournalConstants DEF J!JournalAssumption, J!Actors
  <2>3. J!LockInv'
    BY <2>1, <2>2 DEF J!LockInv, J!Active, J!Actors
  <2>4. ASSUME NEW a \in J!Actors PROVE J!ActorInv(a)'
    BY <2>1 DEF J!ActorInv
  <2> QED
    BY <2>3, <2>4
<1> QED
  BY <1>5, <1>8, <1>9, <1>10 DEF J!JournalInv

(* A step that changes the tree is the step of one actor. *)
LEMMA ChangeSeals ==
  ASSUME TreeInv, J!JournalInv, SealInv, NEW a \in J!Actors, pc[a] # "idle",
         \A b \in J!Actors \ {a} : pc'[b] = pc[b] /\ own'[b] = own[b],
         pc'[a] = "ready" /\ dirty' = NoDir => log' = << >>,
         own'[a] => pc'[a] \in {"stage", "plan", "ready", "commit", "execute", "replace", "clean"},
         own'[a] /\ pc'[a] \in {"commit", "execute", "replace", "clean"} /\ dirty' = NoDir =>
           DurablyCommitted' = J!Committed'
  PROVE  SealInv'
<1>1. ASSUME NEW b \in J!Actors \ {a}
      PROVE  pc'[b] = "idle" /\ ~own'[b]
  <2>1. pc[b] = "idle"
    BY AloneHere DEF TreeInv, TypeOK
  <2> QED
    BY <2>1 DEF SealInv
<1> QED
  BY <1>1 DEF SealInv

(* No directory an fsync is for is NoDir. *)
LEMMA DueDirs ==
  /\ \A r \in RunIds : RunDir(r) # NoDir
  /\ \A f \in Files : Front(LivePath(f)) # NoDir
<1>1. \A r \in RunIds : RunDir(r) \in Seq(Names)
  BY RunDirAt
<1>2. ASSUME NEW f \in Files PROVE Front(LivePath(f)) \in Seq(Names)
  <2>1. LivePath(f) \in Paths
    BY FilePathsType DEF FilePaths, LivePaths, Known
  <2> QED
    BY <2>1, FrontAt
<1> QED
  BY <1>1, <1>2, DurableAssumption

(* A sealing run: READY is written with nothing in the log.                *)
LEMMA MarkReadyStep ==
  ASSUME DurableInv, NEW a \in J!Actors, MarkReady(a), (TreeInv /\ J!JournalInv)'
  PROVE  DurableInv' /\ UNCHANGED DurablyCommitted
<1>1. pc[a] = "ready" /\ dirty = NoDir /\ log = << >>
  BY DEF MarkReady, DurableInv, SealInv
<1>2. PICK changes : Change(changes, RunDir(run[a])) /\ Batch(changes, run[a]) /\ run[a] \in RunIds
  BY MarkReadyBatch DEF DurableInv
<1>3. SnapshotInv' /\ DurablyCommitted' = DurablyCommitted
  BY <1>1, <1>2, OnlyDir, ChangeSnapshots DEF DurableInv
<1>4. dirty' # NoDir
  BY <1>2, DueDirs DEF Change
<1>5. /\ pc' = [pc EXCEPT ![a] = "commit"] /\ own' = own /\ acked' = FALSE
      /\ pc \in [J!Actors -> J!Labels]
  BY DEF MarkReady, J!MarkReady, J!Goto, J!memory, DurableInv, TreeInv, TypeOK, J!TypeOK
<1>6. SealInv'
  BY <1>1, <1>4, <1>5, ChangeSeals DEF DurableInv
<1> QED
  BY <1>3, <1>5, <1>6 DEF DurableInv, AckInv

(* The other steps that change the tree leave the outputs-to-be alone.     *)
LEMMA OtherChangeStep ==
  ASSUME DurableInv, NEW a \in J!Actors, [Next]_vars, ~PowerLoss, (TreeInv /\ J!JournalInv)',
         pc[a] \notin {"idle", "ready"},
         NEW changes, NEW due, Change(changes, due),
         NEW r \in RunIds, Batch(changes, r), DOMAIN dirs \subseteq {r},
         \A b \in J!Actors \ {a} : pc'[b] = pc[b] /\ own'[b] = own[b],
         pc'[a] # "ready" \/ due # NoDir,
         own'[a] => pc'[a] \in {"stage", "plan", "ready", "commit", "execute", "replace", "clean"},
         own'[a] /\ pc'[a] \in {"commit", "execute", "replace", "clean"} /\ due = NoDir =>
           DurablyCommitted = J!Committed,
         acked' => acked \/ DurablyCommitted = J!Committed
  PROVE  DurableInv' /\ UNCHANGED <<DurablyCommitted, J!Committed>>
<1>1. UNCHANGED J!Committed
  BY JournalKept, CommittedKept DEF DurableInv
<1>2. SnapshotInv' /\ DurablyCommitted' = DurablyCommitted
  BY <1>1, ChangeSnapshots DEF DurableInv
<1>3. dirty' = due
  BY DEF Change
<1>4. SealInv'
  BY <1>1, <1>2, <1>3, ChangeSeals DEF DurableInv
<1>5. AckInv'
  BY <1>1, <1>2 DEF DurableInv, AckInv
<1> QED
  BY <1>1, <1>2, <1>4, <1>5 DEF DurableInv

(* Every step that changes the tree keeps the invariant, and the durable   *)
(* outputs, which are up to the disk.                                      *)
LEMMA DurableChangeStep ==
  ASSUME DurableInv, NEW a \in J!Actors, [Next]_vars, ~PowerLoss, (TreeInv /\ J!JournalInv)',
         \/ \E r \in RunIds : BeginRun(a, r)
         \/ \E f \in Files, c \in Contents : StageFile(a, f, c)
         \/ WritePlan(a) \/ Replace(a) \/ RemoveEntry(a) \/ RemoveDir(a)
  PROVE  DurableInv' /\ UNCHANGED <<DurablyCommitted, J!Committed>>
<1>1. /\ TreeInv /\ J!JournalInv /\ SealInv /\ acked \in BOOLEAN
      /\ pc \in [J!Actors -> J!Labels] /\ own \in [J!Actors -> BOOLEAN]
  BY DEF DurableInv, TreeInv, TypeOK, J!TypeOK
<1>2. ASSUME NEW r \in RunIds, BeginRun(a, r)
      PROVE  DurableInv' /\ UNCHANGED <<DurablyCommitted, J!Committed>>
  <2>1. /\ pc[a] = "prepare" /\ pc' = [pc EXCEPT ![a] = "stage"]
        /\ own' = [own EXCEPT ![a] = TRUE] /\ acked' = acked
    BY <1>2 DEF BeginRun, J!BeginRun, J!Goto
  <2>2. PICK changes : Change(changes, NoDir) /\ Batch(changes, r)
    BY <1>1, <1>2, BeginRunBatch
  <2>3. DOMAIN dirs \subseteq {r}
    BY <1>1, <2>1, OnlyDir
  <2> QED
    BY <1>1, <2>1, <2>2, <2>3, OtherChangeStep
<1>3. ASSUME NEW f \in Files, NEW c \in Contents, StageFile(a, f, c)
      PROVE  DurableInv' /\ UNCHANGED <<DurablyCommitted, J!Committed>>
  <2>1. /\ pc[a] = "stage" /\ pc' = [pc EXCEPT ![a] = IF f = CheckpointFile THEN "plan" ELSE "stage"]
        /\ own' = own /\ acked' = acked
    BY <1>3 DEF StageFile, J!StageFile, J!Goto
  <2>2. PICK changes : /\ Change(changes, Front(StagedPath(run[a], f)))
                       /\ Batch(changes, run[a]) /\ run[a] \in RunIds
    BY <1>1, <1>3, StageFileBatch
  <2>3. DOMAIN dirs \subseteq {run[a]}
    BY <1>1, <2>1, OnlyDir
  <2> QED
    BY <1>1, <2>1, <2>2, <2>3, OtherChangeStep
<1>4. CASE WritePlan(a)
  <2>1. /\ pc[a] = "plan" /\ pc' = [pc EXCEPT ![a] = "ready"]
        /\ own' = own /\ acked' = acked
    BY <1>4 DEF WritePlan, J!WritePlan, J!Goto, J!memory
  <2>2. PICK changes : Change(changes, RunDir(run[a])) /\ Batch(changes, run[a]) /\ run[a] \in RunIds
    BY <1>1, <1>4, WritePlanBatch
  <2>3. DOMAIN dirs \subseteq {run[a]} /\ RunDir(run[a]) # NoDir
    BY <1>1, <2>1, <2>2, OnlyDir, DueDirs
  <2> QED
    BY <1>1, <2>1, <2>2, <2>3, OtherChangeStep
<1>5. CASE Replace(a)
  <2>1. /\ pc[a] = "replace" /\ pc' = [pc EXCEPT ![a] = "execute"]
        /\ own' = own /\ acked' = acked
    BY <1>5 DEF Replace, J!Replace, J!Goto
  <2>2. PICK changes : /\ Change(changes, Front(LivePath(Head(steps[a]))))
                       /\ Batch(changes, run[a]) /\ run[a] \in RunIds
    BY <1>1, <1>5, ReplaceBatch
  <2>3. DOMAIN dirs \subseteq {run[a]} /\ Front(LivePath(Head(steps[a]))) # NoDir
    <3>1. Head(steps[a]) \in Files
      BY <1>1, <2>1 DEF TreeInv, TypeOK, J!TypeOK
    <3> QED
      BY <1>1, <2>1, <3>1, OnlyDir, DueDirs
  <2> QED
    BY <1>1, <2>1, <2>2, <2>3, OtherChangeStep
<1>6. CASE RemoveEntry(a)
  <2>1. pc[a] \in {"clean", "discard"} /\ pc' = pc /\ own' = own /\ acked' = acked
    BY <1>6 DEF RemoveEntry, J!Removing, J!RemoveStaged, J!RemovePlan, J!RemoveReady, J!memory, journal
  <2>2. PICK changes : Change(changes, NoDir) /\ Batch(changes, run[a]) /\ run[a] \in RunIds
    BY <1>1, <1>6, RemoveEntryBatch
  <2>3. DOMAIN dirs \subseteq {run[a]}
    BY <1>1, <2>1, OnlyDir
  <2>4. dirty = NoDir
    BY <1>6 DEF RemoveEntry, Unlink
  <2>5. own[a] => DurablyCommitted = J!Committed /\ pc[a] = "clean"
    BY <1>1, <2>1, <2>4 DEF SealInv
  <2> QED
    BY <1>1, <2>1, <2>2, <2>3, <2>5, OtherChangeStep
<1>7. CASE RemoveDir(a)
  <2>1. /\ pc[a] \in {"clean", "discard"} /\ acked' = (acked \/ own[a])
        /\ \/ pc' = [pc EXCEPT ![a] = "idle"] /\ own' = [own EXCEPT ![a] = FALSE]
           \/ ~own[a] /\ pc' = [pc EXCEPT ![a] = "resume"] /\ own' = own
    BY <1>7 DEF RemoveDir, J!RemoveDir, J!Removing, J!Removed, J!Leave, J!Goto, J!memory
  <2>2. PICK changes : Change(changes, NoDir) /\ Batch(changes, run[a]) /\ run[a] \in RunIds
    BY <1>1, <1>7, RemoveDirBatch
  <2>3. DOMAIN dirs \subseteq {run[a]}
    BY <1>1, <2>1, OnlyDir
  <2>4. dirty = NoDir
    BY <1>7 DEF RemoveDir, Unlink
  <2>5. own[a] => DurablyCommitted = J!Committed
    BY <1>1, <2>1, <2>4 DEF SealInv
  <2>6. \A b \in J!Actors \ {a} : pc'[b] = pc[b] /\ own'[b] = own[b]
    BY <1>1, <2>1
  <2>7. pc'[a] # "ready" /\ ~own'[a]
    BY <1>1, <2>1
  <2>8. acked' => acked \/ DurablyCommitted = J!Committed
    BY <2>1, <2>5
  <2> QED
    BY <1>1, <2>1, <2>2, <2>3, <2>6, <2>7, <2>8, OtherChangeStep
<1> QED
  BY <1>2, <1>3, <1>4, <1>5, <1>6, <1>7

(* After an error, a crash or a power loss nobody owns a run. *)
LEMMA NobodySeals ==
  ASSUME \A a \in J!Actors : pc'[a] = "idle" /\ ~own'[a]
  PROVE  SealInv'
BY DEF SealInv

(* Steps that change no entry keep the invariant.                          *)
LEMMA DurableStillStep ==
  ASSUME DurableInv, Think \/ Abort \/ UNCHANGED vars, (TreeInv /\ J!JournalInv)'
  PROVE  DurableInv' /\ UNCHANGED <<DurablyCommitted, J!Committed>>
<1>1. /\ TreeInv /\ J!JournalInv /\ SealInv
      /\ pc \in [J!Actors -> J!Labels] /\ own \in [J!Actors -> BOOLEAN]
  BY DEF DurableInv, TreeInv, TypeOK, J!TypeOK
<1>2. UNCHANGED <<live, dirs, tree, disk, log, acked>>
  BY <1>1, StillStep DEF TreeInv, TypeOK
<1>3. UNCHANGED <<DurablyCommitted, J!Committed>>
  BY <1>2 DEF DurablyCommitted, J!Committed
<1>4. SnapshotInv' /\ AckInv'
  BY <1>2, <1>3 DEF DurableInv, SnapshotInv, Safe, Snapshot, AckInv
<1>5. ASSUME NEW a \in J!Actors, dirty = NoDir, dirty' = NoDir,
             \A b \in J!Actors \ {a} : pc'[b] = pc[b] /\ own'[b] = own[b],
             \/ pc'[a] = "idle" /\ ~own'[a]
             \/ own'[a] = own[a] /\ pc[a] \notin {"stage", "plan", "ready", "commit", "execute", "replace", "clean"}
                /\ pc'[a] # "ready"
             \/ own'[a] = own[a] /\ pc[a] \in {"commit", "execute"} /\ pc'[a] \in {"execute", "replace", "clean"}
      PROVE  SealInv'
  <2>1. ASSUME NEW b \in J!Actors
        PROVE  /\ pc'[b] = "ready" /\ dirty' = NoDir => log' = << >>
               /\ own'[b] => pc'[b] \in {"stage", "plan", "ready", "commit", "execute", "replace", "clean"}
               /\ own'[b] /\ pc'[b] \in {"commit", "execute", "replace", "clean"} /\ dirty' = NoDir =>
                    DurablyCommitted' = J!Committed'
    <3>1. CASE b = a
      BY <1>1, <1>3, <1>5, <3>1 DEF SealInv
    <3>2. CASE b # a
      BY <1>1, <1>2, <1>3, <1>5, <3>2 DEF SealInv
    <3> QED
      BY <3>1, <3>2
  <2> QED
    BY <2>1 DEF SealInv
<1>6. ASSUME NEW a \in J!Actors, NEW status, J!Leave(a, status)
      PROVE  /\ pc'[a] = "idle" /\ ~own'[a]
             /\ \A b \in J!Actors \ {a} : pc'[b] = pc[b] /\ own'[b] = own[b]
  BY <1>1, <1>6 DEF J!Leave, J!Goto
<1>7. ASSUME Think
      PROVE  SealInv'
  <2>1. dirty = NoDir /\ dirty' = NoDir
    BY <1>7 DEF Think, Quiet, NoChange
  <2>2. ASSUME NEW a \in J!Actors, NEW label, J!Goto(a, label)
        PROVE  pc'[a] = label /\ \A b \in J!Actors \ {a} : pc'[b] = pc[b]
    BY <1>1, <2>2 DEF J!Goto
  <2>3. ASSUME NEW p \in Procs, J!Boot(p)
        PROVE  SealInv'
    <3>1. p \in J!Actors /\ pc[p] = "idle" /\ own' = own
      BY <1>1, <2>3 DEF J!Boot, J!Actors, J!memory, J!JournalInv, J!LockInv, J!Active
    <3>2. pc'[p] = "scan" /\ \A b \in J!Actors \ {p} : pc'[b] = pc[b]
      BY <2>2, <2>3, <3>1 DEF J!Boot
    <3> QED
      BY <1>5, <2>1, <3>1, <3>2
  <2>4. ASSUME NEW t \in Threads, J!Acquire(t)
        PROVE  SealInv'
    <3>1. t \in J!Actors /\ pc[t] = "idle" /\ own' = own
      BY <2>4 DEF J!Acquire, J!Actors, J!memory
    <3>2. pc'[t] = "scan" /\ \A b \in J!Actors \ {t} : pc'[b] = pc[b]
      BY <2>2, <2>4, <3>1 DEF J!Acquire
    <3> QED
      BY <1>5, <2>1, <3>1, <3>2
  <2>5. ASSUME NEW a \in J!Actors, J!Sweep(a)
        PROVE  SealInv'
    <3>1. CASE J!Scan(a)
      <4>1. pc[a] = "scan" /\ own' = own /\ pc'[a] = "resume" /\ \A b \in J!Actors \ {a} : pc'[b] = pc[b]
        BY <2>2, <3>1 DEF J!Scan
      <4> QED
        BY <1>5, <2>1, <4>1
    <3>2. ASSUME NEW r, J!ResumeReady(a, r) \/ J!ResumeDiscard(a, r)
          PROVE  SealInv'
      <4>1. /\ pc[a] = "resume" /\ own' = own /\ pc'[a] \in {"execute", "discard"}
            /\ \A b \in J!Actors \ {a} : pc'[b] = pc[b]
        BY <2>2, <3>2 DEF J!ResumeReady, J!ResumeDiscard
      <4> QED
        BY <1>5, <2>1, <4>1
    <3>3. CASE J!ResumeDone(a)
      <4>1. CASE J!Leave(a, "serving")
        BY <1>5, <1>6, <2>1, <4>1
      <4>2. CASE J!Goto(a, "prepare") /\ UNCHANGED J!memory
        <5>1. own' = own /\ pc'[a] = "prepare" /\ \A b \in J!Actors \ {a} : pc'[b] = pc[b]
          BY <2>2, <4>2 DEF J!memory
        <5> QED
          BY <1>5, <2>1, <3>3, <5>1 DEF J!ResumeDone
      <4> QED
        BY <3>3, <4>1, <4>2 DEF J!ResumeDone
    <3> QED
      BY <2>5, <3>1, <3>2, <3>3 DEF J!Sweep
  <2>6. ASSUME NEW a \in J!Actors, J!ReturnDry(a) \/ J!Raise(a)
        PROVE  SealInv'
    BY <1>5, <1>6, <2>1, <2>6 DEF J!ReturnDry, J!Raise
  <2>7. ASSUME NEW a \in J!Actors, J!Commit(a) \/ J!CheckStaged(a) \/ J!ExecuteDone(a)
        PROVE  SealInv'
    <3>1. /\ pc[a] \in {"commit", "execute"} /\ own' = own
          /\ pc'[a] \in {"execute", "replace", "clean"} /\ \A b \in J!Actors \ {a} : pc'[b] = pc[b]
      BY <2>2, <2>7 DEF J!Commit, J!CheckStaged, J!ExecuteDone, J!memory
    <3> QED
      BY <1>5, <2>1, <3>1
  <2>8. ASSUME NEW a \in J!Actors, J!SkipStep(a)
        PROVE  SealInv'
    BY <1>5, <2>1, <2>8 DEF J!SkipStep
  <2> QED
    BY <1>7, <2>3, <2>4, <2>5, <2>6, <2>7, <2>8 DEF Think, Quiet
<1>8. ASSUME Abort
      PROVE  SealInv'
  <2>1. ASSUME NEW a \in J!Actors, J!OSError(a)
        PROVE  SealInv'
    <3>1. pc[a] # "idle"
      BY <2>1 DEF J!OSError
    <3>2. \A b \in J!Actors \ {a} : pc[b] = "idle" /\ ~own[b]
      <4>1. \A b \in J!Actors \ {a} : pc[b] = "idle"
        BY <1>1, <3>1, AloneHere DEF TreeInv, TypeOK
      <4> QED
        BY <1>1, <4>1 DEF SealInv
    <3>3. \A b \in J!Actors : pc'[b] = "idle" /\ ~own'[b]
      BY <1>6, <2>1, <3>2 DEF J!OSError
    <3> QED
      BY <3>3, NobodySeals
  <2>2. ASSUME NEW p \in Procs, J!Crash(p)
        PROVE  SealInv'
    <3>1. \A b \in J!Actors : b \in J!Killed(p)
      BY OneProcess, JournalConstants DEF J!Killed, J!Actors, J!SingleInstance, J!JournalAssumption
    <3>2. \A b \in J!Actors : pc'[b] = "idle" /\ ~own'[b]
      BY <2>2, <3>1 DEF J!Crash
    <3> QED
      BY <3>2, NobodySeals
  <2> QED
    BY <1>8, <2>1, <2>2 DEF Abort
<1>9. ASSUME UNCHANGED vars
      PROVE  SealInv'
  <2>1. pc' = pc /\ own' = own /\ dirty' = dirty /\ log' = log
    BY <1>9 DEF vars, journal
  <2> QED
    BY <1>1, <1>3, <2>1 DEF SealInv
<1>10. SealInv'
  BY <1>7, <1>8, <1>9
<1> QED
  BY <1>3, <1>4, <1>10 DEF DurableInv

(* When all changes are on the disk, so are the outputs. *)
LEMMA FlushStep ==
  ASSUME DurableInv, (TreeInv /\ J!JournalInv)', Fsync \/ WriteBack, disk' = tree, log' = << >>
  PROVE  /\ DurableInv'
         /\ DurablyCommitted' = J!Committed' /\ UNCHANGED <<J!Committed, J!Offered>>
<1>1. UNCHANGED <<journal, tree, acked>>
  BY DEF Fsync, WriteBack
<1>2. SnapshotInv' /\ DurablyCommitted' = J!Committed'
  BY <1>1, AllWrittenNext DEF AllWritten
<1>3. UNCHANGED <<J!Committed, J!Offered>>
  BY <1>1 DEF journal, J!Committed, J!Offered
<1>4. SealInv'
  BY <1>1, <1>2 DEF DurableInv, SealInv, journal
<1> QED
  BY <1>2, <1>3, <1>4 DEF DurableInv, AckInv

(* A power loss takes the outputs back to the durable ones, or makes those *)
(* that were committed durable.                                            *)
LEMMA DurablePowerLoss ==
  ASSUME Filesystem = "journal", DurableInv, PowerLoss
  PROVE  /\ DurableInv'
         /\ DurablyCommitted' = J!Committed'
         /\ J!Committed' \in {DurablyCommitted, J!Committed}
<1>1. J!JournalInv' /\ J!Committed' \in {DurablyCommitted, J!Committed}
  BY PowerLossJournal DEF DurableInv
<1>2. TreeInv'
  BY PowerLossStep DEF DurableInv
<1>3. SnapshotInv' /\ DurablyCommitted' = J!Committed'
  <2>1. (log = << >> /\ disk = tree)'
    BY DEF PowerLoss
  <2> QED
    BY <1>1, <1>2, <2>1, AllWrittenNext DEF AllWritten
<1>4. SealInv'
  BY NobodySeals DEF PowerLoss
<1> QED
  BY <1>1, <1>2, <1>3, <1>4 DEF DurableInv, AckInv

(* A step of a disk that writes directory changes in order: it commits a   *)
(* run, or makes all outputs durable, or loses a run that is not durable,  *)
(* or leaves the durable outputs and those to be as they are.              *)
LEMMA DurableStep ==
  ASSUME Filesystem = "journal", DurableInv, [Next]_vars
  PROVE  /\ DurableInv'
         /\ \/ /\ UNCHANGED DurablyCommitted /\ [J!Next]_(J!vars)
               /\ UNCHANGED J!Committed \/ ~acked'
            \/ DurablyCommitted' = J!Committed' /\ UNCHANGED <<J!Committed, J!Offered>>
            \/ /\ DurablyCommitted' = J!Committed'
               /\ J!Committed' \in {DurablyCommitted, J!Committed} /\ acked' = acked
<1>1. CASE PowerLoss
  BY <1>1, DurablePowerLoss DEF PowerLoss
<1>2. CASE ~PowerLoss
  <2>1. (TreeInv /\ J!JournalInv)' /\ [J!Next]_(J!vars)
    BY <1>2, TreeStep, JournalKept DEF DurableInv
  <2>2. ASSUME NEW a \in J!Actors,
               \/ \E r \in RunIds : BeginRun(a, r)
               \/ \E f \in Files, c \in Contents : StageFile(a, f, c)
               \/ WritePlan(a) \/ Replace(a) \/ RemoveEntry(a) \/ RemoveDir(a)
        PROVE  DurableInv' /\ UNCHANGED <<DurablyCommitted, J!Committed>>
    BY <1>2, <2>1, <2>2, DurableChangeStep
  <2>3. ASSUME NEW a \in J!Actors, MarkReady(a)
        PROVE  DurableInv' /\ UNCHANGED DurablyCommitted /\ ~acked'
    BY <2>1, <2>3, MarkReadyStep DEF MarkReady
  <2>4. CASE Think \/ Abort \/ UNCHANGED vars
    BY <2>1, <2>4, DurableStillStep
  <2>5. CASE Fsync \/ WriteBack
    <3>1. disk' = tree /\ log' = << >>
      BY <2>5, FsyncStep DEF DurableInv, WriteBack
    <3> QED
      BY <2>1, <2>5, <3>1, FlushStep
  <2> QED
    BY <1>2, <2>1, <2>2, <2>3, <2>4, <2>5 DEF Next
<1> QED
  BY <1>1, <1>2

(* The service starts with nothing to lose. *)
LEMMA DurableInit ==
  Init => DurableInv /\ J!Committed = << >> /\ J!Offered = << >> /\ DurablyCommitted = << >>
<1>1. SUFFICES ASSUME Init
      PROVE DurableInv /\ J!Committed = << >> /\ J!Offered = << >> /\ DurablyCommitted = << >>
  OBVIOUS
<1>2. TreeInv
  BY <1>1, TreeInit
<1>3. J!JournalInv
  <2>1. JP!Init
    BY <1>1 DEF Init, J!Init, JP!Init, J!Actors, JP!Actors
  <2> QED
    BY <2>1, JournalAssumed, JP!InvInit, SameState
<1>4. SnapshotInv /\ DurablyCommitted = J!Committed
  BY <1>1, <1>2, <1>3, NothingToLose DEF Init
<1>5. live = << >> /\ dirs = << >> /\ pc = [a \in J!Actors |-> "idle"] /\ own = [a \in J!Actors |-> FALSE]
  BY <1>1 DEF Init, J!Init
<1>6. SealInv /\ AckInv
  BY <1>1, <1>5 DEF SealInv, AckInv, Init
<1>7. DOMAIN << >> = {}
  OBVIOUS
<1>8. J!Committed = << >>
  BY <1>5, <1>7 DEF J!Committed, J!Replayed
<1>9. J!Offered = << >>
  BY <1>5, <1>7 DEF J!Offered, J!OfferedBy
<1> QED
  BY <1>2, <1>3, <1>4, <1>6, <1>8, <1>9 DEF DurableInv

(* In every reachable state of a service on such a disk the invariant      *)
(* holds.                                                                  *)
THEOREM DurableInvariant ==
  ASSUME Filesystem = "journal"
  PROVE  Spec => []DurableInv
<1>1. Init => DurableInv
  BY DurableInit
<1>2. DurableInv /\ [Next]_vars => DurableInv'
  BY DurableStep
<1> QED
  BY <1>1, <1>2, PTL DEF Spec

(* "After a rename, fsync the parent directory so the directory entry      *)
(* change reaches disk" (fs.py): once a run has returned, no crash, error, *)
(* sweep or power loss changes the outputs until the next run is sealed.   *)
THEOREM AcknowledgedHolds ==
  ASSUME Filesystem = "journal"
  PROVE  Spec => Acknowledged
<1>1. Spec => []DurableInv
  BY DurableInvariant
<1>2. DurableInv /\ [Next]_vars => [acked /\ acked' => J!Committed' = J!Committed]_vars
  <2>1. SUFFICES ASSUME DurableInv, [Next]_vars, acked, acked' PROVE J!Committed' = J!Committed
    OBVIOUS
  <2>2. DurablyCommitted = J!Committed
    BY <2>1 DEF DurableInv, AckInv
  <2> QED
    BY <2>1, <2>2, DurableStep
<1> QED
  BY <1>1, <1>2, PTL DEF Spec, Acknowledged

(* "If we crash after it, every prior rename necessarily completed"        *)
(* (commit.py), of power losses: whatever part of the log has reached the  *)
(* disk, the outputs are those of whole runs, and a power loss takes back  *)
(* the last run or nothing.                                                *)
THEOREM DurableAtomicHolds ==
  ASSUME Filesystem = "journal"
  PROVE  Spec => DurableAtomic
<1>1. Spec => []DurableInv
  BY DurableInvariant
<1>2. Init => D!Init
  BY DurableInit DEF D!Init, D!A!Init
<1>3. DurableInv /\ DurableInv' /\ [Next]_vars => D!Next
  <2>1. SUFFICES ASSUME DurableInv, DurableInv', [Next]_vars PROVE D!Next
    OBVIOUS
  <2>2. CASE UNCHANGED DurablyCommitted /\ [J!Next]_(J!vars)
    <3>1. JP!TypeOK /\ JP!JournalInv /\ [JP!Next]_(JP!vars)
      BY <2>1, <2>2, SameState, SameSteps DEF DurableInv, TreeInv, TypeOK
    <3>2. D!A!Next
      BY <3>1, OneProcess, JournalAssumed, JP!AtomicStep, SameAtomicSteps
    <3> QED
      BY <2>2, <3>2 DEF D!Next
  <2>3. CASE DurablyCommitted' = J!Committed' /\ UNCHANGED <<J!Committed, J!Offered>>
    BY <2>3 DEF D!Next, D!Flush
  <2>4. CASE DurablyCommitted' = J!Committed' /\ J!Committed' \in {DurablyCommitted, J!Committed}
    <3>1. J!Offered' \in D!Partial(Files, Contents)
      <4>1. JP!TypeOK'
        BY <2>1, SameStateNext DEF DurableInv, TreeInv, TypeOK
      <4>2. JP!OfferedBy(dirs') \in JP!A!Partial(Files, Contents)
        BY <4>1, JournalAssumed, JP!OfferType DEF JP!TypeOK
      <4>3. J!Offered' = JP!Offered'
        BY SameOutputsNext DEF SameOutput
      <4> QED
        BY <4>2, <4>3 DEF JP!Offered, JP!A!Partial, D!Partial
    <3> QED
      BY <2>4, <3>1 DEF D!Next, D!PowerLoss
  <2> QED
    BY <2>1, <2>2, <2>3, <2>4, DurableStep
<1> QED
  BY <1>1, <1>2, <1>3, PTL DEF Spec, DurableAtomic, D!Spec
=============================================================================
