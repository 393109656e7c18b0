\* One process, two request threads, faults at every step and without bound.
CONSTANTS
  p1 = p1
  p2 = p2
  t1 = t1
  t2 = t2
  Procs = {p1}
  Threads = {t1, t2}
  ProcOf <- OneProcess
  RunIds = {r1, r2}
  Files = {lake, share, checkpoint}
  Contents = {old, new}
  CheckpointFile = checkpoint
  Nobody = nobody
  NoRun = noRun
  NoPlan = noPlan
SPECIFICATION FairSpec
INVARIANTS TypeOK OnePendingRun ReadyIsReplayable JournalInv
PROPERTIES CheckpointLast AtomicCommit ReadyRunsCommit
