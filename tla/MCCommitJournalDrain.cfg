\* One process, one request thread, two output files, without symmetry.
CONSTANTS
  p1 = p1
  p2 = p2
  t1 = t1
  t2 = t2
  Procs = {p1}
  Threads = {t1}
  ProcOf <- OneProcess
  RunIds = {r1, r2}
  Files = {lake, checkpoint}
  Contents = {old, new}
  CheckpointFile = checkpoint
  Nobody = nobody
  NoRun = noRun
  NoPlan = noPlan
SPECIFICATION FairSpec
PROPERTY JournalDrains
