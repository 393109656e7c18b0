\* Two processes on one state directory, one request thread each.
CONSTANTS
  p1 = p1
  p2 = p2
  t1 = t1
  t2 = t2
  Procs = {p1, p2}
  Threads = {t1, t2}
  ProcOf <- TwoProcesses
  RunIds = {r1}
  Files = {lake, checkpoint}
  Contents = {new}
  CheckpointFile = checkpoint
  Nobody = nobody
  NoRun = noRun
  NoPlan = noPlan
SPECIFICATION FairSpec
INVARIANT SingleFlight
PROPERTY LockReleased
