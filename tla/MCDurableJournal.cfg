\* Directory changes reach the disk in order.
CONSTANTS
  p1 = p1
  lake = lake
  checkpoint = checkpoint
  Procs = {p1}
  Threads = {t1}
  ProcOf <- FirstProcess
  RunIds = {r1}
  Files = {lake, checkpoint}
  Contents = {old, new}
  CheckpointFile = checkpoint
  Nobody = nobody
  NoRun = noRun
  NoPlan = noPlan
  NoDir = noDir
  RelPath <- Paths
  Filesystem = "journal"
  MaxPending = 0
SYMMETRY Symmetry
SPECIFICATION Spec
INVARIANT TypeOK
PROPERTIES DurableAtomic Acknowledged
