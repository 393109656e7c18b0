\* Directory changes reach the disk only by an fsync of the directory.
CONSTANTS
  p1 = p1
  lake = lake
  checkpoint = checkpoint
  Procs = {p1}
  Threads = {t1}
  ProcOf <- FirstProcess
  RunIds = {r1}
  Files = {lake, checkpoint}
  Contents = {old, new}
  CheckpointFile = checkpoint
  Nobody = nobody
  NoRun = noRun
  NoPlan = noPlan
  NoDir = noDir
  RelPath <- Paths
  Filesystem = "directories"
  MaxPending = 0
SPECIFICATION Spec
PROPERTY DurableAtomic
