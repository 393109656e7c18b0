\* A second process boots beside the one that serves.
CONSTANTS
  p1 = p1
  p2 = p2
  t1 = t1
  customers = customers
  cases = cases
  Procs = {p1, p2}
  Threads = {t1}
  ProcOf <- FirstProcess
  Nobody = nobody
  NoRun = noRun
  NoPlan = noPlan
  TableSpecs <- OneTable
  DayOf <- Days
  MaxTime = 1
  MaxPk = 1
  Discipline = "keys"
SPECIFICATION FairSpec
INVARIANTS CheckpointNeverAhead
