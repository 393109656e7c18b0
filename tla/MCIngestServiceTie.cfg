\* One process, one table, whose rows may be changed at the watermark's updated_at.
CONSTANTS
  p1 = p1
  p2 = p2
  t1 = t1
  customers = customers
  cases = cases
  Procs = {p1}
  Threads = {t1}
  ProcOf <- FirstProcess
  Nobody = nobody
  NoRun = noRun
  NoPlan = noPlan
  TableSpecs <- OneTable
  DayOf <- Days
  MaxTime = 2
  MaxPk = 2
  Discipline = "clock"
SPECIFICATION FairSpec
INVARIANTS CheckpointNeverAhead
