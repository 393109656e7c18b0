\* A reset that is interrupted while a READY run is pending.
CONSTANTS
  p1 = p1
  customers = customers
  Procs = {p1}
  Threads = {t1}
  ProcOf <- FirstProcess
  Nobody = nobody
  NoRun = noRun
  NoPlan = noPlan
  TableSpecs <- OneTable
  DayOf <- Days
  MaxTime = 2
  MaxPk = 1
  MaxTorn = 1
  Discipline = "keys"
SPECIFICATION ResetSpec
INVARIANT CheckpointNeverAhead
