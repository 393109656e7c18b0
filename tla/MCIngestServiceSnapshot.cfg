\* One process and two tables, every transaction with a later updated_at.
CONSTANTS
  p1 = p1
  p2 = p2
  t1 = t1
  customers = customers
  cases = cases
  Procs = {p1}
  Threads = {t1}
  ProcOf <- FirstProcess
  Nobody = nobody
  NoRun = noRun
  NoPlan = noPlan
  TableSpecs <- TwoTables
  DayOf <- Days
  MaxTime = 2
  MaxPk = 1
  Discipline = "strict"
SPECIFICATION FairSpec
INVARIANTS CheckpointIsACut CutInv
PROPERTIES ImplementsFeed ChangesDelivered
