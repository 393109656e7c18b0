\* One process and one row; resets that are interrupted up to twice in a row.
CONSTANTS
  p1 = p1
  customers = customers
  Procs = {p1}
  Threads = {t1}
  ProcOf <- FirstProcess
  Nobody = nobody
  NoRun = noRun
  NoPlan = noPlan
  TableSpecs <- OneTable
  DayOf <- Days
  MaxTime = 1
  MaxPk = 1
  MaxTorn = 2
  Discipline = "keys"
SPECIFICATION FairResetSpec
INVARIANTS ResetStaysBehind ResetRestores
PROPERTY ChangesDeliveredAnew
