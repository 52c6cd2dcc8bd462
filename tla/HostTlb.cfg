\* Two threads, one or two processes; two windows of each kind and the kernel's.
SPECIFICATION Spec
CONSTANTS
  t1 = t1
  t2 = t2
  p1 = p1
  p2 = p2
  Threads = {t1, t2}
  Procs = {p1, p2}
  Setups <- MCSetups
  NumWC = 2
  NumUC = 3
  Num4G = 2
  None = none
INVARIANTS
  TypeOK
  IndicesConserved
  AccessReaches
  ProgramsDeliver
CHECK_DEADLOCK FALSE
