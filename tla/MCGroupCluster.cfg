SPECIFICATION Spec
SYMMETRY Tasks
CONSTANTS
  Task = {t1, t2, t3}
  None = None
  ThreadsNum = 3
  MaxThread = 2
  MaxPush = 3
CHECK_DEADLOCK FALSE
INVARIANTS
  TypeOK
  BudgetKept
  NoTaskForgotten
PROPERTIES
  ImplementsTaskThreads
