CONSTANTS
  Projects = {p1, p2}
  Tasks = {t1, t2, t3}
  BigTasks = {t3}
  Budget <- MCBudget
  MaxU64 = 4  MaxI64 = 3  MaxU16 = 2
  Plans = {l1}
  Holders = {h1}
  None = None
SPECIFICATION Spec
SYMMETRY Interchangeable
INVARIANTS
  TypeOK
  RecoversReportedProject
  OnlyApprovedPlansRun
  BudgetsAreKept
PROPERTIES
  TasksStayInProject
  RecoveredTaskIsOpen
