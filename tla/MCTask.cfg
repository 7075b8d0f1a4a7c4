CONSTANTS
  TASK_MAX_TASKS = 3
  CounterMod = 4
  Budgets = {0, 1, 2, 4}
SPECIFICATION Spec
INVARIANTS
  SchedulerAgreesWithCpu
  ContextSafety
  InterruptFlagIsPrivate
  DispatchesCounted
  BoundedBypass
  FinishedCounted
PROPERTIES
  RunResultHonest
