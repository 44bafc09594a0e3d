SPECIFICATION Spec
CONSTANTS
  NTasks = 1
  MaxExec = 2
  MaxTrees = 2
  Touches = 1
  MaxHead = 2
  Callers = {"core"}
  Cleaner = "core"
  Nobody = Nobody
INVARIANTS
  RemovalIsSafe CleanupIsTruthful BlockedHasEvidence
