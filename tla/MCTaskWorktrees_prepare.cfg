SPECIFICATION Spec
CONSTANTS
  NTasks = 1
  MaxExec = 2
  MaxTrees = 2
  Touches = 0
  MaxHead = 1
  Callers = {"core", "late"}
  Cleaner = "core"
  Nobody = Nobody
INVARIANTS
  TypeOK NoTwins OneRunPerWorktree CleanedMeansGone
