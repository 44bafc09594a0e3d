SPECIFICATION Spec
CONSTANTS
  NTasks = 1
  Deps <- Independent
  MaxExec = 2
  MaxParallel = 2
  TokenCeiling = 2
  MaxUse = 0
  MaxCopies = 1
  Prompts = {p1}
  NoPrompt = NoPrompt
  Dispositions = {}
  WallRunsOut = FALSE
  Callers = {"core"}
  Duties <- AnyDuty
INVARIANT ChildHasItsAttempt
