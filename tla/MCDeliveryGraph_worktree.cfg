SPECIFICATION Spec
CONSTANTS
  NTasks = 2
  Deps <- Independent
  MaxExec = 2
  MaxParallel = 2
  TokenCeiling = 2
  MaxUse = 0
  MaxCopies = 1
  Prompts = {}
  NoPrompt = NoPrompt
  Dispositions = {}
  WallRunsOut = FALSE
  Callers = {"core", "child"}
  Duties <- LoopDuties
INVARIANT WorktreeAtBase
