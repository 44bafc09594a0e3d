SPECIFICATION Spec
CONSTANTS
  NTasks = 3
  Deps <- Independent
  MaxExec = 2
  MaxParallel = 3
  TokenCeiling = 3
  MaxUse = 0
  MaxCopies = 1
  Prompts = {}
  NoPrompt = NoPrompt
  Dispositions = {}
  WallRunsOut = FALSE
  Callers = {"core"}
  Duties <- AnyDuty
INVARIANT ReplacedBeforeLaterTasks
