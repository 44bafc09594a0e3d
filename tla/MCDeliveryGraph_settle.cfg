SPECIFICATION Spec
CONSTANTS
  NTasks = 4
  Deps <- Fork
  MaxExec = 2
  MaxParallel = 3
  TokenCeiling = 3
  MaxUse = 0
  MaxCopies = 1
  Prompts = {}
  NoPrompt = NoPrompt
  Dispositions = {}
  WallRunsOut = FALSE
  Callers = {"core", "child"}
  Duties <- SettlingDuties
INVARIANTS IntegrationChain DependencyBase ConflictFence
