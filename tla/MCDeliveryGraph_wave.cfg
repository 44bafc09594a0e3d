SPECIFICATION Spec
CONSTANTS
  NTasks = 2
  Deps <- Independent
  MaxExec = 2
  MaxParallel = 2
  TokenCeiling = 2
  MaxUse = 2
  MaxCopies = 1
  Prompts = {p1}
  NoPrompt = NoPrompt
  Dispositions = {}
  WallRunsOut = TRUE
  Callers = {"core"}
  Duties <- AnyDuty
INVARIANTS TaskMirrorsLatestAttempt BudgetConserved PauseExact IntegrationChain
