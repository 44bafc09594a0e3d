SPECIFICATION Spec
CONSTANTS
  NTasks = 1
  Deps <- Independent
  MaxExec = 2
  MaxParallel = 1
  TokenCeiling = 1
  MaxUse = 1
  MaxCopies = 2
  Prompts = {p1}
  NoPrompt = NoPrompt
  Dispositions = {"blocked"}
  WallRunsOut = FALSE
  Callers = {"core", "child"}
  Duties <- RacingDuties
INVARIANTS TypeOK TaskMirrorsLatestAttempt CandidateHasItsRun
PROPERTY AttemptHistoryIsKept
