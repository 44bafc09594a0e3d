SPECIFICATION LoopSpec
CONSTANTS
  NTasks = 2
  Deps <- Independent
  MaxExec = 2
  MaxParallel = 2
  TokenCeiling = 2
  MaxUse = 0
  MaxCopies = 2
  Prompts = {"q"}
  NoPrompt = NoPrompt
  Dispositions = {"blocked", "exhausted"}
  WallRunsOut = TRUE
  Callers = {"core", "child"}
  Duties <- CoreAndChildren
  AttemptCeiling = 2
  MaxGenerations = 3
  MaxRounds = 1
  Askers = {1}
  Stops = {"stopped"}
INVARIANTS LoopTypeOK DoneIsDelivered ReviewedOnce
PROPERTIES ClosedIsFinal AttemptsAreImplemented DeliveryCloses
CHECK_DEADLOCK FALSE
