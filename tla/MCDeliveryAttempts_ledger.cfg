SPECIFICATION Spec
CONSTANTS
  AttemptCeiling = 2
  TokenCeiling = 2
  MaxStarts = 2
  MaxChanges = 2
  MaxUse = 1
INVARIANTS TypeOK OneRunPerAttempt SuccessorIsRecovery
PROPERTIES TokensChargedOnce LedgerIsKept
CHECK_DEADLOCK FALSE
