SPECIFICATION Spec
CONSTANTS
  AttemptCeiling = 3
  TokenCeiling = 2
  MaxStarts = 2
  MaxChanges = 2
  MaxUse = 1
INVARIANT MatchingRunIsAdoptable
CHECK_DEADLOCK FALSE
