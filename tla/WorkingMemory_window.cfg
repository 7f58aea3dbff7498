SPECIFICATION Spec
CONSTANTS
  Call = {c1, c2}
  Tokens <- RoleTokens
  BudgetTokens = 6
  FixedTokens = 1
  TurnTokens = {1, 6}
  MaxTurns = 3
  MaxSteps = 1
  MaxLives = 2
SYMMETRY Symmetry
CHECK_DEADLOCK FALSE
INVARIANTS
  TypeOK
  PreflightFits
  ResultsKeepMeta
PROPERTIES
  OrphanedOnlyAlone
  TrimMatchesLoop
