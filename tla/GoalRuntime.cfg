CONSTANTS
  Budgets = {0, 1}
  MaxTokens = 2
  MaxPrompts = 1
  MaxSettles = 1
  MaxQueue = 1
  MaxRestarts = 1
SPECIFICATION Spec
INVARIANTS
  StoredMatches
  TokensCounted
  GoalGoesOn
CHECK_DEADLOCK FALSE
