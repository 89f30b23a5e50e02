CONSTANTS
  Offerer = Offerer
  Answerer = Answerer
  Cap = 2
  Budgets <- MCBudgets
  MaxArrivals <- MCMaxArrivals
SPECIFICATION FairSpec
INVARIANTS TypeOK EarlyKept RttTrue
PROPERTIES ImplementsChannel FollowsGame
CHECK_DEADLOCK FALSE
