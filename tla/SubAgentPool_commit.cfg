CONSTANTS
  Agent = {a1, a2, a3, a4}
  Coder = {a1, a2, a3}
  Cores = 2
  HasNavigator = TRUE
  Committers = {a2}
  GitTrouble = {a3}
SPECIFICATION PoolSpec
INVARIANT NoCommitDropped
