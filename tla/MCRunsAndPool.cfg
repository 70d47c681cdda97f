CONSTANTS
  r1 = r1  r2 = r2  r3 = r3  s1 = s1  s2 = s2
  NoRun = NoRun
  Run <- Runs3
  Session = {s1, s2}
  SessionOf <- TwoSessions
  MaxSteps = 1
  MaxCrashes = 1
  OneAtATime = TRUE
  SignalAware = TRUE
  Agent = {a1, a2, a3, a4}
  Coder = {a1, a2, a3}
  Cores = 2
  HasNavigator = TRUE
  Committers = {a2}
  GitTrouble = {a3}
SPECIFICATION RunsAndPoolSpec
INVARIANTS
  RowIsLatestOutcome
  CancelReachesRun
  PoolTypeOK
  SemaphoreSound
  WorkIsFound
PROPERTIES
  ImplementsTaskBoard
  FirstComeFirstServed
  EverySpawnResolves
