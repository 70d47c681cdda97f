CONSTANTS
  s1 = s1  s2 = s2  r1 = r1  r2 = r2  b1 = b1
  Session = {s1, s2}
  Run = {r1}
  Act = {b1}
  Tool <- ManyTools
  Command <- PlainAndDanger
  Config <- GenerousOrStrict
  Policy <- ShellDenied
  MaxLearnt = 1
  MaxCrashes = 1
  Calls <- AllCalls
  MaxPlan = 2
  MaxCalls = 2
  MAX_TOOL_TURNS = 2
  SubAgentSteps = 1
  MAX_ATTEMPTS = 3
  MAX_REPAIR = 2
  MAX_REPLAN = 1
SPECIFICATION AgentSpec
INVARIANTS
  TypeOK
  EngineOrder
  SilentHasBasis
  TeachingIsHeeded
  LoopTypeOK
  ReviewIsTrue
  CancelStopsWork
PROPERTIES
  ResultsAreKept
  RunsTerminate
