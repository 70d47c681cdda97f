CONSTANTS
  MaxPlan = 2
  MaxCalls = 2
  MAX_TOOL_TURNS = 2
  SubAgentSteps = 1
  MAX_ATTEMPTS = 3
  MAX_REPAIR = 2
  MAX_REPLAN = 1
SPECIFICATION LoopSpec
INVARIANT CancelReachesTools
