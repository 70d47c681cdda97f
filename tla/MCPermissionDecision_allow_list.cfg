CONSTANT Calls <- AllCalls
SPECIFICATION DecisionSpec
INVARIANT AllowListResolvesAsk
CHECK_DEADLOCK FALSE
