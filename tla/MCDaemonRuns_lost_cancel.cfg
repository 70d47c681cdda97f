CONSTANTS
  r1 = r1  r2 = r2  r3 = r3  s1 = s1  s2 = s2
  NoRun = NoRun
  Run <- Runs2
  Session = {s1}
  SessionOf <- OneSession
  MaxSteps = 1
  MaxCrashes = 0
  OneAtATime = FALSE
  SignalAware = TRUE
SPECIFICATION Spec
INVARIANT CancelReachesRun
