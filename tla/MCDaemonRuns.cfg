CONSTANTS
  r1 = r1  r2 = r2  r3 = r3  s1 = s1  s2 = s2
  NoRun = NoRun
  Run <- Runs3
  Session = {s1, s2}
  SessionOf <- TwoSessions
  MaxSteps = 1
  MaxCrashes = 1
  OneAtATime = FALSE
  SignalAware = TRUE
SPECIFICATION AnsweredSpec
INVARIANTS TypeOK TableSound
PROPERTIES PollerSeesOutcome
