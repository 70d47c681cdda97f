CONSTANTS
  s1 = s1  s2 = s2  r1 = r1  r2 = r2  b1 = b1
  Session = {s1}
  Run = {r1}
  Act = {b1}
  Tool <- SharedKey
  Command <- Plain
  Config <- SilentConfig
  Policy <- ShellDenied
  MaxLearnt = 1
  MaxCrashes = 0
SPECIFICATION Spec
INVARIANT ManualSessionsPause
