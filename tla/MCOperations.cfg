SPECIFICATION OperationsSpec
CONSTANTS
  Call = {1, 2}
  MaxPieces = 2
  NoId = 0
  Mail = {m1, m2}
  Window = {w1, w2}
  NoMail = NoMail
  NoWindow = NoWindow
  n1 = n1 n2 = n2 q1 = q1 i1 = i1 i2 = i2 i3 = i3
  Skill = {n1, n2}
  Acquisition = {q1}
  Installation = {i1, i2, i3}
  Wanted <- MCWanted
  Allowed = {i1, i2}
  FilesPerSkill = 2
  MaxCrashes = 1
  GoogleCall = {g1, g2}
  MaxTokens = 3
  Timeout = 3
  pA = pA pB = pB tA = tA tB = tB tC = tC
  Editor = {e1, e2}
  Place = {pA, pB}
  Token = {tA, tB, tC}
  Pattern = tC
  Expanded = tB
  Empty = Empty
  Missing = Missing
  FileOp <- MCFileOp
  Fetch = {f1, f2}
  Url = {u1, u2}
  Http = {u1, u2}
  Body = {b1}
  NoRecord = NoRecord
  CutRecord = CutRecord
  App = {a}
  Model = {mod1, mod2}
  Key = {k1}
  NoModel = NoModel
  Unreadable = Unreadable
  MaxAsked = 2
  Daemon = {d1, d2, d3}
  Cli = {c1, c2}
  NoFile = NoFile
  Torn = Torn
  ScreenRun = {s1, s2, s3}
  Mine = {s1, s2}
  MaxText = 2
  MaxTools = 1
  MaxWire = 2
INVARIANTS
  OperationsTypeOK
  CallsSurvive
  CalmMailIsWhole
  SkillsSound
  StoredTokensCanBeRefreshed
  ShellSound
  EditsAreTold
  AnswersAreTheServers
  SettingsHold
  CalmDiscovery
  AnswersAreWhole
CHECK_DEADLOCK FALSE
