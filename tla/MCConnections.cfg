SPECIFICATION ConnectionsSpec
CONSTANTS
  q1 = q1 p2 = p2 p3 = p3 screenA = screenA screenB = screenB
  h1 = h1 h2 = h2 h3 = h3 s1 = s1
  Prompt = {q1, p2, p3}
  Screen = {screenA, screenB}
  KindOf <- MCKindOf
  SessionOf <- MCSessionOf
  Serial = {screenB}
  Answer = {yes}
  NoPrompt = NoPrompt
  NoAnswer = NoAnswer
  MaxRequests = 4
  BrowserCall = {r1, r2}
  Checked = {r2}
  Extension = {e1, e2}
  Host = {h1, h2, h3}
  Answering = {h1, h3}
  NoHost = NoHost
  Handle = {g1, g2, broken}
  Server = {s1}
  ServerOf <- MCServerOf
  Broken = {broken}
  AtStartup = {g1}
  NoHandle = NoHandle
  MaxRestartAttempts = 2
  MaxConnects = 3
  MaxClosing = 2
  Lens = {correctness, aesthetics, blank}
  Blank = blank
  Score = {10, 45}
  MaxLenses = 3
INVARIANTS
  ConnectionsTypeOK
  PromptsSound
  BridgesSound
  HandlesSound
  VerdictIsThePanels
PROPERTIES
  SerialPromptAnswered
  BridgeCallsEnd
  BrokenIsGivenUp
  JudgeComesBack
CHECK_DEADLOCK FALSE
