---------------------------- MODULE MCOperations ----------------------------
(* Instances of the modules in which an operation meets another one of its  *)
(* kind, a crash or a cut.  They share no state, so each behaviour follows  *)
(* one of them, its focus; the others stay in an initial state.             *)
EXTENDS ToolCallStream, DraftWindows, SkillAcquisition, GoogleTokens,
        ShellRun, FileEdits, WebCache, CliSetup, DaemonDiscovery, RunScreen

VARIABLE focus

CONSTANTS n1, n2, q1, i1, i2, i3, pA, pB, tA, tB, tC

\* Two installations of the skill that is acquired, and a third one of another,
\* which is refused.
MCWanted == [q \in Acquisition \cup Installation |-> IF q = i3 THEN n2 ELSE n1]

MCContent(x, y) == [p \in Place |-> IF p = pA THEN x ELSE y]
MCFileOp ==
  {[kind |-> "read"]} \cup
  {[kind |-> "write", content |-> c] : c \in {MCContent(tA, tB), MCContent(tB, tB)}} \cup
  {[kind |-> "edit", find |-> e[1], replace |-> e[2]] :
     e \in {<<tA, tB>>, <<tB, tA>>, <<tA, tC>>}}

\* What varies between the initial states of a module is fixed where it rests.
AtRest ==
  /\ focus # "stream" => /\ provider = "anthropic" /\ named = {}
                         /\ \A c \in Call : pieces[c] = 0
  /\ focus # "skill" => project = {}
  /\ focus # "web" => url = [f \in Fetch |-> CHOOSE u \in Url : TRUE]
  /\ focus # "setup" => env = NoModel

OperationsInit ==
  /\ focus \in {"stream", "draft", "skill", "google", "shell", "file", "web",
                "setup", "discovery", "screen"}
  /\ StreamInit /\ DraftInit /\ SkillInit /\ GoogleInit /\ ShellInit
  /\ FileInit /\ WebInit /\ SetupInit /\ DiscoveryInit /\ ScreenInit
  /\ AtRest

Follows(f) ==
  /\ focus = f /\ UNCHANGED focus
  /\ f # "stream" => UNCHANGED streamVars
  /\ f # "draft" => UNCHANGED draftVars
  /\ f # "skill" => UNCHANGED skillVars
  /\ f # "google" => UNCHANGED googleVars
  /\ f # "shell" => UNCHANGED shellVars
  /\ f # "file" => UNCHANGED fileVars
  /\ f # "web" => UNCHANGED webVars
  /\ f # "setup" => UNCHANGED setupVars
  /\ f # "discovery" => UNCHANGED discoveryVars
  /\ f # "screen" => UNCHANGED screenVars

OperationsNext ==
  \/ Follows("stream") /\ StreamNext
  \/ Follows("draft") /\ DraftNext
  \/ Follows("skill") /\ SkillNext
  \/ Follows("google") /\ GoogleNext
  \/ Follows("shell") /\ ShellNext
  \/ Follows("file") /\ FileNext
  \/ Follows("web") /\ WebNext
  \/ Follows("setup") /\ SetupNext
  \/ Follows("discovery") /\ DiscoveryNext
  \/ Follows("screen") /\ ScreenNext

OperationsSpec ==
  OperationsInit /\
  [][OperationsNext]_<<focus, streamVars, draftVars, skillVars, googleVars, shellVars,
                       fileVars, webVars, setupVars, discoveryVars, screenVars>>

OperationsTypeOK ==
  /\ DraftTypeOK /\ SkillTypeOK /\ GoogleTypeOK /\ ShellTypeOK
  /\ FileTypeOK /\ WebTypeOK /\ SetupTypeOK /\ DiscoveryTypeOK
=============================================================================
