--------------------------- MODULE MCConnections ---------------------------
(* Instances of the modules in which somebody waits for an answer.  They    *)
(* share no state, so each behaviour follows one of them, its focus; the    *)
(* others stay in an initial state.                                         *)
EXTENDS PromptRoundTrip, BrowserBridge, McpServers, JudgePanel

VARIABLE focus

CONSTANTS q1, p2, p3, screenA, screenB, h1, h2, h3, s1

\* A question of screen A, and two permissions of screen B, which asks in turn.
MCKindOf == [p \in Prompt |-> IF p = q1 THEN "question" ELSE "permission"]
MCSessionOf == [p \in Prompt |-> IF p = q1 THEN screenA ELSE screenB]
MCServerOf == [h \in Handle |-> s1]

ConnectionsInit ==
  /\ focus \in {"prompt", "bridge", "mcp", "judge"}
  /\ PromptInit /\ BridgeInit /\ McpInit /\ JudgeInit
  /\ focus # "judge" => ~enabled /\ lenses = <<>>

ConnectionsNext ==
  \/ focus = "prompt" /\ PromptNext /\ UNCHANGED <<focus, bridgeVars, mcpVars, judgeVars>>
  \/ focus = "bridge" /\ BridgeNext /\ UNCHANGED <<focus, promptVars, mcpVars, judgeVars>>
  \/ focus = "mcp" /\ McpNext /\ UNCHANGED <<focus, promptVars, bridgeVars, judgeVars>>
  \/ focus = "judge" /\ JudgeNext /\ UNCHANGED <<focus, promptVars, bridgeVars, mcpVars>>

\* The fairness of the four modules, each asked of the behaviours that follow it.
ConnectionsFairness ==
  /\ \A c \in Screen :
       /\ WF_promptVars(focus = "prompt" /\ Respond(c))
       /\ WF_promptVars(focus = "prompt" /\ HandleMessage(c))
       /\ WF_promptVars(focus = "prompt" /\ Redraw(c))
       /\ WF_promptVars(focus = "prompt" /\ \E k \in Kind, x \in Answer : OnRespond(c, k, x))
  /\ \A r \in BrowserCall :
       WF_bridgeVars(focus = "bridge" /\ \E h \in Host : BridgeResponse(h, r))
  /\ \A h \in Host :
       WF_bridgeVars(focus = "bridge" /\ HostExit(h) /\ \A e \in Extension : port[e] # h)
  /\ \A h \in Handle :
       /\ WF_mcpVars(focus = "mcp" /\ Restart(h))
       /\ \A i \in Slot : WF_mcpVars(focus = "mcp" /\ (Connected(h, i) \/ ConnectFails(h, i)))
  /\ WF_judgeVars(focus = "judge" /\ JudgeReturns)
  /\ \A i \in 1..MaxLenses + 1 :
       WF_judgeVars(focus = "judge" /\ i \in Places /\ (JudgeReplies(i) \/ JudgeThrows(i)))

ConnectionsSpec ==
  /\ ConnectionsInit
  /\ [][ConnectionsNext]_<<focus, promptVars, bridgeVars, mcpVars, judgeVars>>
  /\ ConnectionsFairness

ConnectionsTypeOK == PromptTypeOK /\ BridgeTypeOK /\ McpTypeOK
=============================================================================
