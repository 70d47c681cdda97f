------------------------------- MODULE MCAgent -------------------------------
(* One run of the agent, the decision about one tool call, and the sessions  *)
(* in which such calls are made.  They have no variable in common, so each   *)
(* behaviour follows one of them, its focus; the others stay in an initial   *)
(* state.                                                                    *)
(*                                                                           *)
(* The run has the tests, repairs and corrective plans of the code, and two  *)
(* model calls of a turn instead of 10, one instead of 6 for a sub-agent,    *)
(* each with two tool calls at most.                                         *)
EXTENDS AgentLoop, MCSessionPermissions, MCPermissionDecision

VARIABLE focus

SomeCall == CHOOSE c \in Calls : TRUE
SomeConfig == CHOOSE c \in Config : TRUE

AgentInit ==
  /\ focus \in {"loop", "decision", "sessions"}
  /\ LoopInit /\ Init /\ DecisionInit
  /\ focus # "loop" => runMode = "auto" /\ signalAware
  /\ focus # "decision" => call = SomeCall
  /\ focus # "sessions" => mode = [s \in Session |-> "auto"] /\ config = SomeConfig

AgentNext ==
  \/ focus = "loop" /\ LoopNext /\ UNCHANGED <<focus, vars, decisionVars>>
  \/ focus = "decision" /\ DecideCall /\ UNCHANGED <<focus, loopVars, vars>>
  \/ focus = "decision" /\ Decided /\ UNCHANGED <<focus, loopVars, vars, decisionVars>>
  \/ focus = "sessions" /\ Next /\ UNCHANGED <<focus, loopVars, decisionVars>>

AgentSpec ==
  /\ AgentInit
  /\ [][AgentNext]_<<focus, loopVars, vars, decisionVars>>
  /\ WF_loopVars(focus = "loop" /\ (Turns \/ Stage))

\* Every run of the agent ends.
RunsTerminate == focus = "loop" => Terminates
=============================================================================
