---------------------------- MODULE MCRunsAndPool ----------------------------
(* The runs of the daemon, with clients that wait for their run, and the    *)
(* pool of sub-agents that all runs of the process share.  The modules have *)
(* no variable in common, so each behaviour follows one of them, its focus; *)
(* the other stays in its initial state.                                    *)
(*                                                                          *)
(* The pool has four sub-agents, three of them coders, so that with two     *)
(* permits two of them queue; coder a2 commits its work, and git may fail   *)
(* in the worktree of a3.                                                   *)
EXTENDS MCDaemonRuns, SubAgentPool

VARIABLE focus

RunsAndPoolInit == focus \in {"runs", "pool"} /\ Init /\ PoolInit

RunsAndPoolNext ==
  \/ focus = "runs" /\ Next /\ UNCHANGED <<focus, poolVars>>
  \/ focus = "pool" /\ PoolNext /\ UNCHANGED <<focus, vars>>

\* The fairness of AnsweredPoolSpec, asked of the behaviours that follow the pool.
PoolFairness ==
  \A a \in Agent :
    /\ WF_poolVars(focus = "pool" /\ Begin(a))
    /\ SF_poolVars(focus = "pool" /\ EndTurn(a))
    /\ WF_poolVars(focus = "pool" /\ Wrap(a))
    /\ WF_poolVars(focus = "pool" /\ PromptAnswered(a))

RunsAndPoolSpec ==
  RunsAndPoolInit /\ [][RunsAndPoolNext]_<<focus, vars, poolVars>> /\ PoolFairness
=============================================================================
