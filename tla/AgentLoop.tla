------------------------------ MODULE AgentLoop ------------------------------
(***************************************************************************)
(* One run of the agent: runTask() of packages/agent/src/loop.ts with its  *)
(* stages intake, plan, execute, judge and repair, auto-replan and review, *)
(* the model-and-tool turns these consist of, and the test-and-fix cycle   *)
(* of codeTestDebug.ts.  run.cancel can come at any moment: from then on   *)
(* every model call throws, except in a run of the CLI delegate, which     *)
(* does not look at the signal; tools and tests are never given it.        *)
(***************************************************************************)
EXTENDS Integers, Sequences, FiniteSets

CONSTANTS
  MaxPlan,           \* bound: steps of one plan
  MaxCalls,          \* bound: tool calls of one response
  MAX_TOOL_TURNS,    \* model calls of an ordinary turn
  SubAgentSteps,     \* model calls of a sub-agent's turn (its step budget)
  MAX_ATTEMPTS,      \* runs of the test command for one code step
  MAX_REPAIR,        \* repairs of one step (MAX_REPAIR_ATTEMPTS)
  MAX_REPLAN         \* auto-replans of one run (MAX_AUTO_REPLAN_ATTEMPTS)

ASSUME LoopAssumption ==
  /\ MaxPlan \in Nat \ {0}
  /\ MaxCalls \in Nat \ {0}
  /\ MAX_TOOL_TURNS \in Nat \ {0}
  /\ SubAgentSteps \in Nat \ {0}
  /\ MAX_ATTEMPTS \in Nat \ {0}
  /\ MAX_REPAIR \in Nat
  /\ MAX_REPLAN \in Nat

Step == [kind : {"tool", "code"}, route : {"tool", "subagent"}]
Plans == UNION {[1..n -> Step] : n \in 1..MaxPlan}

VARIABLES
  runMode,     \* ctx.mode
  signalAware, \* the provider passes the signal on; the CLI delegate does not
  pc,        \* the stage the run is at
  plan,      \* the steps of the plan, or of the corrective plan
  index,     \* the step of plan that is executed
  round,     \* how many auto-replans have been planned
  results,   \* stepResults: ok, and whether the step ended with a flaw
  before,    \* how many of them are older than the corrective plan
  turn,      \* the model-and-tool turn: whose, model calls, tool calls left, blocked
  ok,        \* result.ok of the step
  attempt,   \* runs of the test command of the step
  verdicts,  \* verdicts on the step
  aborted,   \* run.cancel has come
  outcome,   \* "passed" or "failed" of the review, "thrown" if runTask() threw
  flaw,      \* history: what has gone wrong in the step and is not made good
  late       \* history: tool calls and tests run after the cancel

step == <<turn, ok, attempt, verdicts, flaw>>
loopVars == <<runMode, signalAware, pc, plan, index, round, results, before, step, aborted,
          outcome, late>>

Owners == {"step", "subagent", "fix", "repair"}
NoTurn == [of |-> "step", calls |-> 0, left |-> 0, blocked |-> FALSE, exhausted |-> FALSE]
Turn == [of : Owners, calls : Nat, left : 0..MaxCalls, blocked : BOOLEAN, exhausted : BOOLEAN]
TurnOf(owner) == [NoTurn EXCEPT !.of = owner]

(* A call declined in somebody's turn, or the step's failure. *)
Flaws == Owners \cup {"failed"}

Result == [ok : BOOLEAN, flaw : BOOLEAN]
Stages == {"intake", "clarify", "plan", "route", "turn", "tools", "turned", "test",
           "executed", "judge", "question", "replan", "review", "end"}

LoopTypeOK ==
  /\ runMode \in {"manual", "auto"}
  /\ signalAware \in BOOLEAN
  /\ pc \in Stages
  /\ plan \in Seq(Step)
  /\ index \in Nat
  /\ round \in 0..MAX_REPLAN
  /\ results \in Seq(Result)
  /\ before \in Nat
  /\ turn \in Turn
  /\ ok \in BOOLEAN
  /\ attempt \in 0..MAX_ATTEMPTS
  /\ verdicts \in 0..(MAX_REPAIR + 1)
  /\ aborted \in BOOLEAN
  /\ outcome \in {"none", "passed", "failed", "thrown"}
  /\ flaw \subseteq Flaws
  /\ late \in Nat

LoopInit ==
  /\ runMode \in {"manual", "auto"}
  /\ signalAware \in BOOLEAN
  /\ pc = "intake"
  /\ plan = <<>> /\ index = 0 /\ round = 0
  /\ results = <<>> /\ before = 0
  /\ turn = NoTurn /\ ok = TRUE /\ attempt = 0 /\ verdicts = 0
  /\ aborted = FALSE /\ outcome = "none"
  /\ flaw = {} /\ late = 0

Current == plan[index]
Goto(stage) == pc' = stage

(* What a stage leaves alone. *)
RunKept ==
  UNCHANGED <<runMode, signalAware, plan, index, round, results, before, aborted, outcome>>
HistoryKept == UNCHANGED late
WorkDone == late' = late + (IF aborted THEN 1 ELSE 0)

(* A model call goes out, unless its provider sees the aborted signal. *)
ModelIsCalled == ~(signalAware /\ aborted)

-----------------------------------------------------------------------------
(* Intake and plan. *)

(* A request of fewer than three characters is asked about first. *)
Intake ==
  /\ pc = "intake"
  /\ Goto("plan") \/ Goto("clarify")
  /\ RunKept /\ HistoryKept /\ UNCHANGED step

Clarified ==
  /\ pc = "clarify"
  /\ Goto("plan")
  /\ RunKept /\ HistoryKept /\ UNCHANGED step

(* planner(): whatever the model answers is made a plan of one step or more. *)
MakePlan(p) ==
  /\ pc = "plan"
  /\ ModelIsCalled
  /\ plan' = p
  /\ index' = 1
  /\ Goto("route")
  /\ UNCHANGED <<runMode, signalAware, round, results, before, step, aborted, outcome>> /\ HistoryKept

-----------------------------------------------------------------------------
(* Executing a step. *)

(* The next step of the plan starts with a turn of the model or a sub-agent. *)
Route ==
  /\ pc = "route"
  /\ index <= Len(plan)
  /\ turn' = TurnOf(IF Current.route = "subagent" THEN "subagent" ELSE "step")
  /\ ok' = TRUE
  /\ attempt' = 0
  /\ verdicts' = 0
  /\ flaw' = {}
  /\ Goto("turn")
  /\ RunKept /\ HistoryKept

Limit == IF turn.of = "subagent" THEN SubAgentSteps ELSE MAX_TOOL_TURNS

(* What a response does to its turn: it ends it, or wants n tool calls. *)
Responds(n) ==
  /\ turn' = [turn EXCEPT !.calls = @ + 1, !.left = n,
                          !.exhausted = n > 0 /\ turn.calls + 1 >= Limit]
  /\ Goto(IF n = 0 THEN "turned" ELSE "tools")

(* Mutant: the signal is not passed to the provider. *)
ModelCall_NoSignal ==
  /\ pc = "turn"
  /\ \E n \in 0..MaxCalls : (signalAware \/ n = 0) /\ Responds(n)
  /\ RunKept /\ HistoryKept /\ UNCHANGED <<ok, attempt, verdicts, flaw>>

(* A model call.  The CLI delegate runs its own tools and asks for none. *)
ModelCall ==
  /\ pc = "turn"
  /\ ModelIsCalled
  /\ \E n \in 0..MaxCalls : (signalAware \/ n = 0) /\ Responds(n)
  /\ RunKept /\ HistoryKept /\ UNCHANGED <<ok, attempt, verdicts, flaw>>

(* The next tool call of the response: it runs, is declined, or its tool is  *)
(* not known.  After the last one the model is called again, if the turn     *)
(* allows.  A result that is not ok is told to the model and noted.          *)
RunTool(fate) ==
  /\ pc = "tools"
  /\ turn' = [turn EXCEPT !.left = @ - 1, !.blocked = @ \/ fate = "declined"]
  /\ flaw' = IF fate = "declined" THEN flaw \cup {turn.of} ELSE flaw
  /\ Goto(IF turn.left > 1 THEN "tools" ELSE IF turn.exhausted THEN "turned" ELSE "turn")
  /\ IF fate = "runs" THEN WorkDone ELSE HistoryKept
  /\ RunKept /\ UNCHANGED <<ok, attempt, verdicts>>

(* The turn of an ordinary step: that it was exhausted is not looked at. *)
StepTurnEnds ==
  /\ pc = "turned"
  /\ turn.of = "step"
  /\ ok' = ~turn.blocked
  /\ attempt' = IF Current.kind = "code" THEN 1 ELSE 0
  /\ Goto(IF Current.kind = "code" THEN "test" ELSE "executed")
  /\ RunKept /\ HistoryKept /\ UNCHANGED <<turn, verdicts, flaw>>

(* Mutant: a sub-agent that ran out of its budget counts as done. *)
SubAgentEnds_NoBudget(overTokens) ==
  /\ pc = "turned"
  /\ turn.of = "subagent"
  /\ ok' = ~turn.blocked
  /\ flaw' = IF turn.exhausted \/ overTokens THEN flaw \cup {"failed"} ELSE flaw
  /\ Goto("executed")
  /\ RunKept /\ HistoryKept /\ UNCHANGED <<turn, attempt, verdicts>>

(* spawnSubAgent(): its budgets of steps and of tokens count. *)
SubAgentEnds(overTokens) ==
  /\ pc = "turned"
  /\ turn.of = "subagent"
  /\ ok' = (~turn.blocked /\ ~turn.exhausted /\ ~overTokens)
  /\ flaw' = IF turn.exhausted \/ overTokens THEN flaw \cup {"failed"} ELSE flaw
  /\ Goto("executed")
  /\ RunKept /\ HistoryKept /\ UNCHANGED <<turn, attempt, verdicts>>

(* A sub-agent that throws, on a cancel too, is a failed step. *)
SubAgentThrows ==
  /\ pc \in {"turn", "tools"}
  /\ turn.of = "subagent"
  /\ ok' = FALSE
  /\ flaw' = flaw \cup {"failed"}
  /\ Goto("executed")
  /\ RunKept /\ HistoryKept /\ UNCHANGED <<turn, attempt, verdicts>>

(* codeTestDebug(): the test command passes, and makes good what the fix    *)
(* turns before it were not allowed to do.                                  *)
TestPasses ==
  /\ pc = "test"
  /\ flaw' = flaw \ {"fix"}
  /\ Goto("executed")
  /\ WorkDone
  /\ RunKept /\ UNCHANGED <<turn, ok, attempt, verdicts>>

(* It fails: a fix turn of the model, or the attempts are used up. *)
TestFails ==
  /\ pc = "test"
  /\ flaw' = IF attempt = MAX_ATTEMPTS THEN flaw \cup {"failed"} ELSE flaw
  /\ IF attempt = MAX_ATTEMPTS
     THEN ok' = FALSE /\ Goto("executed") /\ UNCHANGED turn
     ELSE turn' = TurnOf("fix") /\ Goto("turn") /\ UNCHANGED ok
  /\ WorkDone
  /\ RunKept /\ UNCHANGED <<attempt, verdicts>>

FixTurnEnds ==
  /\ pc = "turned"
  /\ turn.of = "fix"
  /\ attempt' = attempt + 1
  /\ Goto("test")
  /\ RunKept /\ HistoryKept /\ UNCHANGED <<turn, ok, verdicts, flaw>>

-----------------------------------------------------------------------------
(* judgeAndRepair(). *)

(* The step's result goes to the list and the next step is up. *)
Record(isOk, hasFlaw) ==
  /\ results' = Append(results, [ok |-> isOk, flaw |-> hasFlaw])
  /\ index' = index + 1
  /\ Goto("route")
  /\ UNCHANGED <<runMode, signalAware, plan, round, before, aborted, outcome>>

(* Only a step that went well is judged. *)
Executed ==
  /\ pc = "executed"
  /\ \/ ok /\ Goto("judge") /\ RunKept
     \/ ~ok /\ Record(ok, flaw # {})
  /\ HistoryKept /\ UNCHANGED step

(* A good verdict is about the output as the repairs have left it. *)
Good ==
  /\ pc = "judge"
  /\ ModelIsCalled
  /\ verdicts' = verdicts + 1
  /\ Record(ok, flaw \ {"repair"} # {})
  /\ HistoryKept /\ UNCHANGED <<turn, ok, attempt, flaw>>

(* Mutant: the repairs are not counted. *)
Bad_Uncounted ==
  /\ pc = "judge"
  /\ ModelIsCalled
  /\ turn' = TurnOf("repair")
  /\ Goto("turn")
  /\ RunKept /\ HistoryKept /\ UNCHANGED <<ok, attempt, verdicts, flaw>>

(* Mutant: one repair more than MAX_REPAIR. *)
Bad_OffByOne ==
  /\ pc = "judge"
  /\ ModelIsCalled
  /\ verdicts' = verdicts + 1
  /\ IF verdicts > MAX_REPAIR
     THEN Goto("question") /\ UNCHANGED turn
     ELSE turn' = TurnOf("repair") /\ Goto("turn")
  /\ RunKept /\ HistoryKept /\ UNCHANGED <<ok, attempt, flaw>>

(* A bad verdict: repair, or, after MAX_REPAIR repairs, ask the user. *)
Bad ==
  /\ pc = "judge"
  /\ ModelIsCalled
  /\ verdicts' = verdicts + 1
  /\ IF verdicts >= MAX_REPAIR
     THEN Goto("question") /\ UNCHANGED turn
     ELSE turn' = TurnOf("repair") /\ Goto("turn")
  /\ RunKept /\ HistoryKept /\ UNCHANGED <<ok, attempt, flaw>>

RepairTurnEnds ==
  /\ pc = "turned"
  /\ turn.of = "repair"
  /\ Goto("judge")
  /\ RunKept /\ HistoryKept /\ UNCHANGED step

(* "Kabul et" and "Elle düzelt" keep the step, "İptal" fails it. *)
Answered(cancel) ==
  /\ pc = "question"
  /\ Record(ok /\ ~cancel, cancel \/ flaw \ {"repair"} # {})
  /\ HistoryKept /\ UNCHANGED step

-----------------------------------------------------------------------------
(* The plan is through: auto-replan, review. *)

PlanThrough == pc = "route" /\ index > Len(plan)
Corrective == {k \in DOMAIN results : k > before}

(* Mutant: one corrective step that went well resolves the failed ones. *)
Resolved_Some ==
  IF round > 0 /\ \E k \in Corrective : results[k].ok
  THEN [k \in DOMAIN results |-> [results[k] EXCEPT !.ok = TRUE]]
  ELSE results

(* The corrective steps, if all went well, resolve the failed ones. *)
Resolved ==
  IF round > 0 /\ \A k \in Corrective : results[k].ok
  THEN [k \in DOMAIN results |-> [results[k] EXCEPT !.ok = TRUE]]
  ELSE results

Unresolved == {k \in DOMAIN results : ~Resolved[k].ok}
WantsReplan == runMode = "auto" /\ round < MAX_REPLAN /\ Unresolved # {}

(* runAutoReplan() plans corrective steps, in auto mode. *)
Replan(p) ==
  /\ PlanThrough
  /\ WantsReplan
  /\ ModelIsCalled
  /\ plan' = p
  /\ index' = 1
  /\ round' = round + 1
  /\ before' = Len(results)
  /\ UNCHANGED <<runMode, signalAware, pc, results, step, aborted, outcome>> /\ HistoryKept

(* review: every step's result must be ok. *)
Review ==
  /\ PlanThrough
  /\ ~WantsReplan
  /\ results' = Resolved
  /\ outcome' = IF \A k \in DOMAIN results : results'[k].ok THEN "passed" ELSE "failed"
  /\ Goto("end")
  /\ UNCHANGED <<runMode, signalAware, plan, index, round, before, step, aborted>> /\ HistoryKept

-----------------------------------------------------------------------------
(* A model call throws, on a provider error or because its signal is        *)
(* aborted, or a tool does.  Nobody catches it before runMessage(), a       *)
(* sub-agent's excepted.                                                    *)
Throws ==
  /\ \/ pc \in {"plan", "judge"}
     \/ pc \in {"turn", "tools"} /\ turn.of # "subagent"
     \/ PlanThrough /\ WantsReplan
  /\ outcome' = "thrown"
  /\ Goto("end")
  /\ UNCHANGED <<runMode, signalAware, plan, index, round, results, before, step, aborted>> /\ HistoryKept

Cancel ==
  /\ pc # "end"
  /\ ~aborted
  /\ aborted' = TRUE
  /\ UNCHANGED <<runMode, signalAware, pc, plan, index, round, results, before, step, outcome>>
  /\ HistoryKept

Ended == pc = "end" /\ UNCHANGED loopVars

Turns ==
  \/ ModelCall \/ StepTurnEnds \/ SubAgentThrows \/ FixTurnEnds \/ RepairTurnEnds
  \/ \E fate \in {"runs", "declined", "unknown"} : RunTool(fate)
  \/ \E over \in BOOLEAN : SubAgentEnds(over)

Stage ==
  \/ Intake \/ Clarified \/ Route \/ TestPasses \/ TestFails \/ Executed \/ Good \/ Bad
  \/ \E p \in Plans : MakePlan(p) \/ Replan(p)
  \/ \E cancel \in BOOLEAN : Answered(cancel)
  \/ Review \/ Throws

LoopNext == Turns \/ Stage \/ Cancel \/ Ended

LoopSpec == LoopInit /\ [][LoopNext]_loopVars

(* The event loop runs every continuation, tools and model calls end, and   *)
(* whoever is asked answers.                                                *)
FairLoopSpec == LoopSpec /\ WF_loopVars(Turns \/ Stage)

-----------------------------------------------------------------------------
(* Properties. *)

(* A review that passes hides nothing: no step has behind it a call declined *)
(* in its own or its sub-agent's turn, a test that failed to the end, an     *)
(* exhausted budget, a crash of its sub-agent or the user's "İptal"; a call   *)
(* declined in a fix turn was followed by a test that passed, one declined   *)
(* in a repair turn by a good verdict or the user's acceptance.  In auto mode *)
(* a corrective plan of which all this is true stands in for the steps       *)
(* before it.  Tools that ran and failed are noted, and no flaw.             *)
PassedMeansClean ==
  outcome = "passed" =>
    \/ \A k \in DOMAIN results : ~results[k].flaw
    \/ /\ runMode = "auto" /\ round > 0
       /\ Corrective # {}
       /\ \A k \in Corrective : ~results[k].flaw

(* The review is about every step of the plan, and of the corrective plan. *)
EveryStepReported ==
  outcome \in {"passed", "failed"} =>
    /\ Len(results) = before + Len(plan)
    /\ runMode = "manual" => before = 0

(* The review tells the truth about the whole run: it is about every step,  *)
(* and passes only a run whose steps, or whose corrective steps, went well  *)
(* (loop.ts:420-443).                                                       *)
ReviewIsTrue == PassedMeansClean /\ EveryStepReported

(* A result once recorded is kept as it is; only failed ones of a run in     *)
(* auto mode turn good, when every corrective step has gone well.            *)
ResultsAreKept ==
  [][/\ DOMAIN results \subseteq DOMAIN results'
     /\ \A k \in DOMAIN results : results'[k] # results[k] =>
          /\ runMode = "auto" /\ round > 0 /\ k <= before
          /\ \A j \in Corrective : results[j].ok]_loopVars

(* After a cancel, a run whose provider sees the signal starts no more than *)
(* the tool calls of the response in hand and one test of the step it is at, *)
(* whatever turns, steps, repairs and plans are left: the next model call    *)
(* throws (loop.ts:118).                                                     *)
CancelStopsWork == signalAware => late <= MaxCalls + 1

(* ARCHITECTURE.md:314, "every model/tool call receives the session           *)
(* AbortSignal; run.cancel aborts cleanly": a cancelled run runs no more      *)
(* tools and tests.  loop.ts:177 and codeTestDebug.ts:43 pass no signal.      *)
CancelReachesTools == signalAware => late = 0

(* Every run ends, with the user declining and the judge rejecting as often  *)
(* as they like.                                                             *)
Terminates == <>(outcome # "none")
=============================================================================
