--------------------------- MODULE AgentLoopProofs ---------------------------
(***************************************************************************)
(* Proofs about AgentLoop, for every bound of plans, turns, tests, repairs *)
(* and corrective plans.  The invariant has five parts, each closed under  *)
(* a step by itself or with the ones before it: the counters (CountInv),   *)
(* where results stand relative to the plan (PlanInv), what a failure in   *)
(* the step at hand has done to its ok (StepInv), the same of the recorded *)
(* results (ResultInv), and how much work a cancelled run can have left    *)
(* (WorkInv).                                                              *)
(***************************************************************************)
EXTENDS AgentLoop, SequenceTheorems, TLAPS

Fates == {"runs", "declined", "unknown"}
TurnStages == {"turn", "tools", "turned"}
StepStages == TurnStages \cup {"test", "executed", "judge", "question"}

(* The counters have room wherever they are counted, up or down. *)
CountInv ==
  /\ pc \in TurnStages /\ turn.of = "fix" => attempt < MAX_ATTEMPTS
  /\ pc \in TurnStages \cup {"test", "executed", "judge"} => verdicts <= MAX_REPAIR
  /\ pc = "tools" => turn.left > 0

(* Every step before the one at hand has its result. *)
PlanInv ==
  /\ pc \in {"intake", "clarify", "plan"} => results = <<>> /\ before = 0 /\ round = 0
  /\ pc \in StepStages \cup {"route"} =>
       /\ index \in 1..(Len(plan) + 1)
       /\ Len(results) = before + index - 1
       /\ Len(plan) > 0
  /\ pc \in StepStages => index <= Len(plan)
  /\ outcome # "none" => pc = "end"
  /\ outcome \in {"passed", "failed"} => Len(results) = before + Len(plan) /\ Len(plan) > 0
  /\ round > 0 => runMode = "auto"
  /\ round = 0 => before = 0

(* A failure in the step at hand has made its ok false, or will when the    *)
(* turn that was blocked ends; what is open otherwise is a call declined in *)
(* a fix turn, while a test is to come, or in a repair turn, while a verdict *)
(* or the user's answer is.                                                 *)
StepInv ==
  /\ pc \in TurnStages /\ turn.of \in {"step", "subagent"} => ok /\ (flaw # {} => turn.blocked)
  /\ pc \in TurnStages /\ turn.of = "fix" => (flaw \subseteq {"fix"} \/ ~ok)
  /\ pc \in TurnStages /\ turn.of = "repair" => ok /\ flaw \subseteq {"repair"}
  /\ pc = "test" => (flaw \subseteq {"fix"} \/ ~ok)
  /\ pc = "executed" => (flaw = {} \/ ~ok)
  /\ pc \in {"judge", "question"} => ok /\ flaw \subseteq {"repair"}

(* No recorded result is ok in spite of a failure, before the review. *)
ResultInv ==
  /\ pc # "end" => \A k \in DOMAIN results : results[k].flaw => ~results[k].ok
  /\ PassedMeansClean

(* What a run can still do when it has been cancelled. *)
WorkLeft == IF pc = "tools" THEN turn.left + 1
            ELSE IF pc \in {"turned", "test"} THEN 1 ELSE 0
WorkInv ==
  /\ signalAware => late + WorkLeft <= MaxCalls + 1
  /\ ~aborted => late = 0

-----------------------------------------------------------------------------
(* The corrective plan changes nothing about a result but its ok. *)
LEMMA ResolvedResults ==
  ASSUME LoopTypeOK
  PROVE  /\ Resolved \in Seq(Result)
         /\ Len(Resolved) = Len(results)
         /\ DOMAIN Resolved = DOMAIN results
         /\ \A k \in DOMAIN results : Resolved[k].flaw = results[k].flaw
<1>1. results \in Seq(Result) /\ DOMAIN results = 1..Len(results) /\ Len(results) \in Nat
  BY DEF LoopTypeOK
<1>2. \A k \in 1..Len(results) : results[k] \in Result
  BY <1>1
<1>3. \A k \in 1..Len(results) :
        /\ [results[k] EXCEPT !.ok = TRUE] \in Result
        /\ [results[k] EXCEPT !.ok = TRUE].flaw = results[k].flaw
  BY <1>2 DEF Result
<1>4. CASE Resolved = results
  BY <1>1, <1>4
<1>5. CASE Resolved = [k \in DOMAIN results |-> [results[k] EXCEPT !.ok = TRUE]]
  <2>1. Resolved \in [1..Len(results) -> Result]
    BY <1>1, <1>3, <1>5
  <2> QED
    <3>1. Resolved \in Seq(Result) /\ DOMAIN Resolved = 1..Len(results)
      BY <1>1, <2>1, SeqDef
    <3>2. Len(Resolved) = Len(results)
      BY <1>1, <3>1
    <3> QED
      BY <1>1, <1>3, <1>5, <3>1, <3>2
<1> QED
  BY <1>4, <1>5 DEF Resolved

(* What planner() returns. *)
LEMMA PlansAreSequences ==
  ASSUME NEW p \in Plans
  PROVE  p \in Seq(Step) /\ Len(p) > 0
BY LoopAssumption DEF Plans

(* A turn is given to an owner, and goes on, as a turn. *)
LEMMA TurnsAreTurns ==
  /\ NoTurn \in Turn
  /\ \A o \in Owners : TurnOf(o) \in Turn /\ TurnOf(o).of = o
<1>1. NoTurn \in Turn
  BY LoopAssumption DEF NoTurn, Turn, Owners
<1>2. ASSUME NEW o \in Owners PROVE TurnOf(o) \in Turn /\ TurnOf(o).of = o
  BY <1>1 DEF NoTurn, Turn, TurnOf
<1> QED
  BY <1>1, <1>2

(* What a model call makes of the turn. *)
LEMMA Calling ==
  ASSUME LoopTypeOK, ModelCall
  PROVE  /\ turn' \in Turn /\ turn'.of = turn.of /\ turn'.blocked = turn.blocked
         /\ pc = "turn" /\ pc' \in {"turned", "tools"}
<1>1. PICK n \in 0..MaxCalls : Responds(n)
  BY DEF ModelCall
<1>2. (n > 0 /\ turn.calls + 1 >= Limit) \in BOOLEAN
  OBVIOUS
<1>3. turn \in Turn
  BY DEF LoopTypeOK
<1>4. turn' = [turn EXCEPT !.calls = @ + 1, !.left = n,
                           !.exhausted = n > 0 /\ turn.calls + 1 >= Limit]
  BY <1>1 DEF Responds
<1>5. turn' = [of |-> turn.of, calls |-> turn.calls + 1, left |-> n, blocked |-> turn.blocked,
               exhausted |-> n > 0 /\ turn.calls + 1 >= Limit]
  BY <1>3, <1>4 DEF Turn
<1>6. turn.of \in Owners /\ turn.calls + 1 \in Nat /\ turn.blocked \in BOOLEAN
  BY <1>3 DEF Turn
<1>7. turn' \in Turn
  BY <1>2, <1>5, <1>6 DEF Turn
<1>8. turn'.of = turn.of /\ turn'.blocked = turn.blocked
  BY <1>5
<1> QED
  BY <1>1, <1>7, <1>8 DEF ModelCall, Responds, Goto

(* What a tool call makes of the turn; it is one fewer that are left. *)
LEMMA CallingTools ==
  ASSUME LoopTypeOK, CountInv, NEW fate \in Fates, RunTool(fate)
  PROVE  /\ turn' \in Turn /\ turn'.of = turn.of /\ turn'.left = turn.left - 1
         /\ turn'.blocked = (turn.blocked \/ fate = "declined")
         /\ pc = "tools" /\ pc' \in {"tools", "turned", "turn"}
         /\ pc' = "tools" <=> turn.left > 1
         /\ turn.left \in 1..MaxCalls
<1>1. turn \in Turn /\ turn.left \in 1..MaxCalls
  BY DEF LoopTypeOK, CountInv, Turn, RunTool
<1>2. turn' = [turn EXCEPT !.left = @ - 1, !.blocked = @ \/ fate = "declined"]
  BY DEF RunTool
<1>3. (turn.blocked \/ fate = "declined") \in BOOLEAN
  OBVIOUS
<1>4. turn' = [of |-> turn.of, calls |-> turn.calls, left |-> turn.left - 1,
               blocked |-> turn.blocked \/ fate = "declined", exhausted |-> turn.exhausted]
  BY <1>1, <1>2 DEF Turn
<1>5. /\ turn.of \in Owners /\ turn.calls \in Nat /\ turn.exhausted \in BOOLEAN
      /\ turn.left - 1 \in 0..MaxCalls
  BY <1>1, LoopAssumption DEF Turn
<1>6. turn' \in Turn /\ turn'.of = turn.of /\ turn'.left = turn.left - 1
  <2>1. turn' \in Turn
    BY <1>3, <1>4, <1>5 DEF Turn
  <2> QED
    BY <2>1, <1>4
<1>7. turn'.blocked = (turn.blocked \/ fate = "declined")
  BY <1>4
<1>8. pc = "tools" /\ pc' = (IF turn.left > 1 THEN "tools" ELSE IF turn.exhausted THEN "turned" ELSE "turn")
  BY DEF RunTool, Goto
<1> QED
  BY <1>1, <1>6, <1>7, <1>8

(* A recorded result follows the ones there are. *)
LEMMA Recording ==
  ASSUME LoopTypeOK, NEW a \in BOOLEAN, NEW b \in BOOLEAN, Record(a, b)
  PROVE  /\ results' \in Seq(Result)
         /\ Len(results') = Len(results) + 1
         /\ DOMAIN results' = 1..(Len(results) + 1)
         /\ \A k \in DOMAIN results : results'[k] = results[k]
         /\ results'[Len(results) + 1] = [ok |-> a, flaw |-> b]
<1> DEFINE r == [ok |-> a, flaw |-> b]
<1>1. r \in Result
  BY DEF Result
<1>2. results \in Seq(Result) /\ results' = Append(results, r)
  BY DEF LoopTypeOK, Record
<1> HIDE DEF r
<1>3. results' \in Seq(Result) /\ Len(results') = Len(results) + 1
  BY <1>1, <1>2
<1>4. DOMAIN results = 1..Len(results) /\ DOMAIN results' = 1..Len(results')
  BY <1>2, <1>3
<1>5. \A k \in 1..Len(results) : results'[k] = results[k]
  BY <1>1, <1>2
<1>6. results'[Len(results) + 1] = r
  BY <1>1, <1>2
<1> QED
  BY <1>3, <1>4, <1>5, <1>6 DEF r

(* The initial state. *)
LEMMA Initially == LoopInit => LoopTypeOK /\ CountInv /\ PlanInv /\ StepInv /\ ResultInv /\ WorkInv
<1> SUFFICES ASSUME LoopInit PROVE LoopTypeOK /\ CountInv /\ PlanInv /\ StepInv /\ ResultInv /\ WorkInv
  OBVIOUS
<1>1. LoopTypeOK
  <2>1. turn \in Turn
    BY TurnsAreTurns DEF LoopInit
  <2>2. plan \in Seq(Step) /\ results \in Seq(Result)
    BY DEF LoopInit
  <2>3. runMode \in {"manual", "auto"} /\ signalAware \in BOOLEAN /\ pc \in Stages /\ index \in Nat /\ before \in Nat /\ late \in Nat
    BY DEF LoopInit, Stages
  <2>4. ok \in BOOLEAN /\ aborted \in BOOLEAN /\ flaw \subseteq Flaws
    BY DEF LoopInit
  <2>5. round \in 0..MAX_REPLAN /\ attempt \in 0..MAX_ATTEMPTS /\ verdicts \in 0..(MAX_REPAIR + 1)
    BY LoopAssumption DEF LoopInit
  <2>6. outcome \in {"none", "passed", "failed", "thrown"}
    BY DEF LoopInit
  <2> QED
    BY <2>1, <2>2, <2>3, <2>4, <2>5, <2>6 DEF LoopTypeOK
<1>2. CountInv /\ StepInv
  BY DEF LoopInit, CountInv, StepInv, TurnStages
<1>3. PlanInv /\ ResultInv /\ PassedMeansClean
  BY DEF LoopInit, PlanInv, ResultInv, StepStages, TurnStages, PassedMeansClean
<1>4. WorkInv
  BY LoopAssumption DEF LoopInit, WorkInv, WorkLeft
<1> QED
  BY <1>1, <1>2, <1>3, <1>4

(* The turn at hand. *)
LEMMA TurnStep ==
  ASSUME LoopTypeOK, CountInv, [LoopNext]_loopVars
  PROVE  turn' \in Turn
<1> USE DEF LoopTypeOK, RunKept, step
<1>1. CASE Intake
  BY <1>1 DEF Intake
<1>2. CASE Clarified
  BY <1>2 DEF Clarified
<1>3. CASE Route
  BY <1>3, TurnsAreTurns DEF Route, Owners
<1>4. CASE TestPasses
  BY <1>4 DEF TestPasses
<1>5. CASE TestFails
  BY <1>5, TurnsAreTurns DEF TestFails, Owners
<1>6. CASE Executed
  BY <1>6 DEF Executed, Record
<1>7. CASE Good
  BY <1>7 DEF Good, Record
<1>8. CASE Bad
  BY <1>8, TurnsAreTurns DEF Bad, Owners
<1>9. CASE Review
  BY <1>9 DEF Review
<1>10. CASE Throws
  BY <1>10 DEF Throws
<1>11. CASE ModelCall
  BY <1>11, Calling
<1>12. CASE StepTurnEnds
  BY <1>12 DEF StepTurnEnds
<1>13. CASE SubAgentThrows
  BY <1>13 DEF SubAgentThrows
<1>14. CASE FixTurnEnds
  BY <1>14 DEF FixTurnEnds
<1>15. CASE RepairTurnEnds
  BY <1>15 DEF RepairTurnEnds
<1>16. CASE Cancel
  BY <1>16 DEF Cancel
<1>17. CASE Ended
  BY <1>17 DEF Ended, loopVars
<1>18. ASSUME NEW p \in Plans, MakePlan(p) PROVE turn' \in Turn
  BY <1>18 DEF MakePlan
<1>19. ASSUME NEW p \in Plans, Replan(p) PROVE turn' \in Turn
  BY <1>19 DEF Replan
<1>20. ASSUME NEW cancel \in BOOLEAN, Answered(cancel) PROVE turn' \in Turn
  BY <1>20 DEF Answered, Record
<1>21. ASSUME NEW fate \in Fates, RunTool(fate) PROVE turn' \in Turn
  BY <1>21, CallingTools
<1>22. ASSUME NEW over \in BOOLEAN, SubAgentEnds(over) PROVE turn' \in Turn
  BY <1>22 DEF SubAgentEnds
<1>23. CASE UNCHANGED loopVars
  BY <1>23 DEF loopVars
<1> QED
  BY <1>1, <1>2, <1>3, <1>4, <1>5, <1>6, <1>7, <1>8, <1>9, <1>10, <1>11,
     <1>12, <1>13, <1>14, <1>15, <1>16, <1>17, <1>18, <1>19, <1>20, <1>21,
     <1>22, <1>23
     DEF LoopNext, Turns, Stage, Fates

(* Plans and results. *)
LEMMA SequencesStep ==
  ASSUME LoopTypeOK, [LoopNext]_loopVars
  PROVE  plan' \in Seq(Step) /\ results' \in Seq(Result)
<1> USE DEF LoopTypeOK, RunKept
<1>1. CASE Intake
  BY <1>1 DEF Intake
<1>2. CASE Clarified
  BY <1>2 DEF Clarified
<1>3. CASE Route
  BY <1>3 DEF Route
<1>4. CASE TestPasses
  BY <1>4 DEF TestPasses
<1>5. CASE TestFails
  BY <1>5 DEF TestFails
<1>6. CASE Executed
  <2>1. ok \in BOOLEAN /\ (flaw # {}) \in BOOLEAN
    OBVIOUS
  <2>2. UNCHANGED <<plan, results>> \/ (UNCHANGED plan /\ Record(ok, (flaw # {})))
    BY <1>6 DEF Executed, Record
  <2> QED
    BY <2>1, <2>2, Recording
<1>7. CASE Good
  <2>1. ok \in BOOLEAN /\ (flaw \ {"repair"} # {}) \in BOOLEAN
    OBVIOUS
  <2>2. UNCHANGED <<plan, results>> \/ (UNCHANGED plan /\ Record(ok, (flaw \ {"repair"} # {})))
    BY <1>7 DEF Good, Record
  <2> QED
    BY <2>1, <2>2, Recording
<1>8. CASE Bad
  BY <1>8 DEF Bad
<1>9. CASE Review
  BY <1>9, ResolvedResults DEF Review
<1>10. CASE Throws
  BY <1>10 DEF Throws
<1>11. CASE ModelCall
  BY <1>11 DEF ModelCall
<1>12. CASE StepTurnEnds
  BY <1>12 DEF StepTurnEnds
<1>13. CASE SubAgentThrows
  BY <1>13 DEF SubAgentThrows
<1>14. CASE FixTurnEnds
  BY <1>14 DEF FixTurnEnds
<1>15. CASE RepairTurnEnds
  BY <1>15 DEF RepairTurnEnds
<1>16. CASE Cancel
  BY <1>16 DEF Cancel
<1>17. CASE Ended
  BY <1>17 DEF Ended, loopVars
<1>18. ASSUME NEW p \in Plans, MakePlan(p) PROVE plan' \in Seq(Step) /\ results' \in Seq(Result)
  BY <1>18, PlansAreSequences DEF MakePlan
<1>19. ASSUME NEW p \in Plans, Replan(p) PROVE plan' \in Seq(Step) /\ results' \in Seq(Result)
  BY <1>19, PlansAreSequences DEF Replan
<1>20. ASSUME NEW cancel \in BOOLEAN, Answered(cancel) PROVE plan' \in Seq(Step) /\ results' \in Seq(Result)
  <2>1. (ok /\ ~cancel) \in BOOLEAN /\ (cancel \/ flaw \ {"repair"} # {}) \in BOOLEAN
    OBVIOUS
  <2>2. UNCHANGED <<plan, results>> \/ (UNCHANGED plan /\ Record((ok /\ ~cancel), (cancel \/ flaw \ {"repair"} # {})))
    BY <1>20 DEF Answered, Record
  <2> QED
    BY <2>1, <2>2, Recording
<1>21. ASSUME NEW fate \in Fates, RunTool(fate) PROVE plan' \in Seq(Step) /\ results' \in Seq(Result)
  BY <1>21 DEF RunTool
<1>22. ASSUME NEW over \in BOOLEAN, SubAgentEnds(over) PROVE plan' \in Seq(Step) /\ results' \in Seq(Result)
  BY <1>22 DEF SubAgentEnds
<1>23. CASE UNCHANGED loopVars
  BY <1>23 DEF loopVars
<1> QED
  BY <1>1, <1>2, <1>3, <1>4, <1>5, <1>6, <1>7, <1>8, <1>9, <1>10, <1>11,
     <1>12, <1>13, <1>14, <1>15, <1>16, <1>17, <1>18, <1>19, <1>20, <1>21,
     <1>22, <1>23
     DEF LoopNext, Turns, Stage, Fates

(* What is not made good may grow. *)
LEMMA FlawsGrow ==
  ASSUME LoopTypeOK
  PROVE  /\ flaw \cup {"failed"} \subseteq Flaws
         /\ flaw \cup {turn.of} \subseteq Flaws
         /\ \A s \in SUBSET Flaws : flaw \ s \subseteq Flaws
<1>1. flaw \subseteq Flaws /\ turn.of \in Flaws /\ "failed" \in Flaws
  BY DEF LoopTypeOK, Flaws, Turn
<1> QED
  BY <1>1

(* Types. *)
LEMMA TypeStep ==
  ASSUME LoopTypeOK, CountInv, [LoopNext]_loopVars
  PROVE  LoopTypeOK'
<1> USE LoopAssumption, TurnStep, SequencesStep DEF LoopTypeOK, CountInv, RunKept, HistoryKept, Goto, Stages,
    TurnStages, Record, WorkDone, step
<1>1. CASE Intake
  BY <1>1 DEF Intake
<1>2. CASE Clarified
  BY <1>2 DEF Clarified
<1>3. CASE Route
  <2>1. turn' \in Turn
    BY TurnStep
  <2>2. pc' = "turn" /\ ok' = TRUE /\ attempt' = 0 /\ verdicts' = 0 /\ flaw' = {}
    BY <1>3 DEF Route
  <2>3. RunKept /\ HistoryKept
    BY <1>3 DEF Route
  <2>4. attempt' \in 0..MAX_ATTEMPTS /\ verdicts' \in 0..(MAX_REPAIR + 1)
    BY <2>2
  <2>5. pc' \in Stages /\ ok' \in BOOLEAN /\ flaw' \subseteq Flaws
    BY <2>2
  <2> QED
    BY <2>1, <2>3, <2>4, <2>5
<1>4. CASE TestPasses
  <2>1. late' \in Nat
    <3>1. CASE aborted
      BY <1>4, <3>1 DEF TestPasses
    <3>2. CASE ~aborted
      BY <1>4, <3>2 DEF TestPasses
    <3> QED
      BY <3>1, <3>2
  <2>2. turn' \in Turn
    BY TurnStep
  <2> QED
    BY <1>4, <2>1, <2>2 DEF TestPasses
<1>5. CASE TestFails
  <2>1. late' \in Nat
    <3>1. CASE aborted
      BY <1>5, <3>1 DEF TestFails
    <3>2. CASE ~aborted
      BY <1>5, <3>2 DEF TestFails
    <3> QED
      BY <3>1, <3>2
  <2>2. turn' \in Turn
    BY TurnStep
  <2> QED
    BY <1>5, <2>1, <2>2, FlawsGrow DEF TestFails
<1>6. CASE Executed
  BY <1>6 DEF Executed
<1>7. CASE Good
  BY <1>7 DEF Good
<1>8. CASE Bad
  BY <1>8 DEF Bad
<1>9. CASE Review
  BY <1>9 DEF Review
<1>10. CASE Throws
  BY <1>10 DEF Throws
<1>11. CASE ModelCall
  BY <1>11, Calling DEF ModelCall
<1>12. CASE StepTurnEnds
  BY <1>12 DEF StepTurnEnds
<1>13. CASE SubAgentThrows
  BY <1>13, FlawsGrow DEF SubAgentThrows
<1>14. CASE FixTurnEnds
  BY <1>14 DEF FixTurnEnds
<1>15. CASE RepairTurnEnds
  BY <1>15 DEF RepairTurnEnds
<1>16. CASE Cancel
  BY <1>16 DEF Cancel
<1>17. CASE Ended
  BY <1>17 DEF Ended, loopVars
<1>18. ASSUME NEW p \in Plans, MakePlan(p) PROVE LoopTypeOK'
  BY <1>18 DEF MakePlan
<1>19. ASSUME NEW p \in Plans, Replan(p) PROVE LoopTypeOK'
  BY <1>19 DEF Replan, WantsReplan, PlanThrough
<1>20. ASSUME NEW cancel \in BOOLEAN, Answered(cancel) PROVE LoopTypeOK'
  BY <1>20 DEF Answered
<1>21. ASSUME NEW fate \in Fates, RunTool(fate) PROVE LoopTypeOK'
  <2>1. late' \in Nat
    BY <1>21 DEF RunTool
  <2>2. flaw' \subseteq Flaws
    BY <1>21, FlawsGrow DEF RunTool
  <2>3. turn' \in Turn /\ pc' \in {"tools", "turned", "turn"}
    BY <1>21, CallingTools
  <2>4. RunKept /\ UNCHANGED <<ok, attempt, verdicts>>
    BY <1>21 DEF RunTool
  <2> QED
    BY <2>1, <2>2, <2>3, <2>4
<1>22. ASSUME NEW over \in BOOLEAN, SubAgentEnds(over) PROVE LoopTypeOK'
  <2>1. flaw' \subseteq Flaws
    BY <1>22, FlawsGrow DEF SubAgentEnds
  <2>2. (~turn.blocked /\ ~turn.exhausted /\ ~over) \in BOOLEAN
    OBVIOUS
  <2> QED
    BY <1>22, <2>1, <2>2, TurnStep DEF SubAgentEnds
<1>23. CASE UNCHANGED loopVars
  BY <1>23 DEF loopVars
<1> QED
  BY <1>1, <1>2, <1>3, <1>4, <1>5, <1>6, <1>7, <1>8, <1>9, <1>10, <1>11,
     <1>12, <1>13, <1>14, <1>15, <1>16, <1>17, <1>18, <1>19, <1>20, <1>21,
     <1>22, <1>23
     DEF LoopNext, Turns, Stage, Fates

(* The room the counters have. *)
LEMMA CountStep ==
  ASSUME LoopTypeOK, CountInv, [LoopNext]_loopVars
  PROVE  CountInv'
<1> USE LoopAssumption DEF LoopTypeOK, CountInv, RunKept, HistoryKept, Goto,
    TurnStages, Record, PlanThrough, step
<1>1. CASE Intake
  BY <1>1 DEF Intake
<1>2. CASE Clarified
  BY <1>2 DEF Clarified
<1>3. CASE Route
  <2>1. turn' = turn \/ turn'.of = IF Current.route = "subagent" THEN "subagent" ELSE "step"
    BY <1>3, TurnsAreTurns DEF Route, Owners
  <2> QED
    BY <1>3, <2>1 DEF Route
<1>4. CASE TestPasses
  BY <1>4 DEF TestPasses
<1>5. CASE TestFails
  <2>1. turn' = turn \/ turn'.of = "fix"
    BY <1>5, TurnsAreTurns DEF TestFails, Owners
  <2> QED
    BY <1>5, <2>1 DEF TestFails
<1>6. CASE Executed
  BY <1>6 DEF Executed
<1>7. CASE Good
  BY <1>7 DEF Good
<1>8. CASE Bad
  <2>1. CASE verdicts >= MAX_REPAIR
    BY <1>8, <2>1 DEF Bad
  <2>2. CASE verdicts < MAX_REPAIR
    <3>1. turn' = TurnOf("repair")
      BY <1>8, <2>2 DEF Bad
    <3>2. turn'.of = "repair"
      BY <3>1, TurnsAreTurns DEF Owners
    <3> QED
      BY <1>8, <2>2, <3>2 DEF Bad
  <2> QED
    BY <2>1, <2>2
<1>9. CASE Review
  BY <1>9 DEF Review
<1>10. CASE Throws
  BY <1>10 DEF Throws
<1>11. CASE ModelCall
  <2>1. turn'.of = turn.of /\ (pc' = "tools" => turn'.left > 0) /\ pc = "turn"
    <3>1. PICK n \in 0..MaxCalls : Responds(n)
      BY <1>11 DEF ModelCall
    <3>2. turn'.of = turn.of /\ turn'.left = n
      BY <3>1 DEF Responds, Turn
    <3> QED
      BY <1>11, <3>1, <3>2 DEF Responds, ModelCall
  <2> QED
    BY <1>11, <2>1 DEF ModelCall
<1>12. CASE StepTurnEnds
  BY <1>12 DEF StepTurnEnds
<1>13. CASE SubAgentThrows
  BY <1>13 DEF SubAgentThrows
<1>14. CASE FixTurnEnds
  BY <1>14 DEF FixTurnEnds
<1>15. CASE RepairTurnEnds
  BY <1>15 DEF RepairTurnEnds
<1>16. CASE Cancel
  BY <1>16 DEF Cancel
<1>17. CASE Ended
  BY <1>17 DEF Ended, loopVars
<1>18. ASSUME NEW p \in Plans, MakePlan(p) PROVE CountInv'
  BY <1>18 DEF MakePlan
<1>19. ASSUME NEW p \in Plans, Replan(p) PROVE CountInv'
  BY <1>19 DEF Replan
<1>20. ASSUME NEW cancel \in BOOLEAN, Answered(cancel) PROVE CountInv'
  BY <1>20 DEF Answered
<1>21. ASSUME NEW fate \in Fates, RunTool(fate) PROVE CountInv'
  <2>1. /\ turn'.of = turn.of /\ turn'.left = turn.left - 1
        /\ pc' = "tools" <=> turn.left > 1
        /\ turn.left \in 1..MaxCalls
    BY <1>21, CallingTools
  <2> QED
    BY <1>21, <2>1 DEF RunTool
<1>22. ASSUME NEW over \in BOOLEAN, SubAgentEnds(over) PROVE CountInv'
  BY <1>22 DEF SubAgentEnds
<1>23. CASE UNCHANGED loopVars
  BY <1>23 DEF loopVars
<1> QED
  BY <1>1, <1>2, <1>3, <1>4, <1>5, <1>6, <1>7, <1>8, <1>9, <1>10, <1>11,
     <1>12, <1>13, <1>14, <1>15, <1>16, <1>17, <1>18, <1>19, <1>20, <1>21,
     <1>22, <1>23
     DEF LoopNext, Turns, Stage, Fates

(* The place of the results relative to the plan. *)
LEMMA PlanStep ==
  ASSUME LoopTypeOK, PlanInv, [LoopNext]_loopVars
  PROVE  PlanInv'
<1> USE DEF LoopTypeOK, PlanInv, RunKept, HistoryKept, Goto, StepStages, TurnStages, PlanThrough, Record, WorkDone, step
<1>1. CASE Intake
  BY <1>1 DEF Intake
<1>2. CASE Clarified
  BY <1>2 DEF Clarified
<1>3. CASE Route
  BY <1>3 DEF Route
<1>4. CASE TestPasses
  BY <1>4 DEF TestPasses
<1>5. CASE TestFails
  BY <1>5 DEF TestFails
<1>6. CASE Executed
  BY <1>6 DEF Executed
<1>7. CASE Good
  BY <1>7 DEF Good
<1>8. CASE Bad
  BY <1>8 DEF Bad
<1>9. CASE Review
  BY <1>9, ResolvedResults DEF Review
<1>10. CASE Throws
  BY <1>10 DEF Throws
<1>11. CASE ModelCall
  BY <1>11, Calling DEF ModelCall
<1>12. CASE StepTurnEnds
  BY <1>12 DEF StepTurnEnds
<1>13. CASE SubAgentThrows
  BY <1>13 DEF SubAgentThrows
<1>14. CASE FixTurnEnds
  BY <1>14 DEF FixTurnEnds
<1>15. CASE RepairTurnEnds
  BY <1>15 DEF RepairTurnEnds
<1>16. CASE Cancel
  BY <1>16 DEF Cancel
<1>17. CASE Ended
  BY <1>17 DEF Ended, loopVars
<1>18. ASSUME NEW p \in Plans, MakePlan(p) PROVE PlanInv'
  BY <1>18, PlansAreSequences DEF MakePlan
<1>19. ASSUME NEW p \in Plans, Replan(p) PROVE PlanInv'
  BY <1>19, PlansAreSequences DEF Replan, WantsReplan
<1>20. ASSUME NEW cancel \in BOOLEAN, Answered(cancel) PROVE PlanInv'
  BY <1>20 DEF Answered
<1>21. ASSUME NEW fate \in Fates, RunTool(fate) PROVE PlanInv'
  BY <1>21 DEF RunTool
<1>22. ASSUME NEW over \in BOOLEAN, SubAgentEnds(over) PROVE PlanInv'
  BY <1>22 DEF SubAgentEnds
<1>23. CASE UNCHANGED loopVars
  BY <1>23 DEF loopVars
<1> QED
  BY <1>1, <1>2, <1>3, <1>4, <1>5, <1>6, <1>7, <1>8, <1>9, <1>10, <1>11,
     <1>12, <1>13, <1>14, <1>15, <1>16, <1>17, <1>18, <1>19, <1>20, <1>21,
     <1>22, <1>23
     DEF LoopNext, Turns, Stage, Fates

(* A failure and the ok of the step at hand. *)
LEMMA StepInvStep ==
  ASSUME LoopTypeOK, StepInv, [LoopNext]_loopVars
  PROVE  StepInv'
<1> USE DEF LoopTypeOK, StepInv, RunKept, HistoryKept, Goto, TurnStages, Turn, Owners, TurnOf, NoTurn, Record, PlanThrough, step
<1>1. CASE Intake
  BY <1>1 DEF Intake
<1>2. CASE Clarified
  BY <1>2 DEF Clarified
<1>3. CASE Route
  BY <1>3 DEF Route
<1>4. CASE TestPasses
  BY <1>4 DEF TestPasses
<1>5. CASE TestFails
  BY <1>5 DEF TestFails
<1>6. CASE Executed
  BY <1>6 DEF Executed
<1>7. CASE Good
  BY <1>7 DEF Good
<1>8. CASE Bad
  BY <1>8 DEF Bad
<1>9. CASE Review
  BY <1>9 DEF Review
<1>10. CASE Throws
  BY <1>10 DEF Throws
<1>11. CASE ModelCall
  BY <1>11, Calling DEF ModelCall
<1>12. CASE StepTurnEnds
  BY <1>12 DEF StepTurnEnds
<1>13. CASE SubAgentThrows
  BY <1>13 DEF SubAgentThrows
<1>14. CASE FixTurnEnds
  BY <1>14 DEF FixTurnEnds
<1>15. CASE RepairTurnEnds
  BY <1>15 DEF RepairTurnEnds
<1>16. CASE Cancel
  BY <1>16 DEF Cancel
<1>17. CASE Ended
  BY <1>17 DEF Ended, loopVars
<1>18. ASSUME NEW p \in Plans, MakePlan(p) PROVE StepInv'
  BY <1>18 DEF MakePlan
<1>19. ASSUME NEW p \in Plans, Replan(p) PROVE StepInv'
  BY <1>19 DEF Replan
<1>20. ASSUME NEW cancel \in BOOLEAN, Answered(cancel) PROVE StepInv'
  BY <1>20 DEF Answered
<1>21. ASSUME NEW fate \in Fates, RunTool(fate) PROVE StepInv'
  BY <1>21 DEF RunTool
<1>22. ASSUME NEW over \in BOOLEAN, SubAgentEnds(over) PROVE StepInv'
  BY <1>22 DEF SubAgentEnds
<1>23. CASE UNCHANGED loopVars
  BY <1>23 DEF loopVars
<1> QED
  BY <1>1, <1>2, <1>3, <1>4, <1>5, <1>6, <1>7, <1>8, <1>9, <1>10, <1>11,
     <1>12, <1>13, <1>14, <1>15, <1>16, <1>17, <1>18, <1>19, <1>20, <1>21,
     <1>22, <1>23
     DEF LoopNext, Turns, Stage, Fates

(* What the cancelled run has left to do. *)
LEMMA WorkStep ==
  ASSUME LoopTypeOK, CountInv, WorkInv, [LoopNext]_loopVars
  PROVE  WorkInv'
<1>0. /\ MaxCalls \in Nat /\ turn.left \in 0..MaxCalls /\ late \in Nat
      /\ signalAware \in BOOLEAN /\ aborted \in BOOLEAN
  BY LoopAssumption DEF LoopTypeOK, Turn
<1> USE <1>0 DEF WorkInv, WorkLeft, RunKept, HistoryKept, WorkDone, Goto, Record, PlanThrough, step
<1>1. CASE Intake
  BY <1>1 DEF Intake
<1>2. CASE Clarified
  BY <1>2 DEF Clarified
<1>3. CASE Route
  BY <1>3 DEF Route
<1>4. CASE TestPasses
  BY <1>4 DEF TestPasses
<1>5. CASE TestFails
  BY <1>5 DEF TestFails
<1>6. CASE Executed
  BY <1>6 DEF Executed
<1>7. CASE Good
  BY <1>7 DEF Good
<1>8. CASE Bad
  BY <1>8 DEF Bad
<1>9. CASE Review
  BY <1>9 DEF Review
<1>10. CASE Throws
  BY <1>10 DEF Throws
<1>11. CASE ModelCall
  <2>1. pc = "turn" /\ pc' \in {"turned", "tools"} /\ turn'.left \in 0..MaxCalls
    BY <1>11, Calling DEF Turn
  <2>2. ~signalAware \/ ~aborted
    BY <1>11 DEF ModelCall, ModelIsCalled
  <2>3. UNCHANGED <<late, aborted, signalAware>>
    BY <1>11 DEF ModelCall
  <2> QED
    BY <2>1, <2>2, <2>3
<1>12. CASE StepTurnEnds
  BY <1>12 DEF StepTurnEnds
<1>13. CASE SubAgentThrows
  BY <1>13 DEF SubAgentThrows
<1>14. CASE FixTurnEnds
  BY <1>14 DEF FixTurnEnds
<1>15. CASE RepairTurnEnds
  BY <1>15 DEF RepairTurnEnds
<1>16. CASE Cancel
  BY <1>16 DEF Cancel
<1>17. CASE Ended
  BY <1>17 DEF Ended, loopVars
<1>18. ASSUME NEW p \in Plans, MakePlan(p) PROVE WorkInv'
  BY <1>18 DEF MakePlan
<1>19. ASSUME NEW p \in Plans, Replan(p) PROVE WorkInv'
  BY <1>19 DEF Replan
<1>20. ASSUME NEW cancel \in BOOLEAN, Answered(cancel) PROVE WorkInv'
  BY <1>20 DEF Answered
<1>21. ASSUME NEW fate \in Fates, RunTool(fate) PROVE WorkInv'
  <2>1. /\ pc = "tools" /\ turn'.left = turn.left - 1 /\ turn.left \in 1..MaxCalls
        /\ pc' \in {"tools", "turned", "turn"}
        /\ pc' = "tools" <=> turn.left > 1
    BY <1>21, CallingTools
  <2>2. /\ late' = late \/ (aborted /\ late' = late + 1)
        /\ UNCHANGED <<aborted, signalAware>>
    BY <1>21 DEF RunTool
  <2> QED
    BY <2>1, <2>2
<1>22. ASSUME NEW over \in BOOLEAN, SubAgentEnds(over) PROVE WorkInv'
  BY <1>22 DEF SubAgentEnds
<1>23. CASE UNCHANGED loopVars
  BY <1>23 DEF loopVars
<1> QED
  BY <1>1, <1>2, <1>3, <1>4, <1>5, <1>6, <1>7, <1>8, <1>9, <1>10, <1>11,
     <1>12, <1>13, <1>14, <1>15, <1>16, <1>17, <1>18, <1>19, <1>20, <1>21,
     <1>22, <1>23
     DEF LoopNext, Turns, Stage, Fates

(* A failure in a recorded result, up to the review and through it. *)
LEMMA ResultStep ==
  ASSUME LoopTypeOK, PlanInv, StepInv, ResultInv, [LoopNext]_loopVars
  PROVE  ResultInv'
<1>0. ASSUME UNCHANGED <<results, outcome>>, pc # "end" PROVE ResultInv'
  BY <1>0 DEF ResultInv, PassedMeansClean, PlanInv
<1>1. CASE Intake
  BY <1>1, <1>0 DEF Intake, RunKept
<1>2. CASE Clarified
  BY <1>2, <1>0 DEF Clarified, RunKept
<1>3. CASE Route
  BY <1>3, <1>0 DEF Route, RunKept
<1>4. CASE TestPasses
  BY <1>4, <1>0 DEF TestPasses, RunKept
<1>5. CASE TestFails
  BY <1>5, <1>0 DEF TestFails, RunKept
<1>6. CASE Executed
  <2>1. ok \in BOOLEAN /\ (flaw # {}) \in BOOLEAN
    BY DEF LoopTypeOK
  <2>2. (flaw # {}) => ~ok
    BY <1>6 DEF Executed, StepInv
  <2>3. outcome = "none" /\ outcome' = outcome /\ pc # "end"
    BY <1>6 DEF Executed, PlanInv, RunKept, Record
  <2>4. CASE Record(ok, (flaw # {}))
    <3>1. \A k \in DOMAIN results' : results'[k].flaw => ~results'[k].ok
      <4>1. DOMAIN results = 1..Len(results) /\ Len(results) \in Nat
        BY DEF LoopTypeOK
      <4>2. \A k \in DOMAIN results' : k \in DOMAIN results \/ k = Len(results) + 1
        <5>1. DOMAIN results' = 1..(Len(results) + 1)
          BY <2>1, <2>4, Recording
        <5> QED
          BY <4>1, <5>1
      <4>3. \A k \in DOMAIN results : results'[k] = results[k]
        BY <2>1, <2>4, Recording
      <4>4. results'[Len(results) + 1] = [ok |-> ok, flaw |-> (flaw # {})]
        BY <2>1, <2>4, Recording
      <4>5. \A k \in DOMAIN results : results[k].flaw => ~results[k].ok
        BY <2>3 DEF ResultInv
      <4>6. results'[Len(results) + 1].flaw => ~results'[Len(results) + 1].ok
        <5>1. /\ results'[Len(results) + 1].flaw = (flaw # {})
              /\ results'[Len(results) + 1].ok = ok
          BY <4>4
        <5> QED
          BY <2>2, <5>1
      <4> QED
        BY <4>2, <4>3, <4>5, <4>6
    <3> QED
      BY <2>3, <3>1 DEF ResultInv, PassedMeansClean
  <2>5. CASE UNCHANGED results
    BY <2>3, <2>5, <1>0
  <2> QED
    BY <1>6, <2>4, <2>5 DEF Executed, RunKept
<1>7. CASE Good
  <2>1. ok \in BOOLEAN /\ (flaw \ {"repair"} # {}) \in BOOLEAN
    BY DEF LoopTypeOK
  <2>2. (flaw \ {"repair"} # {}) => ~ok
    BY <1>7 DEF Good, StepInv
  <2>3. outcome = "none" /\ outcome' = outcome /\ pc # "end"
    BY <1>7 DEF Good, PlanInv, RunKept, Record
  <2>4. CASE Record(ok, (flaw \ {"repair"} # {}))
    <3>1. \A k \in DOMAIN results' : results'[k].flaw => ~results'[k].ok
      <4>1. DOMAIN results = 1..Len(results) /\ Len(results) \in Nat
        BY DEF LoopTypeOK
      <4>2. \A k \in DOMAIN results' : k \in DOMAIN results \/ k = Len(results) + 1
        <5>1. DOMAIN results' = 1..(Len(results) + 1)
          BY <2>1, <2>4, Recording
        <5> QED
          BY <4>1, <5>1
      <4>3. \A k \in DOMAIN results : results'[k] = results[k]
        BY <2>1, <2>4, Recording
      <4>4. results'[Len(results) + 1] = [ok |-> ok, flaw |-> (flaw \ {"repair"} # {})]
        BY <2>1, <2>4, Recording
      <4>5. \A k \in DOMAIN results : results[k].flaw => ~results[k].ok
        BY <2>3 DEF ResultInv
      <4>6. results'[Len(results) + 1].flaw => ~results'[Len(results) + 1].ok
        <5>1. /\ results'[Len(results) + 1].flaw = (flaw \ {"repair"} # {})
              /\ results'[Len(results) + 1].ok = ok
          BY <4>4
        <5> QED
          BY <2>2, <5>1
      <4> QED
        BY <4>2, <4>3, <4>5, <4>6
    <3> QED
      BY <2>3, <3>1 DEF ResultInv, PassedMeansClean
  <2>5. CASE UNCHANGED results
    BY <2>3, <2>5, <1>0
  <2> QED
    BY <1>7, <2>4, <2>5 DEF Good, RunKept
<1>8. CASE Bad
  BY <1>8, <1>0 DEF Bad, RunKept
<1>9. CASE Review
  <2>1. pc = "route" /\ pc' = "end" /\ results' = Resolved /\ UNCHANGED <<runMode, round, before>>
    BY <1>9 DEF Review, PlanThrough, Goto
  <2>2. \A k \in DOMAIN results : results[k].flaw => ~results[k].ok
    BY <2>1 DEF ResultInv
  <2>3. /\ DOMAIN results' = DOMAIN results
        /\ \A k \in DOMAIN results : results'[k].flaw = results[k].flaw
    BY <2>1, ResolvedResults
  <2>4. SUFFICES ASSUME outcome' = "passed"
        PROVE  \/ \A k \in DOMAIN results : ~results[k].flaw
               \/ /\ runMode = "auto" /\ round > 0
                  /\ Corrective # {}
                  /\ \A k \in Corrective : ~results[k].flaw
    BY <2>1, <2>3 DEF ResultInv, PassedMeansClean, Corrective
  <2>5. \A k \in DOMAIN results : results'[k].ok
    BY <1>9, <2>4 DEF Review
  <2>6. CASE Resolved = results
    BY <2>1, <2>2, <2>5, <2>6
  <2>7. CASE Resolved # results
    <3>1. round > 0 /\ \A k \in Corrective : results[k].ok
      BY <2>7 DEF Resolved
    <3>2. \A k \in Corrective : ~results[k].flaw
      BY <2>2, <3>1 DEF Corrective
    <3>3. Len(results) \in DOMAIN results /\ Len(results) > before
      BY <1>9, <2>1 DEF Review, PlanThrough, PlanInv, LoopTypeOK
    <3> QED
      BY <3>1, <3>2, <3>3 DEF Corrective, PlanInv
  <2> QED
    BY <2>6, <2>7
<1>10. CASE Throws
  BY <1>10 DEF Throws, ResultInv, PassedMeansClean, Goto
<1>11. CASE ModelCall
  BY <1>11, <1>0 DEF ModelCall, RunKept
<1>12. CASE StepTurnEnds
  BY <1>12, <1>0 DEF StepTurnEnds, RunKept
<1>13. CASE SubAgentThrows
  BY <1>13, <1>0 DEF SubAgentThrows, RunKept
<1>14. CASE FixTurnEnds
  BY <1>14, <1>0 DEF FixTurnEnds, RunKept
<1>15. CASE RepairTurnEnds
  BY <1>15, <1>0 DEF RepairTurnEnds, RunKept
<1>16. CASE Cancel
  BY <1>16, <1>0 DEF Cancel, RunKept
<1>17. CASE Ended
  BY <1>17 DEF Ended, ResultInv, PassedMeansClean, Corrective, loopVars
<1>18. ASSUME NEW p \in Plans, MakePlan(p) PROVE ResultInv'
  BY <1>18, <1>0 DEF MakePlan, RunKept
<1>19. ASSUME NEW p \in Plans, Replan(p) PROVE ResultInv'
  BY <1>19, <1>0 DEF Replan, PlanThrough
<1>20. ASSUME NEW cancel \in BOOLEAN, Answered(cancel) PROVE ResultInv'
  <2>1. (ok /\ ~cancel) \in BOOLEAN /\ (cancel \/ flaw \ {"repair"} # {}) \in BOOLEAN
    BY DEF LoopTypeOK
  <2>2. (cancel \/ flaw \ {"repair"} # {}) => ~(ok /\ ~cancel)
    BY <1>20 DEF Answered, StepInv
  <2>3. outcome = "none" /\ outcome' = outcome /\ pc # "end"
    BY <1>20 DEF Answered, PlanInv, RunKept, Record
  <2>4. CASE Record((ok /\ ~cancel), (cancel \/ flaw \ {"repair"} # {}))
    <3>1. \A k \in DOMAIN results' : results'[k].flaw => ~results'[k].ok
      <4>1. DOMAIN results = 1..Len(results) /\ Len(results) \in Nat
        BY DEF LoopTypeOK
      <4>2. \A k \in DOMAIN results' : k \in DOMAIN results \/ k = Len(results) + 1
        <5>1. DOMAIN results' = 1..(Len(results) + 1)
          BY <2>1, <2>4, Recording
        <5> QED
          BY <4>1, <5>1
      <4>3. \A k \in DOMAIN results : results'[k] = results[k]
        BY <2>1, <2>4, Recording
      <4>4. results'[Len(results) + 1] = [ok |-> (ok /\ ~cancel), flaw |-> (cancel \/ flaw \ {"repair"} # {})]
        BY <2>1, <2>4, Recording
      <4>5. \A k \in DOMAIN results : results[k].flaw => ~results[k].ok
        BY <2>3 DEF ResultInv
      <4>6. results'[Len(results) + 1].flaw => ~results'[Len(results) + 1].ok
        <5>1. /\ results'[Len(results) + 1].flaw = (cancel \/ flaw \ {"repair"} # {})
              /\ results'[Len(results) + 1].ok = (ok /\ ~cancel)
          BY <4>4
        <5> QED
          BY <2>2, <5>1
      <4> QED
        BY <4>2, <4>3, <4>5, <4>6
    <3> QED
      BY <2>3, <3>1 DEF ResultInv, PassedMeansClean
  <2>5. CASE UNCHANGED results
    BY <2>3, <2>5, <1>0
  <2> QED
    BY <1>20, <2>4, <2>5 DEF Answered, RunKept
<1>21. ASSUME NEW fate \in Fates, RunTool(fate) PROVE ResultInv'
  BY <1>21, <1>0 DEF RunTool, RunKept
<1>22. ASSUME NEW over \in BOOLEAN, SubAgentEnds(over) PROVE ResultInv'
  BY <1>22, <1>0 DEF SubAgentEnds, RunKept
<1>23. CASE UNCHANGED loopVars
  BY <1>23 DEF loopVars, ResultInv, PassedMeansClean, Corrective
<1> QED
  BY <1>1, <1>2, <1>3, <1>4, <1>5, <1>6, <1>7, <1>8, <1>9, <1>10, <1>11,
     <1>12, <1>13, <1>14, <1>15, <1>16, <1>17, <1>18, <1>19, <1>20, <1>21,
     <1>22, <1>23
     DEF LoopNext, Turns, Stage, Fates

-----------------------------------------------------------------------------
(* The invariant of the run. *)
IInv == LoopTypeOK /\ CountInv /\ PlanInv /\ StepInv /\ ResultInv /\ WorkInv

(* It holds throughout every run. *)
LEMMA Invariance == LoopSpec => []IInv
<1>1. LoopInit => IInv
  BY Initially DEF IInv
<1>2. IInv /\ [LoopNext]_loopVars => IInv'
  BY TypeStep, CountStep, PlanStep, StepInvStep, ResultStep, WorkStep DEF IInv
<1> QED
  BY <1>1, <1>2, PTL DEF LoopSpec

(* runTask(): its counters keep within their bounds, whatever the model, the *)
(* judge, the tests and the user answer.                                     *)
THEOREM TypeCorrect == LoopSpec => []LoopTypeOK
<1>1. IInv => LoopTypeOK
  BY DEF IInv
<1> QED
  BY <1>1, Invariance, PTL

(* runTask(), codeTestDebug(), spawnSubAgent(), judgeAndRepair(): a review   *)
(* that passes hides no failure of any step, and no declined call but those  *)
(* of fix turns that a passing test, and of repair turns that a good verdict *)
(* or the user's acceptance, came after.                                     *)
THEOREM PassedIsClean == LoopSpec => []PassedMeansClean
<1>1. IInv => PassedMeansClean
  BY DEF IInv, ResultInv
<1> QED
  BY <1>1, Invariance, PTL

(* runTask(): the review has one result for every step that was planned. *)
THEOREM EveryStepIsReported == LoopSpec => []EveryStepReported
<1>1. IInv => EveryStepReported
  <2> SUFFICES ASSUME IInv, outcome \in {"passed", "failed"}
      PROVE  Len(results) = before + Len(plan) /\ (runMode = "manual" => before = 0)
    BY DEF EveryStepReported
  <2>1. Len(results) = before + Len(plan)
    BY DEF IInv, PlanInv
  <2>2. ASSUME runMode = "manual" PROVE before = 0
    BY <2>2 DEF IInv, PlanInv, LoopTypeOK
  <2> QED
    BY <2>1, <2>2
<1> QED
  BY <1>1, Invariance, PTL

(* The review is about every step and passes no failure, for every length   *)
(* of plan and every bound of the loops (loop.ts:420-443).                  *)
THEOREM ReviewsAreTrue == LoopSpec => []ReviewIsTrue
BY PassedIsClean, EveryStepIsReported, PTL DEF ReviewIsTrue

(* run.cancel: a cancelled run whose provider sees the signal starts no more *)
(* than the tool calls of the response in hand and one test of the step it   *)
(* is at, for any number of calls in a response.                             *)
THEOREM CancelledRunsStop == LoopSpec => []CancelStopsWork
<1>1. IInv => CancelStopsWork
  <2> SUFFICES ASSUME IInv, signalAware PROVE late <= MaxCalls + 1
    BY DEF CancelStopsWork
  <2>1. WorkLeft \in Nat /\ late \in Nat /\ MaxCalls \in Nat
    BY LoopAssumption DEF IInv, LoopTypeOK, Turn, WorkLeft
  <2> QED
    BY <2>1 DEF IInv, WorkInv
<1> QED
  BY <1>1, Invariance, PTL

(* What a step may do to the results. *)
Keeps ==
  /\ DOMAIN results \subseteq DOMAIN results'
  /\ \A k \in DOMAIN results : results'[k] # results[k] =>
       /\ runMode = "auto" /\ round > 0 /\ k <= before
       /\ \A j \in Corrective : results[j].ok

(* Every step keeps the results. *)
LEMMA StepKeeps ==
  ASSUME LoopTypeOK, PlanInv, [LoopNext]_loopVars
  PROVE  Keeps
<1>0. ASSUME UNCHANGED results PROVE Keeps
  BY <1>0 DEF Keeps
<1>1. CASE Intake
  BY <1>1, <1>0 DEF Intake, RunKept
<1>2. CASE Clarified
  BY <1>2, <1>0 DEF Clarified, RunKept
<1>3. CASE Route
  BY <1>3, <1>0 DEF Route, RunKept
<1>4. CASE TestPasses
  BY <1>4, <1>0 DEF TestPasses, RunKept
<1>5. CASE TestFails
  BY <1>5, <1>0 DEF TestFails, RunKept
<1>6. CASE Executed
  <2>1. ok \in BOOLEAN /\ (flaw # {}) \in BOOLEAN
    BY DEF LoopTypeOK
  <2>2. UNCHANGED results \/ Record(ok, (flaw # {}))
    BY <1>6 DEF Executed, RunKept
  <2>3. DOMAIN results = 1..Len(results) /\ Len(results) \in Nat
    BY DEF LoopTypeOK
  <2>4. CASE Record(ok, (flaw # {}))
    <3>1. DOMAIN results \subseteq DOMAIN results'
      <4>1. DOMAIN results' = 1..(Len(results) + 1)
        BY <2>1, <2>4, Recording
      <4> QED
        BY <2>3, <4>1
    <3>2. \A k \in DOMAIN results : results'[k] = results[k]
      BY <2>1, <2>4, Recording
    <3> QED
      BY <3>1, <3>2 DEF Keeps
  <2> QED
    BY <2>2, <2>4, <1>0
<1>7. CASE Good
  <2>1. ok \in BOOLEAN /\ (flaw \ {"repair"} # {}) \in BOOLEAN
    BY DEF LoopTypeOK
  <2>2. UNCHANGED results \/ Record(ok, (flaw \ {"repair"} # {}))
    BY <1>7 DEF Good, RunKept
  <2>3. DOMAIN results = 1..Len(results) /\ Len(results) \in Nat
    BY DEF LoopTypeOK
  <2>4. CASE Record(ok, (flaw \ {"repair"} # {}))
    <3>1. DOMAIN results \subseteq DOMAIN results'
      <4>1. DOMAIN results' = 1..(Len(results) + 1)
        BY <2>1, <2>4, Recording
      <4> QED
        BY <2>3, <4>1
    <3>2. \A k \in DOMAIN results : results'[k] = results[k]
      BY <2>1, <2>4, Recording
    <3> QED
      BY <3>1, <3>2 DEF Keeps
  <2> QED
    BY <2>2, <2>4, <1>0
<1>8. CASE Bad
  BY <1>8, <1>0 DEF Bad, RunKept
<1>9. CASE Review
  <2>1. results' = Resolved
    BY <1>9 DEF Review
  <2>2. DOMAIN Resolved = DOMAIN results
    BY ResolvedResults
  <2>3. SUFFICES ASSUME NEW k \in DOMAIN results, Resolved[k] # results[k]
        PROVE  /\ runMode = "auto" /\ round > 0 /\ k <= before
               /\ \A j \in Corrective : results[j].ok
    BY <2>1, <2>2 DEF Keeps
  <2>4. /\ round > 0 /\ \A j \in Corrective : results[j].ok
        /\ Resolved[k] = [results[k] EXCEPT !.ok = TRUE]
    BY <2>3 DEF Resolved
  <2>5. k \in Nat /\ before \in Nat /\ results[k] \in Result
    BY DEF LoopTypeOK
  <2>6. ~results[k].ok
    BY <2>3, <2>4, <2>5 DEF Result
  <2>7. k <= before
    BY <2>4, <2>5, <2>6 DEF Corrective
  <2> QED
    BY <2>4, <2>7 DEF PlanInv
<1>10. CASE Throws
  BY <1>10, <1>0 DEF Throws
<1>11. CASE ModelCall
  BY <1>11, <1>0 DEF ModelCall, RunKept
<1>12. CASE StepTurnEnds
  BY <1>12, <1>0 DEF StepTurnEnds, RunKept
<1>13. CASE SubAgentThrows
  BY <1>13, <1>0 DEF SubAgentThrows, RunKept
<1>14. CASE FixTurnEnds
  BY <1>14, <1>0 DEF FixTurnEnds, RunKept
<1>15. CASE RepairTurnEnds
  BY <1>15, <1>0 DEF RepairTurnEnds, RunKept
<1>16. CASE Cancel
  BY <1>16, <1>0 DEF Cancel, RunKept
<1>17. CASE Ended
  BY <1>17, <1>0 DEF Ended, loopVars
<1>18. ASSUME NEW p \in Plans, MakePlan(p) PROVE Keeps
  BY <1>18, <1>0 DEF MakePlan
<1>19. ASSUME NEW p \in Plans, Replan(p) PROVE Keeps
  BY <1>19, <1>0 DEF Replan
<1>20. ASSUME NEW cancel \in BOOLEAN, Answered(cancel) PROVE Keeps
  <2>1. (ok /\ ~cancel) \in BOOLEAN /\ (cancel \/ flaw \ {"repair"} # {}) \in BOOLEAN
    BY DEF LoopTypeOK
  <2>2. UNCHANGED results \/ Record((ok /\ ~cancel), (cancel \/ flaw \ {"repair"} # {}))
    BY <1>20 DEF Answered, RunKept
  <2>3. DOMAIN results = 1..Len(results) /\ Len(results) \in Nat
    BY DEF LoopTypeOK
  <2>4. CASE Record((ok /\ ~cancel), (cancel \/ flaw \ {"repair"} # {}))
    <3>1. DOMAIN results \subseteq DOMAIN results'
      <4>1. DOMAIN results' = 1..(Len(results) + 1)
        BY <2>1, <2>4, Recording
      <4> QED
        BY <2>3, <4>1
    <3>2. \A k \in DOMAIN results : results'[k] = results[k]
      BY <2>1, <2>4, Recording
    <3> QED
      BY <3>1, <3>2 DEF Keeps
  <2> QED
    BY <2>2, <2>4, <1>0
<1>21. ASSUME NEW fate \in Fates, RunTool(fate) PROVE Keeps
  BY <1>21, <1>0 DEF RunTool, RunKept
<1>22. ASSUME NEW over \in BOOLEAN, SubAgentEnds(over) PROVE Keeps
  BY <1>22, <1>0 DEF SubAgentEnds, RunKept
<1>23. CASE UNCHANGED loopVars
  BY <1>23, <1>0 DEF loopVars
<1> QED
  BY <1>1, <1>2, <1>3, <1>4, <1>5, <1>6, <1>7, <1>8, <1>9, <1>10, <1>11,
     <1>12, <1>13, <1>14, <1>15, <1>16, <1>17, <1>18, <1>19, <1>20, <1>21,
     <1>22, <1>23
     DEF LoopNext, Turns, Stage, Fates

(* runTask() and runAutoReplan(): a recorded result stays, but for failed     *)
(* ones that a corrective plan, good in every step, has resolved.             *)
THEOREM ResultsStay == LoopSpec => ResultsAreKept
<1>1. IInv /\ [LoopNext]_loopVars => [Keeps]_loopVars
  BY StepKeeps DEF IInv
<1> QED
  BY <1>1, Invariance, PTL DEF LoopSpec, ResultsAreKept, Keeps

=============================================================================
