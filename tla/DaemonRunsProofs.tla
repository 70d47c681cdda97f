-------------------------- MODULE DaemonRunsProofs --------------------------
(***************************************************************************)
(* Theorems about DaemonRuns, for every set of runs and sessions.          *)
(***************************************************************************)
EXTENDS DaemonRuns, TLAPS

USE DEF Awaiting, LivePhase, Phase, Status, Live, RunsOf

-----------------------------------------------------------------------------
(* Every variable keeps its type. *)
LEMMA TypeInit == Init => TypeOK
BY RunsAssumption DEF Init, TypeOK

LEMMA TypeNext == TypeOK /\ [Next]_vars => TypeOK'
<1> SUFFICES ASSUME TypeOK, [Next]_vars PROVE TypeOK'
  OBVIOUS
<1> USE RunsAssumption DEF TypeOK, Goto, SaveTaskStatus, DropController, End
<1>1. ASSUME NEW r \in Run, Send(r) PROVE TypeOK'
  BY <1>1 DEF Send
<1>2. ASSUME NEW r \in Run, SendWithoutModel(r) PROVE TypeOK'
  BY <1>2 DEF SendWithoutModel
<1>3. ASSUME NEW r \in Run, RunStep(r) PROVE TypeOK'
  <2>1. CASE ProviderResolved(r)
    BY <2>1 DEF ProviderResolved
  <2>2. CASE ProviderUnresolved(r)
    BY <2>2 DEF ProviderUnresolved
  <2>3. CASE CallReturns(r)
    BY <2>3 DEF CallReturns
  <2>4. CASE CallThrows(r)
    BY <2>4 DEF CallThrows
  <2>5. CASE CallThrowsInSubAgent(r)
    BY <2>5 DEF CallThrowsInSubAgent
  <2>6. CASE NextCall(r)
    BY <2>6 DEF NextCall
  <2>7. CASE Prompt(r)
    BY <2>7 DEF Prompt
  <2>8. CASE StepDone(r)
    BY <2>8 DEF StepDone
  <2>9. CASE Finish(r)
    BY <2>9 DEF Finish
  <2> QED
    BY <1>3, <2>1, <2>2, <2>3, <2>4, <2>5, <2>6, <2>7, <2>8, <2>9 DEF RunStep
<1>4. ASSUME NEW r \in Run, Answer(r) PROVE TypeOK'
  BY <1>4 DEF Answer
<1>5. ASSUME NEW s \in Session, Cancel(s) PROVE TypeOK'
  BY <1>5 DEF Cancel
<1>6. ASSUME Crash PROVE TypeOK'
  BY <1>6 DEF Crash
<1>7. ASSUME UNCHANGED vars PROVE TypeOK'
  BY <1>7 DEF vars
<1> QED
  BY <1>1, <1>2, <1>3, <1>4, <1>5, <1>6, <1>7 DEF Next

(* The variables of the run table keep their types in every behaviour of   *)
(* the daemon, whatever the numbers of runs, sessions, steps and crashes.  *)
THEOREM TypeCorrect == Spec => []TypeOK
<1>1. TypeOK /\ [Next]_vars => TypeOK'
  BY TypeNext
<1> QED
  BY TypeInit, <1>1, PTL DEF Spec

-----------------------------------------------------------------------------
(* What a step of runMessage() does to the shared maps: it ends the run    *)
(* with a final status, or it leaves the maps alone and the run live.      *)
Quietly(r) ==
  /\ \E p \in LivePhase : phase' = [phase EXCEPT ![r] = p]
  /\ UNCHANGED <<controllers, row, outcome>>

LEMMA RunStepEffect ==
  ASSUME TypeOK, NEW r \in Run, RunStep(r)
  PROVE  /\ Live(r)
         /\ UNCHANGED <<aborted, latest, asked, crashes>>
         /\ End(r, "done") \/ End(r, "failed") \/ Quietly(r)
<1> USE DEF TypeOK, Goto, Quietly
<1>1. CASE ProviderResolved(r)
  BY <1>1 DEF ProviderResolved
<1>2. CASE ProviderUnresolved(r)
  BY <1>2 DEF ProviderUnresolved
<1>3. CASE CallReturns(r)
  BY <1>3 DEF CallReturns
<1>4. CASE CallThrows(r)
  BY <1>4 DEF CallThrows, Working
<1>5. CASE CallThrowsInSubAgent(r)
  BY <1>5 DEF CallThrowsInSubAgent, Working
<1>6. CASE NextCall(r)
  BY <1>6 DEF NextCall
<1>7. CASE Prompt(r)
  BY <1>7 DEF Prompt
<1>8. CASE StepDone(r)
  BY <1>8 DEF StepDone
<1>9. CASE Finish(r)
  BY <1>9 DEF Finish
<1> QED
  BY <1>1, <1>2, <1>3, <1>4, <1>5, <1>6, <1>7, <1>8, <1>9 DEF RunStep

(* Answering a prompt is quiet in the same sense. *)
LEMMA AnswerEffect ==
  ASSUME TypeOK, NEW r \in Run, Answer(r)
  PROVE  /\ Live(r)
         /\ UNCHANGED <<aborted, latest, asked, crashes>>
         /\ Quietly(r)
BY DEF Answer, TypeOK, Goto, Quietly

-----------------------------------------------------------------------------
(* The inductive invariant of overlapping runs.  OutcomeMeaning ties the   *)
(* history variable to the phase, so that a "running" row can name the run *)
(* behind it even after a crash.                                           *)
OutcomeMeaning ==
  \A r \in Run : outcome[r] = "running" <=> Live(r) \/ phase[r] = "lost"

RowBacked ==
  \A s \in Session : row[s] = "running" =>
    \E r \in RunsOf(s) : outcome[r] = "running"

TableInv == ControllerSound /\ OutcomeMeaning /\ RowBacked

LEMMA TableInit == Init => TableInv
BY RunsAssumption DEF Init, TableInv, ControllerSound, OutcomeMeaning, RowBacked

LEMMA EndKeepsTable ==
  ASSUME TypeOK, TableInv, NEW r \in Run, Live(r),
         NEW st \in {"done", "failed"}, End(r, st)
  PROVE  TableInv'
<1> USE RunsAssumption DEF TypeOK, TableInv, End, Goto, SaveTaskStatus, DropController
<1>1. ControllerSound'
  BY DEF ControllerSound
<1>2. OutcomeMeaning'
  BY DEF OutcomeMeaning
<1>3. RowBacked'
  <2> SUFFICES ASSUME NEW s \in Session, row'[s] = "running"
               PROVE  \E q \in RunsOf(s) : outcome'[q] = "running"
    BY DEF RowBacked
  <2>1. s # SessionOf[r]
    OBVIOUS
  <2>2. PICK q \in RunsOf(s) : outcome[q] = "running"
    BY <2>1 DEF RowBacked
  <2> QED
    BY <2>1, <2>2
<1> QED
  BY <1>1, <1>2, <1>3

LEMMA QuietKeepsTable ==
  ASSUME TypeOK, TableInv, NEW r \in Run, Live(r), Quietly(r)
  PROVE  TableInv'
BY RunsAssumption
   DEF TypeOK, TableInv, Quietly, ControllerSound, OutcomeMeaning, RowBacked

LEMMA TableNext == TypeOK /\ TableInv /\ [Next]_vars => TableInv'
<1> SUFFICES ASSUME TypeOK, TableInv, [Next]_vars PROVE TableInv'
  OBVIOUS
<1>1. ASSUME NEW r \in Run, Send(r) PROVE TableInv'
  <2> USE <1>1, RunsAssumption DEF TypeOK, TableInv, Send, Goto, SaveTaskStatus
  <2>1. ControllerSound'
    BY DEF ControllerSound
  <2>2. OutcomeMeaning'
    BY DEF OutcomeMeaning
  <2>3. RowBacked'
    BY DEF RowBacked
  <2> QED
    BY <2>1, <2>2, <2>3
<1>2. ASSUME NEW r \in Run, SendWithoutModel(r) PROVE TableInv'
  BY <1>2, RunsAssumption
     DEF TypeOK, TableInv, SendWithoutModel, Goto, ControllerSound, OutcomeMeaning, RowBacked
<1>3. ASSUME NEW r \in Run, RunStep(r) PROVE TableInv'
  BY <1>3, RunStepEffect, EndKeepsTable, QuietKeepsTable
<1>4. ASSUME NEW r \in Run, Answer(r) PROVE TableInv'
  BY <1>4, AnswerEffect, QuietKeepsTable
<1>5. ASSUME NEW s \in Session, Cancel(s) PROVE TableInv'
  BY <1>5 DEF TableInv, Cancel, ControllerSound, OutcomeMeaning, RowBacked
<1>6. ASSUME Crash PROVE TableInv'
  BY <1>6 DEF TypeOK, TableInv, Crash, ControllerSound, OutcomeMeaning, RowBacked
<1>7. ASSUME UNCHANGED vars PROVE TableInv'
  BY <1>7 DEF vars, TableInv, ControllerSound, OutcomeMeaning, RowBacked
<1> QED
  BY <1>1, <1>2, <1>3, <1>4, <1>5, <1>6, <1>7 DEF Next

LEMMA TableInvariant == Spec => [](TypeOK /\ TableInv)
<1>1. Init => TypeOK /\ TableInv
  BY TypeInit, TableInit
<1>2. TypeOK /\ TableInv /\ [Next]_vars => (TypeOK /\ TableInv)'
  BY TypeNext, TableNext
<1> QED
  BY <1>1, <1>2, PTL DEF Spec

(* However many runs overlap, a registered controller belongs to a live    *)
(* run of the session it is registered under.                              *)
THEOREM ControllersAreSound == Spec => []ControllerSound
<1>1. TypeOK /\ TableInv => ControllerSound
  BY DEF TableInv
<1> QED
  BY <1>1, TableInvariant, PTL

(* However many runs overlap and however often the daemon dies, a          *)
(* "running" row has a live or a lost run of its session behind it.        *)
THEOREM RunningRowsHaveRuns == Spec => []RunningRowHasRun
<1>1. TypeOK /\ TableInv => RunningRowHasRun
  BY DEF TableInv, RowBacked, OutcomeMeaning, RunningRowHasRun
<1> QED
  BY <1>1, TableInvariant, PTL

(* The Map and the rows tell only of runs that are there, for any number of *)
(* sessions and overlapping runs and through crashes (server.ts:382-446).   *)
THEOREM TableIsSound == Spec => []TableSound
BY ControllersAreSound, RunningRowsHaveRuns, PTL DEF TableSound

(* run.cancel aborts only live runs of the session it names. *)
THEOREM AbortsAreRequested == Spec => AbortOnlyOnRequest
<1> DEFINE A == \A r \in Run : aborted'[r] /\ ~aborted[r] => asked'[r] /\ Live(r)
<1>1. TypeOK /\ TableInv /\ [Next]_vars => [A]_vars
  <2> SUFFICES ASSUME TypeOK, TableInv, [Next]_vars, ~UNCHANGED vars PROVE A
    OBVIOUS
  <2>1. ASSUME NEW q \in Run, Send(q) \/ SendWithoutModel(q) PROVE A
    BY <2>1 DEF Send, SendWithoutModel
  <2>2. ASSUME NEW q \in Run, RunStep(q) \/ Answer(q) PROVE A
    BY <2>2, RunStepEffect, AnswerEffect
  <2>3. ASSUME NEW s \in Session, Cancel(s), NEW r \in Run, aborted'[r], ~aborted[r]
        PROVE  asked'[r] /\ Live(r)
    <3>1. controllers[s] = r
      BY <2>3 DEF Cancel
    <3>2. Live(r) /\ SessionOf[r] = s
      BY <3>1, RunsAssumption DEF TableInv, ControllerSound
    <3> QED
      BY <2>3, <3>2, Zenon DEF Cancel
  <2>4. ASSUME Crash PROVE A
    BY <2>4 DEF Crash
  <2> QED
    BY <2>1, <2>2, <2>3, <2>4 DEF Next
<1> QED
  BY <1>1, TableInvariant, PTL DEF Spec, AbortOnlyOnRequest

-----------------------------------------------------------------------------
(* Clients that keep to one run per session.  The invariant says that a    *)
(* live run owns its session: its controller is the registered one and it  *)
(* is the latest run; hence no other run of the session is live.           *)
OwnsSession(r) == controllers[SessionOf[r]] = r /\ latest[SessionOf[r]] = r

DisciplineInv ==
  /\ \A r \in Run : Live(r) => OwnsSession(r)
  /\ \A r \in Run : phase[r] = "unsent" => ~asked[r]
  /\ \A s \in Session : latest[s] # NoRun => SessionOf[latest[s]] = s
  /\ CancelReachesRun
  /\ RowIsLatestOutcome

LEMMA DisciplineInit == Init => DisciplineInv
BY RunsAssumption
   DEF Init, DisciplineInv, OwnsSession, CancelReachesRun, RowIsLatestOutcome

LEMMA EndKeepsDiscipline ==
  ASSUME TypeOK, DisciplineInv, NEW r \in Run, Live(r),
         NEW st \in {"done", "failed"}, End(r, st), UNCHANGED <<aborted, latest, asked>>
  PROVE  DisciplineInv'
<1> USE RunsAssumption DEF TypeOK, DisciplineInv, End, Goto, SaveTaskStatus, DropController
<1>1. \A q \in Run : (Live(q))' => q # r /\ Live(q) /\ SessionOf[q] # SessionOf[r]
  BY DEF OwnsSession
<1>2. \A q \in Run : (Live(q))' => (OwnsSession(q))'
  BY <1>1 DEF OwnsSession
<1>3. \A q \in Run : phase'[q] = "unsent" => ~asked'[q]
  OBVIOUS
<1>4. \A s \in Session : latest'[s] # NoRun => SessionOf[latest'[s]] = s
  OBVIOUS
<1>5. CancelReachesRun'
  BY <1>1 DEF CancelReachesRun
<1>6. RowIsLatestOutcome'
  <2> SUFFICES ASSUME NEW s \in Session
               PROVE  row'[s] = IF latest'[s] = NoRun THEN "not_found" ELSE outcome'[latest'[s]]
    BY DEF RowIsLatestOutcome
  <2>1. CASE s = SessionOf[r]
    BY <2>1 DEF OwnsSession
  <2>2. CASE s # SessionOf[r]
    BY <2>2 DEF RowIsLatestOutcome, OwnsSession
  <2> QED
    BY <2>1, <2>2
<1> QED
  BY <1>2, <1>3, <1>4, <1>5, <1>6

LEMMA QuietKeepsDiscipline ==
  ASSUME TypeOK, DisciplineInv, NEW r \in Run, Live(r), Quietly(r),
         UNCHANGED <<aborted, latest, asked>>
  PROVE  DisciplineInv'
<1>1. \A q \in Run : (Live(q))' <=> Live(q)
  BY DEF Quietly, TypeOK
<1>2. \A q \in Run : phase'[q] = "unsent" => phase[q] = "unsent"
  BY DEF Quietly, TypeOK
<1> QED
  BY <1>1, <1>2 DEF Quietly, DisciplineInv, OwnsSession, CancelReachesRun, RowIsLatestOutcome

LEMMA SendKeepsDiscipline ==
  ASSUME TypeOK, DisciplineInv, OneAtATime, NEW r \in Run, Send(r)
  PROVE  DisciplineInv'
<1> USE RunsAssumption DEF TypeOK, DisciplineInv, Send, Goto, SaveTaskStatus
<1>1. \A q \in Run : (Live(q))' => q = r \/ (Live(q) /\ SessionOf[q] # SessionOf[r])
  OBVIOUS
<1>2. \A q \in Run : (Live(q))' => (OwnsSession(q))'
  BY <1>1 DEF OwnsSession
<1>3. \A q \in Run : phase'[q] = "unsent" => ~asked'[q]
  OBVIOUS
<1>4. \A s \in Session : latest'[s] # NoRun => SessionOf[latest'[s]] = s
  OBVIOUS
<1>5. CancelReachesRun'
  BY <1>1 DEF CancelReachesRun
<1>6. RowIsLatestOutcome'
  BY DEF RowIsLatestOutcome
<1> QED
  BY <1>2, <1>3, <1>4, <1>5, <1>6

LEMMA CancelKeepsDiscipline ==
  ASSUME TypeOK, DisciplineInv, NEW s \in Session, Cancel(s)
  PROVE  DisciplineInv'
<1>1. \A q \in Run : (Live(q))' => (OwnsSession(q))'
  BY DEF Cancel, DisciplineInv, OwnsSession
<1>2. \A q \in Run : phase'[q] = "unsent" => ~asked'[q]
  <2> SUFFICES ASSUME NEW q \in Run, phase'[q] = "unsent" PROVE ~asked'[q]
    OBVIOUS
  <2>1. phase[q] = "unsent" /\ ~Live(q)
    BY DEF Cancel
  <2>2. ~asked[q]
    BY <2>1 DEF DisciplineInv
  <2> QED
    BY <2>1, <2>2, Zenon DEF Cancel
<1>3. CancelReachesRun'
  <2> SUFFICES ASSUME NEW q \in Run, asked'[q], (Live(q))' PROVE aborted'[q]
    BY DEF CancelReachesRun
  <2>1. Live(q)
    BY DEF Cancel
  <2>2. asked[q] \/ SessionOf[q] = s
    BY Zenon DEF Cancel
  <2>3. aborted[q] \/ controllers[s] = q
    BY <2>1, <2>2 DEF DisciplineInv, CancelReachesRun, OwnsSession
  <2> QED
    BY <2>3, Zenon DEF Cancel
<1>4. RowIsLatestOutcome'
  BY DEF Cancel, DisciplineInv, RowIsLatestOutcome
<1>5. \A t \in Session : latest'[t] # NoRun => SessionOf[latest'[t]] = t
  BY DEF Cancel, DisciplineInv
<1> QED
  BY <1>1, <1>2, <1>3, <1>4, <1>5 DEF DisciplineInv

LEMMA DisciplineNext ==
  ASSUME OneAtATime
  PROVE  TypeOK /\ DisciplineInv /\ [Next]_vars => DisciplineInv'
<1> SUFFICES ASSUME TypeOK, DisciplineInv, [Next]_vars PROVE DisciplineInv'
  OBVIOUS
<1>1. ASSUME NEW r \in Run, SendWithoutModel(r) PROVE DisciplineInv'
  <2>1. \A q \in Run : (Live(q))' => Live(q)
    BY <1>1 DEF SendWithoutModel, TypeOK, Goto
  <2>2. \A q \in Run : phase'[q] = "unsent" => phase[q] = "unsent"
    BY <1>1 DEF SendWithoutModel, TypeOK, Goto
  <2> QED
    BY <1>1, <2>1, <2>2
       DEF SendWithoutModel, DisciplineInv, OwnsSession, CancelReachesRun, RowIsLatestOutcome
<1>2. ASSUME NEW r \in Run, RunStep(r) PROVE DisciplineInv'
  BY <1>2, RunStepEffect, EndKeepsDiscipline, QuietKeepsDiscipline
<1>3. ASSUME NEW r \in Run, Answer(r) PROVE DisciplineInv'
  BY <1>3, AnswerEffect, QuietKeepsDiscipline
<1>4. ASSUME Crash PROVE DisciplineInv'
  BY <1>4 DEF TypeOK, DisciplineInv, Crash, OwnsSession, CancelReachesRun, RowIsLatestOutcome
<1>5. ASSUME UNCHANGED vars PROVE DisciplineInv'
  BY <1>5 DEF vars, DisciplineInv, OwnsSession, CancelReachesRun, RowIsLatestOutcome
<1> QED
  BY <1>1, <1>2, <1>3, <1>4, <1>5, SendKeepsDiscipline, CancelKeepsDiscipline DEF Next

LEMMA DisciplineInvariant ==
  ASSUME OneAtATime
  PROVE  Spec => [](TypeOK /\ TableInv /\ DisciplineInv)
<1>1. Init => TypeOK /\ TableInv /\ DisciplineInv
  BY TypeInit, TableInit, DisciplineInit
<1>2. TypeOK /\ TableInv /\ DisciplineInv /\ [Next]_vars
        => (TypeOK /\ TableInv /\ DisciplineInv)'
  BY TypeNext, TableNext, DisciplineNext
<1> QED
  BY <1>1, <1>2, PTL DEF Spec

(* If clients keep to one run per session, task.status always shows the    *)
(* state of the session's latest run, across crashes of the daemon too.    *)
THEOREM RowIsLatestOutcomeHolds == ASSUME OneAtATime PROVE Spec => []RowIsLatestOutcome
<1>1. TypeOK /\ TableInv /\ DisciplineInv => RowIsLatestOutcome
  BY DEF DisciplineInv
<1> QED
  BY <1>1, DisciplineInvariant, PTL

(* If clients keep to one run per session, run.cancel raises the signal of *)
(* every live run it is asked to cancel.                                   *)
THEOREM CancelReachesRunHolds == ASSUME OneAtATime PROVE Spec => []CancelReachesRun
<1>1. TypeOK /\ TableInv /\ DisciplineInv => CancelReachesRun
  BY DEF DisciplineInv
<1> QED
  BY <1>1, DisciplineInvariant, PTL

(* If clients keep to one run per session, the run table implements the    *)
(* abstract TaskBoard: a final status replaces only "running".             *)
THEOREM RunsImplementTaskBoard == ASSUME OneAtATime PROVE Spec => ImplementsTaskBoard
<1>1. Init => Board!Init
  BY DEF Init, Board!Init
<1>2. TypeOK /\ TableInv /\ DisciplineInv /\ [Next]_vars => [Board!Next]_row
  <2> SUFFICES ASSUME TypeOK, TableInv, DisciplineInv, [Next]_vars
               PROVE  [Board!Next]_row
    OBVIOUS
  <2> USE RunsAssumption DEF Board!Next, Board!Submit, Board!Settle, Board!Final
  <2>1. ASSUME NEW r \in Run, Send(r) PROVE [Board!Next]_row
    <3>1. Board!Submit(SessionOf[r])
      BY <2>1 DEF Send, SaveTaskStatus
    <3> QED
      BY <3>1
  <2>2. ASSUME NEW r \in Run, RunStep(r) PROVE [Board!Next]_row
    <3>1. CASE Quietly(r)
      BY <3>1 DEF Quietly
    <3>2. ASSUME NEW st \in {"done", "failed"}, End(r, st), Live(r) PROVE [Board!Next]_row
      <4>1. row[SessionOf[r]] = "running"
        BY <3>2 DEF DisciplineInv, OwnsSession, RowIsLatestOutcome, TableInv, OutcomeMeaning
      <4>2. Board!Settle(SessionOf[r])
        BY <3>2, <4>1 DEF End, SaveTaskStatus
      <4> QED
        BY <4>2
    <3> QED
      BY <2>2, <3>1, <3>2, RunStepEffect
  <2>3. ASSUME NEW r \in Run, SendWithoutModel(r) \/ Answer(r) PROVE UNCHANGED row
    BY <2>3 DEF SendWithoutModel, Answer
  <2>4. ASSUME NEW s \in Session, Cancel(s) PROVE UNCHANGED row
    BY <2>4 DEF Cancel
  <2>5. ASSUME Crash \/ UNCHANGED vars PROVE UNCHANGED row
    BY <2>5 DEF Crash, vars
  <2> QED
    BY <2>1, <2>2, <2>3, <2>4, <2>5 DEF Next
<1> QED
  BY <1>1, <1>2, DisciplineInvariant, PTL DEF Spec, ImplementsTaskBoard, Board!Spec
=============================================================================
