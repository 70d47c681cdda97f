----------------------------- MODULE DaemonRuns -----------------------------
(***************************************************************************)
(* The run table of the daemon (packages/daemon/src/server.ts).            *)
(*                                                                         *)
(* A message.send starts runMessage() without waiting for it.  A run owns  *)
(* an AbortController, registered under its SESSION's id, and reports to   *)
(* one sqlite row per SESSION (task_results).  Nothing in the daemon stops *)
(* a second message.send from overlapping the first one.                   *)
(*                                                                         *)
(* runTask() is seen from the outside here: a run awaits its provider      *)
(* ("thinking"), works between two provider calls ("acting") or awaits an  *)
(* answer: to the intake's question ("clarifying"), to a permission        *)
(* request or to the judge's question ("waiting").  Only a provider call   *)
(* observes the abort signal.  Module AgentLoop opens runTask() up.        *)
(***************************************************************************)
EXTENDS Integers

CONSTANTS
  Run,          \* message.send requests the clients make
  Session,      \* the sessions they address
  SessionOf,    \* SessionOf[r]: the session run r was sent to
  NoRun,        \* absence from a Map
  MaxSteps,     \* bound: steps of a run's plan
  MaxCrashes,   \* bound: times the daemon process dies
  OneAtATime,   \* TRUE iff clients send only to a session with no live run
  SignalAware   \* TRUE iff the provider passes the AbortSignal on (HTTP ones do)

ASSUME RunsAssumption ==
  /\ SessionOf \in [Run -> Session]
  /\ NoRun \notin Run
  /\ MaxSteps \in Nat \ {0}
  /\ MaxCrashes \in Nat
  /\ OneAtATime \in BOOLEAN
  /\ SignalAware \in BOOLEAN

VARIABLES
  phase,        \* where the async function runMessage() stands
  steps,        \* steps of the plan still to execute
  aborted,      \* signal.aborted of the run's own controller
  swallowed,    \* an AbortError was turned into a failed step by a sub-agent
  controllers,  \* runAbortControllers: Map<sessionId, AbortController>
  row,          \* task_results.status, one row per session, on disk
  crashes,      \* times the process died so far
  outcome,      \* history: what the run itself last reported
  latest,       \* history: the run started last in the session
  asked         \* history: run.cancel was called while the run was live

vars == <<phase, steps, aborted, swallowed, controllers, row, crashes,
          outcome, latest, asked>>

Awaiting == {"clarifying", "waiting"}
LivePhase == {"resolving", "thinking", "acting"} \cup Awaiting
Phase == LivePhase \cup {"unsent", "ended", "lost"}
Status == {"not_found", "running", "done", "failed"}

Live(r) == phase[r] \in LivePhase
RunsOf(s) == {r \in Run : SessionOf[r] = s}

TypeOK ==
  /\ phase \in [Run -> Phase]
  /\ steps \in [Run -> 0..MaxSteps]
  /\ aborted \in [Run -> BOOLEAN]
  /\ swallowed \in [Run -> BOOLEAN]
  /\ controllers \in [Session -> Run \cup {NoRun}]
  /\ row \in [Session -> Status]
  /\ crashes \in 0..MaxCrashes
  /\ outcome \in [Run -> Status]
  /\ latest \in [Session -> Run \cup {NoRun}]
  /\ asked \in [Run -> BOOLEAN]

Init ==
  /\ phase = [r \in Run |-> "unsent"]
  /\ steps = [r \in Run |-> MaxSteps]
  /\ aborted = [r \in Run |-> FALSE]
  /\ swallowed = [r \in Run |-> FALSE]
  /\ controllers = [s \in Session |-> NoRun]
  /\ row = [s \in Session |-> "not_found"]
  /\ crashes = 0
  /\ outcome = [r \in Run |-> "not_found"]
  /\ latest = [s \in Session |-> NoRun]
  /\ asked = [r \in Run |-> FALSE]

-----------------------------------------------------------------------------
(* Steps inside runMessage(). *)

Goto(r, p) == phase' = [phase EXCEPT ![r] = p]

(* Mutant: INSERT OR IGNORE, an existing row keeps its old status. *)
SaveTaskStatus_InsertOnly(r, status) ==
  /\ row' = [row EXCEPT ![SessionOf[r]] = IF @ = "not_found" THEN status ELSE @]
  /\ outcome' = [outcome EXCEPT ![r] = status]

(* saveTaskStatus(): an upsert, whatever the row held before. *)
SaveTaskStatus(r, status) ==
  /\ row' = [row EXCEPT ![SessionOf[r]] = status]
  /\ outcome' = [outcome EXCEPT ![r] = status]

(* The finally block: the entry of the SESSION is deleted, whoever owns it. *)
DropController(r) == controllers' = [controllers EXCEPT ![SessionOf[r]] = NoRun]

(* Success, catch and finally run without an await between them. *)
End(r, status) ==
  /\ Goto(r, "ended")
  /\ SaveTaskStatus(r, status)
  /\ DropController(r)

(* Mutant: the controller stays a local variable of runMessage(). *)
Send_Unregistered(r) ==
  /\ phase[r] = "unsent"
  /\ OneAtATime => \A q \in RunsOf(SessionOf[r]) : ~Live(q)
  /\ Goto(r, "resolving")
  /\ SaveTaskStatus(r, "running")
  /\ latest' = [latest EXCEPT ![SessionOf[r]] = r]
  /\ UNCHANGED <<steps, aborted, swallowed, controllers, crashes, asked>>

(* Mutant: the row is written only when the run has ended. *)
Send_WithoutRow(r) ==
  /\ phase[r] = "unsent"
  /\ OneAtATime => \A q \in RunsOf(SessionOf[r]) : ~Live(q)
  /\ Goto(r, "resolving")
  /\ controllers' = [controllers EXCEPT ![SessionOf[r]] = r]
  /\ latest' = [latest EXCEPT ![SessionOf[r]] = r]
  /\ UNCHANGED <<steps, aborted, swallowed, row, crashes, outcome, asked>>

(* message.send: everything up to the first await, resolveProvider(). *)
Send(r) ==
  /\ phase[r] = "unsent"
  /\ OneAtATime => \A q \in RunsOf(SessionOf[r]) : ~Live(q)
  /\ Goto(r, "resolving")
  /\ controllers' = [controllers EXCEPT ![SessionOf[r]] = r]
  /\ SaveTaskStatus(r, "running")
  /\ latest' = [latest EXCEPT ![SessionOf[r]] = r]
  /\ UNCHANGED <<steps, aborted, swallowed, crashes, asked>>

(* message.send to a session without a model: an error event, no trace. *)
SendWithoutModel(r) ==
  /\ phase[r] = "unsent"
  /\ Goto(r, "ended")
  /\ UNCHANGED <<steps, aborted, swallowed, controllers, row, crashes, outcome, latest, asked>>

(* resolveProvider() succeeds; intake asks about a very short text first. *)
ProviderResolved(r) ==
  /\ phase[r] = "resolving"
  /\ \E p \in {"thinking", "clarifying"} : Goto(r, p)
  /\ UNCHANGED <<steps, aborted, swallowed, controllers, row, crashes, outcome, latest, asked>>

(* Mutant: resolveProvider() is awaited outside the try block. *)
ProviderUnresolved_Uncaught(r) ==
  /\ phase[r] = "resolving"
  /\ Goto(r, "ended")
  /\ DropController(r)
  /\ UNCHANGED <<steps, aborted, swallowed, row, crashes, outcome, latest, asked>>

(* An unknown provider or a missing key: the catch block. *)
ProviderUnresolved(r) ==
  /\ phase[r] = "resolving"
  /\ End(r, "failed")
  /\ UNCHANGED <<steps, aborted, swallowed, crashes, latest, asked>>

(* The provider call sees the signal, unless the provider ignores it. *)
CallReturns(r) ==
  /\ phase[r] = "thinking"
  /\ ~(aborted[r] /\ SignalAware)
  /\ Goto(r, "acting")
  /\ UNCHANGED <<steps, aborted, swallowed, controllers, row, crashes, outcome, latest, asked>>

(* Inside runTask(), with something left that can throw. *)
Working(r) == phase[r] = "thinking" \/ (phase[r] = "acting" /\ steps[r] > 0)

(* Mutant: the catch block reports the error but saves no status. *)
CallThrows_Unsaved(r) ==
  /\ Working(r)
  /\ Goto(r, "ended")
  /\ DropController(r)
  /\ UNCHANGED <<steps, aborted, swallowed, row, crashes, outcome, latest, asked>>

(* An error of the provider, an AbortError included, or of a tool leaves    *)
(* runTask().                                                               *)
CallThrows(r) ==
  /\ Working(r)
  /\ End(r, "failed")
  /\ UNCHANGED <<steps, aborted, swallowed, crashes, latest, asked>>

(* ... unless a sub-agent made the call: its step fails, the plan goes on. *)
CallThrowsInSubAgent(r) ==
  /\ Working(r)
  /\ steps[r] > 0
  /\ steps' = [steps EXCEPT ![r] = @ - 1]
  /\ swallowed' = [swallowed EXCEPT ![r] = @ \/ (aborted[r] /\ SignalAware)]
  /\ Goto(r, "acting")
  /\ UNCHANGED <<aborted, controllers, row, crashes, outcome, latest, asked>>

(* Between two calls: the next turn, judge or step calls the provider. *)
NextCall(r) ==
  /\ phase[r] = "acting"
  /\ steps[r] > 0
  /\ Goto(r, "thinking")
  /\ UNCHANGED <<steps, aborted, swallowed, controllers, row, crashes, outcome, latest, asked>>

(* A permission request or a question; its promise knows no signal. *)
Prompt(r) ==
  /\ phase[r] = "acting"
  /\ steps[r] > 0
  /\ Goto(r, "waiting")
  /\ UNCHANGED <<steps, aborted, swallowed, controllers, row, crashes, outcome, latest, asked>>

(* Mutant: a step too many is counted. *)
StepDone_Unguarded(r) ==
  /\ phase[r] = "acting"
  /\ steps' = [steps EXCEPT ![r] = @ - 1]
  /\ UNCHANGED <<phase, aborted, swallowed, controllers, row, crashes, outcome, latest, asked>>

(* A step of the plan is over, or no route exists for it. *)
StepDone(r) ==
  /\ phase[r] = "acting"
  /\ steps[r] > 0
  /\ steps' = [steps EXCEPT ![r] = @ - 1]
  /\ UNCHANGED <<phase, aborted, swallowed, controllers, row, crashes, outcome, latest, asked>>

(* runTask() returns; the row takes the review's result. *)
Finish(r) ==
  /\ phase[r] = "acting"
  /\ steps[r] = 0
  /\ \E passed \in BOOLEAN :
       /\ swallowed[r] => ~passed
       /\ End(r, IF passed THEN "done" ELSE "failed")
  /\ UNCHANGED <<steps, aborted, swallowed, crashes, latest, asked>>

-----------------------------------------------------------------------------
(* What clients and the operating system do. *)

(* permission.respond or question.respond resolves the promise. *)
Answer(r) ==
  /\ phase[r] \in Awaiting
  /\ Goto(r, IF phase[r] = "clarifying" THEN "thinking" ELSE "acting")
  /\ UNCHANGED <<steps, aborted, swallowed, controllers, row, crashes, outcome, latest, asked>>

(* run.cancel aborts the controller registered for the session, if any. *)
Cancel(s) ==
  /\ aborted' = [r \in Run |-> aborted[r] \/ controllers[s] = r]
  /\ asked' = [r \in Run |-> asked[r] \/ (SessionOf[r] = s /\ Live(r))]
  /\ UNCHANGED <<phase, steps, swallowed, controllers, row, crashes, outcome, latest>>

(* The process dies and is started again: the Maps and every promise are  *)
(* gone, the sqlite file is as it was.                                    *)
Crash ==
  /\ crashes < MaxCrashes
  /\ crashes' = crashes + 1
  /\ phase' = [r \in Run |-> IF Live(r) THEN "lost" ELSE phase[r]]
  /\ controllers' = [s \in Session |-> NoRun]
  /\ UNCHANGED <<steps, aborted, swallowed, row, outcome, latest, asked>>

RunStep(r) ==
  \/ ProviderResolved(r) \/ ProviderUnresolved(r)
  \/ CallReturns(r) \/ CallThrows(r) \/ CallThrowsInSubAgent(r)
  \/ NextCall(r) \/ Prompt(r) \/ StepDone(r) \/ Finish(r)

Next ==
  \/ \E r \in Run : Send(r) \/ SendWithoutModel(r) \/ RunStep(r) \/ Answer(r)
  \/ \E s \in Session : Cancel(s)
  \/ Crash

Spec == Init /\ [][Next]_vars

-----------------------------------------------------------------------------
(* Fairness.  An await on the provider or on a tool settles (a socket is   *)
(* answered or fails), and a step uses finitely many model turns, since    *)
(* MAX_TOOL_TURNS bounds them: it is done if the run keeps coming back to  *)
(* it.  Users are not obliged to answer in FairSpec; they are in           *)
(* AnsweredSpec.                                                           *)

Fairness ==
  \A r \in Run : WF_vars(RunStep(r)) /\ SF_vars(StepDone(r)) /\ WF_vars(Finish(r))

FairSpec == Spec /\ Fairness
AnsweredSpec == FairSpec /\ \A r \in Run : WF_vars(Answer(r))

-----------------------------------------------------------------------------
(* Properties. *)

(* A controller in the Map always belongs to a live run of that session:   *)
(* run.cancel never aborts a finished run, nor one of another session.     *)
ControllerSound ==
  \A s \in Session : controllers[s] # NoRun =>
    Live(controllers[s]) /\ SessionOf[controllers[s]] = s

(* A row that says "running" is backed by a run of that session that has   *)
(* not reported an outcome: one that is live, or one the process took down *)
(* with it.  No path of runMessage() leaves a stale "running" behind.      *)
RunningRowHasRun ==
  \A s \in Session : row[s] = "running" =>
    \E r \in RunsOf(s) : Live(r) \/ phase[r] = "lost"

(* The two places of a session tell of runs that are its own and not over:  *)
(* the Map of controllers and a row that says "running" (server.ts:382-446).*)
TableSound == ControllerSound /\ RunningRowHasRun

(* The row is the status of the run started last in the session (store.ts: *)
(* "only the latest run's outcome").                                       *)
RowIsLatestOutcome ==
  \A s \in Session :
    row[s] = IF latest[s] = NoRun THEN "not_found" ELSE outcome[latest[s]]

(* Every live run a user asked to cancel has its signal raised.            *)
CancelReachesRun == \A r \in Run : asked[r] /\ Live(r) => aborted[r]

(* A run is aborted only on request: run.cancel on one session leaves the  *)
(* runs of every other session alone.                                      *)
AbortOnlyOnRequest ==
  [][\A r \in Run : aborted'[r] /\ ~aborted[r] =>
       asked'[r] /\ Live(r)]_vars

(* A client that submitted work and polls task.status sees an outcome,     *)
(* unless the daemon died with a run of the session (then it may not).     *)
PollerSeesOutcome ==
  \A s \in Session : row[s] = "running" ~>
    row[s] \in {"done", "failed"} \/ \E r \in RunsOf(s) : phase[r] = "lost"

(* A run whose signal is raised ends (ARCHITECTURE.md: "run.cancel aborts  *)
(* cleanly and unwinds sub-agents").                                       *)
CancelUnwinds == \A r \in Run : aborted[r] ~> ~Live(r)

(* The status a client polls behaves as TaskBoard says.                    *)
Board == INSTANCE TaskBoard WITH status <- row
ImplementsTaskBoard == Board!Spec
=============================================================================
