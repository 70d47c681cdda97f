# OtoClaw in TLA+

OtoClaw is a coding agent: a daemon on the user's machine runs an agent for each session,
clients (a terminal UI, a desktop app, a browser bridge) talk to the daemon over a WebSocket,
and the agent asks a language model for a plan, executes it with tools, and judges the result.
These modules specify the parts of it whose correctness depends on the order of events, TLC
checks them on small instances, and TLAPS proves the main properties for every value of the
constants.

    tlc -workers 2 -config MCDaemonRuns.cfg MCDaemonRuns.tla      # a run
    tlapm DaemonRunsProofs.tla                                    # a module of proofs

`PROJECT.json` lists the runs, the theorems, the hazards the properties are for, and for each
definition the lines of `src/` it translates.

## The system

| Component | State it keeps | Operations | Hard behaviour | What makes it correct |
|---|---|---|---|---|
| Run table, `daemon/src/server.ts` | `runAbortControllers`, `sessionStates`, one `task_results` row per session | `message.send`, `run.cancel`, `task.status`, end of the process | runs of a session overlap; the map and the row have one place per session; the process dies | a cancel reaches the live run and no other; the row tells the latest run's fate; nothing stays "running" |
| Prompts and permissions, `daemon/src/channels.ts`, `permission/src` | `pendingPermissions`, `pendingQuestions`, `sessionOverrides`, `config.json` | `permission.respond`, `question.respond`, `mode.set`, `config.set`, `browser.act`, the check before each tool call | prompts of several runs and requests are open at once; a run holds a snapshot of mode and config but a reference to the overrides | nothing runs silently without a ground; answers are heeded; dangerous commands are always asked about |
| Agent loop, `agent/src/loop.ts` | plan, step results, the turn in hand | intake, plan, execute, test and fix, judge and repair, auto-replan, review | nested bounded loops; failure travels through booleans; cancel at any moment | a passed review hides no failure; every step is reported; the run ends |
| Sub-agents, `agent/src/subagents.ts`, `worktree.ts` | semaphore (permits, queue), git worktrees | spawn, acquire, release, create, finalize, discard | a process-wide limit shared by all runs; every way a turn can end; git that fails | permits are conserved, the queue is fair, no work is lost |
| Judge and council, `agent/src/judge.ts`, `council.ts` | none | a verdict, a panel's majority | ties, empty panels, answers that do not parse or never come | the label is the panel's majority, the score its mean, every note its judge's |
| Bridge, `server.ts`, `apps/extension` | `bridgeClients`, `pendingBridgeRequests`, the native host's buffers | `bridge.register`, `browser.*`, responses, close | no timeout; several bridges; disconnects | no request waits for a bridge that is gone |
| MCP, `mcp/src` | handles by name, restart counter, timers | connect, unexpected close, restart with backoff, disconnect | closes during awaits; two connects of one name | one process per name; a closed handle stays closed |
| Skills, `skills/src` | registry, quarantine, skills directory | acquire, verify, promote | two installations at once, a crash between files | nothing half-installed is loaded; an acquisition installs on the user's word only |
| Tools, `tools/src` | files, child processes | fs, shell, web, GitHub, YouTube, browser test | a timeout against an exit; edits that overlap | an edit is not lost; a result tells what happened |
| Providers, `providers/src` | keychain | streamed chat | tool calls in fragments, aborts | calls are put together as they were sent |
| Google, `google/src` | stored tokens | refresh, mail and calendar calls | refreshes that race | a newer token is not replaced by an older |
| Configuration and discovery, `daemon/src/config.ts`, `main.ts`, `cli/src/index.tsx` | `config.json`, `daemon.json` | `config.get/set`, start, stop, wait for a daemon | two processes on one file | a client finds the daemon that lives |
| Clients, `cli/src`, `apps/desktop/lib` | pending calls, the prompt shown, panels | requests, notifications, dialogs | prompts replace one another; a socket closes under pending calls | every prompt can be answered; every call is settled |

How they interact.  A client's `message.send` starts `runMessage()` in the daemon, which is not
awaited: it registers an AbortController, writes the row, and awaits `runTask()` of the agent
loop.  The loop calls the provider and the tools; before a tool runs it asks the permission
engine, and if need be the session's permission channel, which broadcasts a request to all
clients and awaits `permission.respond`.  A step of the plan may be given to a sub-agent, which
waits in the process-wide semaphore first.  `run.cancel` aborts the registered controller, and
only provider calls look at its signal.  Answers and events go to every client; each picks out what
concerns its own session.  The registries of skills and MCP servers, the configuration, the Google
tokens and the user's files are shared by all runs, whose steps interleave at every `await`.

## Modules

| Module | Models | Extends / uses |
|---|---|---|
| `DaemonRuns` | the run table; `runTask()` is seen from the outside | `TaskBoard` as the abstract specification |
| `TaskBoard` | what `task.status` promises | |
| `SubAgentPool` | semaphore, `spawnSubAgent()`, worktrees | |
| `PermissionEngine` | `check()` and `resolvePolicy()` as operators | |
| `PermissionDecision` | one decision, for every input, against the order of its sources | `PermissionEngine` |
| `SessionPermissions` | sessions, runs, prompts and configuration over time | composes `PermissionEngine` |
| `AgentLoop` | one run from intake to review | |
| `PromptRoundTrip` | a prompt from the daemon's channel over the socket to a screen, and its answer back | |
| `BrowserBridge` | browser requests, the daemon's bridges, native hosts and the extension's ports | |
| `McpServers` | handles, restarts with backoff, registry, `mcp.connect` and `mcp.disconnect` | |
| `JudgePanel` | `judge()` and the council of lenses | |
| `ToolCallStream` | a model turn's tool calls: provider stream, reassembly, execution, next request | |
| `DraftWindows` | composing and sending Gmail drafts in a page the user shares | |
| `SkillAcquisition` | finding, approving, installing and loading skills | |
| `GoogleTokens` | the OAuth tokens: read, refreshed, stored, refused | |
| `ShellRun` | one `shell.run` against its clock | |
| `FileEdits` | `fs.read`, `fs.write`, `fs.edit` on one file | |
| `WebCache` | `web.fetch` and its cache files | |
| `CliSetup` | `config.json`, `.env`, the mode and model of sessions and screens, the wizard | |
| `DaemonDiscovery` | `daemon.json` between daemons and CLIs that start, stop and die | |
| `RunScreen` | a run's events and the transcript a CLI makes of them | |
| `...Proofs` | theorems about the module of that name | TLAPS |
| `ConnectionProofs` | theorems about the modules of `MCConnections` and about that instance | `MCConnections`, TLAPS |
| `StoredStateProofs` | theorems about `SkillAcquisition`, `GoogleTokens`, `CliSetup`, `DaemonDiscovery`, `FileEdits`, `WebCache` | TLAPS |
| `OperationProofs` | theorems about `ToolCallStream`, `DraftWindows`, `ShellRun`, `RunScreen` and about `MCOperations` | `MCOperations`, `StoredStateProofs` |
| `MCConnections` | `PromptRoundTrip`, `BrowserBridge`, `McpServers`, `JudgePanel` | |
| `MCOperations` | the ten modules from `ToolCallStream` on | |
| `MCAgent` | `AgentLoop`, `PermissionDecision`, `SessionPermissions` | `MCPermissionDecision`, `MCSessionPermissions` |
| `MCRunsAndPool` | `DaemonRuns` under `OneAtATime`, `SubAgentPool` | `MCDaemonRuns` |
| other `MC...` | instances for TLC | the module of that name |

In `MCConnections`, `MCOperations`, `MCAgent` and `MCRunsAndPool` the modules share no state, so a behaviour follows one of them,
its `focus`, and the others rest in an initial state: what TLC explores is the union of the
modules' state spaces and not their product.  The fairness of a module is asked of the behaviours that follow it.

### DaemonRuns

`phase[r]` is where the async function of run `r` stands: "resolving" (awaits the provider's
resolution), "thinking" (awaits a model call), "acting" (between two of them), "clarifying" and
"waiting" (await an answer), "ended", or "lost" with a process that died.  What the code does
without an `await` in between is one action: `Send` is `message.send` up to the first await, `End`
is success or catch and finally together.  `controllers` is the Map by session, and `DropController`
deletes the SESSION's entry as the finally block does.  `row` survives `Crash`, the rest does not.
`OneAtATime` is a discipline of the clients, not of the daemon: nothing in the code enforces it, so
the runs with it FALSE are about the code as it is, and those with it TRUE say what a client
gets that waits for its run.  The CLI does not wait: its input line is open while a run goes on.

`TaskBoard` is the abstract specification: a session has one status, accepted work shows as
"running", and only "running" turns into a final status.  The refinement maps `status` to `row`.

### SubAgentPool

`available` and `queue` are the fields of the Semaphore.  A release hands its permit straight to
the first waiter in the same step, without counting it, as `release()` does when it calls the
waiter's resolver.  `tree[a]` is a coder's worktree: clean, dirty, committed, or removed;
`CheckStatus` decides by what `git status --porcelain` prints, so a committed worktree, and one
whose git fails, look empty.  `Committers` and `GitTrouble` say which agents may commit and where git may fail; the properties are about the others unless they say so.  A turn that needs the user ("asking") awaits the
parent's permission channel, which knows neither a timeout nor the signal: without an answer it holds its permit for ever.  The concurrency cap is
computed with both branches of `detectCoreCount()`.  (The comment at `subagents.ts:19` promises
`min(cores - 2, 8)`; with `navigator.hardwareConcurrency`, which Bun has, nothing is subtracted.  `CapRespected`
is about the computed cap.)

### PermissionEngine, PermissionDecision, SessionPermissions

`Check` is `check()` line by line; a command is the set of pattern lists it matches, so the regular
expressions themselves are not modelled.  `PermissionDecision` puts every input through it.
`SessionPermissions` is the gate over time: a run's `snapshot` holds mode and config as they were
at `message.send`, while the overrides are looked up at the moment of the call, because the
code passes that object by reference.  `Learn` writes under the tool's name; `ResolvePolicy` reads
under the permission key.  Both callers pass `projectPolicy: null`, so a project's `policy.json` is
never consulted by the daemon, although ARCHITECTURE.md:344 lists it; the engine's handling of it is
checked in `PermissionDecision`.  There `EngineOrder` is the code's order as a whole, also where it is not the documented one: the
allow list is consulted before the sources (`AllowListBeatsSources`), so it silences what a session or the config denies.
The test command of a code step is a `shell.run` that passes the gate by (`event.gated` is FALSE), in any mode; `SilentHasBasis`
names it as the one exception.  `event` is a history variable: what the last step decided or ran.
`Restart` rebuilds the session from its row: what it learned is gone, and the mode is the one it was
created with.

### AgentLoop

`pc` is the stage, `turn` the model-and-tool turn in hand with its owner (the step, a sub-agent, a
fix of failing tests, or a repair).  Each stage's loop has its counter in the state (`turn.calls`,
`attempt`, `verdicts`, `round`), and the bounds are constants.  The tool calls of a response run one by one, and each may be
declined, in whichever turn.  `flaw` is a history variable: what went wrong in the step and is not made good.  A call declined in a
fix turn is made good by a test that passes, one in a repair turn by a good verdict or the user's acceptance; nothing makes one of
the step's or its sub-agent's turn good.  `signalAware` says whether the provider looks at the signal; the CLI delegate does not, and
a cancelled run of it goes on calling the model.  No tool and no test command is given the signal: `late` counts those that a
cancelled run still ran.  The turn of an ordinary
step that is cut off by the limit is not a failure (`StepTurnEnds`), that of a sub-agent is
(`SubAgentEnds`), as in the code.  `Throws` ends the run from wherever a model call or a tool
throws; a sub-agent's is caught.

### PromptRoundTrip

`Request` is `DaemonPermissionChannel.request()` or the question channel's `ask()` up to its await:
the promise goes into the daemon's map (`stage[p]` = "pending") and an "ask" to every linked screen.
`HandleMessage` is one frame at the client: a prompt of another session is dropped, one of its own takes
THE place of its kind (`slot`), and a reply settles a request (`inflight`).  Ink calls the key
handler of the last drawing, so `handler` lags behind `slot` until `Redraw`.  `OnRespond` is a key
press, `Respond` the daemon's handler.  `Serial` are screens whose session has one prompt at a
time; a second prompt of a session that does not keep to that overwrites the first, which then
nobody can answer, and its run waits for ever.  That is in the model, and the properties about it
are about `Serial`.

### BrowserBridge

`bridges` is the Set `bridgeClients` in its order of insertion, `carrier[r]` the one a request was sent to.
The daemon does not keep `carrier`: `SocketClose` rejects the pending requests only when no bridge is left,
so with two of them the requests of the one that left are never settled (`overlapped` records that
there were two).  The hosts of the repository drop what they are sent; `Answering` are hosts that
answer, as those of the tests do.  A request to a silent host stays pending as long as it lives.

### McpServers

A handle has a transport per connect (`Slot`s), and knows the last one.  `ScheduleRestarts` is reached from
`onclose` and from the catch of a failed restart, so a failure can schedule two (`forked`), and the
attempt counter bounds both chains together.  Disconnects of one name may overlap (`closing` counts
them): the later one closes again what is closed, and deletes whatever it finds.  `raced` records operations on a name that overlap
others: `connectOne()` has no lock, and `set()` takes the name from a handle whose process lives,
`disconnectOne()` deletes whatever is registered when its close is over, and a first connect that
fails leaves a handle that restarts and that nobody holds.  The properties say what is true without these.

### JudgePanel

`replies` is the sequence in which judges answer; `Promise.all()` puts verdicts back in the order of the
lenses.  A score is 10 or 45, so that means are rounded; `NoScore` stands for NaN and for a reply
without a number.  A lens without a name (`Blank`) makes its judge enter the panel once more, which has the
same lens in it, and so on without end; `JudgeComesBack` is about panels whose lenses have names.  The label is checked against a definition by sets of judges and not by counting.

### ToolCallStream, FileEdits, WebCache, ShellRun

`ToolCallStream` has both providers: one numbers calls by content block, the other sends an id and a name with the first
piece only.  A stream may be cut between any two pieces, and both providers take that for its end;
`parseArgs()` makes `{}` of what does not parse, whether it was cut or the model wrote no JSON (`malformed`), and the tool runs with it
(`ArgumentsAreTheModels`: only for these two reasons, or when two calls come under one id).
`FileEdits` has the two awaits of each call, the moment in which `writeFile()` has emptied the file, and `String.replace()`'s
reading of `$&` (`Pattern` stands for such a replacement, `Expanded` for what comes of it).  A write may fail before the file is opened
(`OpenFails`) or after it was cut (`FillBreaks`): both are caught and returned alike, and the second leaves the file cut, which no
error tells (`broken`).  Calls that overlap lose one another's work with both reporting success, and mix what they write (`Written`);
`disturbed` records it until a call begins alone.  Nothing in the code prevents that, so of overlapping calls `EditsAreTold` only says
that no cut file stays behind without a broken write.  `WebCache` keeps answers of any status, so a cached answer is ok
even if the server's was an error.  `ShellRun` counts time in grace periods, and time passes only when no timer is due.

### SkillAcquisition, GoogleTokens

`acquireSkill()` asks the user and calls the installer it was given; `sandboxInstallSkill()` goes through a quarantine folder and one
`rename()`, which fails on a folder that is there.  Nothing in the repository hands the second to the first: the daemon's installer
does nothing (`server.ts:644`).  They are separate calls here, and what an acquisition's installer does is left open.  The daemon
loads two directories when it starts: `<cwd>/skills`, whose folders nobody has approved (`project`), and `~/.otoclaw/skills`, where
only `sandboxInstallSkill()` writes.  `SkillsSound` is about the second, and says that a registered skill is from the first otherwise.
That a folder's manifest bears the folder's name is assumed.  The token endpoint is external: it keeps refresh tokens or rotates them, at will.
`torn` records refreshes that overlapped or were cut off: then the stored token can be one that a rotating endpoint refuses.

### CliSetup, DaemonDiscovery, RunScreen, DraftWindows

`CliSetup` has the one-level merge of `config.set`, which any client may send with a mode, a model or permissions, the file that is
written in place, the `.env` line that stands in for a missing model, and sessions whose mode a later `config.set` leaves alone.  The input line
is active below the wizard too, and a `/mode` may be submitted while another is unanswered (`asked`).  The mode that is shown is the one the
session's NEXT run starts with; a run in flight keeps its own (`perm_manual`).
In `DaemonDiscovery` a daemon that is told to stop first closes its server (`StopServer`), and CLIs may start another one before it removes
`daemon.json`, whoever wrote it (`RemoveDaemonFile`), or is writing it (`unlinked`); a killed daemon leaves the file, and
`waitForDaemon()` takes whatever it can read.  `alone` records that no CLI looked while a daemon came up, or started one while another
shut down; what happens otherwise is told with the disagreements below.  `RunScreen` gathers streamed text by session,
not by run: text of overlapping runs mixes, and after a failed run the screen goes on "streaming" and the text is dropped at the
next intake.  `DraftWindows` has every `querySelector` as the first match at that moment, and hands, the user's or those of the generic
click and type actions, that open, edit, close and send windows (`OpenByHand`, `EditByHand`, `CloseByHand`).  `calm` records that nobody
interfered with a compose; between composes hands may do what they like, and `handed` and `touched` record to which letters and windows.

## What is checked

Passing runs:

| Run | Question | States | Bounds, and why they are enough |
|---|---|---|---|
| `runs_overlap` | What holds of the run table however clients behave? | 76,772 | Two runs in one session and one in another: every overlap of two runs and every leak across sessions; one step per plan; one crash, which can fall before, between and during the runs |
| `runs_and_pool` | What does a client get that waits for its run? Does the semaphore conserve permits, serve in order, does every spawn resolve if prompts are answered, and what becomes of the work? | 63,540 | As above, with `OneAtATime`; four agents on two permits: two hold and two queue, enough for a release to choose and for overtaking |
| `agent` | Can a review pass over a failure, and does a run end? In which order do danger, lists and sources decide? Does anything run without a ground; are answers heeded? | 1,293,600 | Plans of one and two steps of every kind, two model calls per turn (10 in the code), one for a sub-agent (6), with the code's 3 test runs, 2 repairs and 1 replan; providers that see the signal, and the CLI delegate. Every value of every source for a key that policy.json has and one that it has not. Two sessions, a run and a browser request; tools named like their key and not; two configurations; one answer that teaches; one restart |
| `connections` | Where somebody waits for an answer, is it the right one and does it come? | 280,467 | Two screens, one question and two permissions, four responses; two requests, three hosts (one silent) of two ports; three handles of one server, one of them broken, two restarts and three connects each, two disconnects at once; up to three lenses, one of them without a name |
| `operations` | Is what an operation leaves behind whole and true whatever falls between its steps? | 3,789,418 | Two of everything that can overlap (calls, mails and windows, editors, fetches, screens; three installations, daemons and runs; one CLI that configures against any other client's `config.set`, with two `/mode` unanswered), two pieces per call, two files per skill, three tokens, a timeout of three grace periods, one crash where crashes are counted |

Runs that TLC shows violated, each a disagreement between the code and what its documents, comments or
tests say:

| Run | What the code does |
|---|---|
| `runs_lost_cancel` | With two overlapping runs of a session, the second registers over the first, and the first to end deletes the other's controller: `run.cancel` answers ok, and at least one live run is left untouched |
| `runs_cancel_waits` | A cancelled run that awaits a permission or a question goes on waiting: the promise knows no signal |
| `pool_commit` | A coder that commits in its worktree has an empty `git status`; the worktree is removed and the result has no diff |
| `perm_forgets` | Answers are learned under the tool's name and looked up under the key, so `always` for `fs.edit` or a browser action has no effect on the next call |
| `perm_allow_list` | A command on the allow list runs silently although the session, the project or the config denies it, where ARCHITECTURE.md:344-348 has the allow list resolve only what is left at `ask` |
| `perm_manual` | A run that started in auto mode goes on in it after `mode.set` to manual, where OTOCLAW_PLAN.md:226 has the agent pause before every tool call |
| `loop_cancel` | Tools and test commands are not given the signal, and run after `run.cancel`, against ARCHITECTURE.md:314 |

More disagreements were met; each is in the model, and none has a run of its own:

* The test command of a code step runs without a prompt in manual mode too (`codeTestDebug.ts:43`), where OTOCLAW_PLAN.md:226 has the
  agent pause before every tool call: `TestCommand`, the exception `SilentHasBasis` names.
* The CLI delegate does not look at the signal (`cli-delegate.ts:96-121`), against ARCHITECTURE.md:314: a cancelled run of it goes on
  calling the model (`ModelIsCalled`), so `CancelStopsWork` speaks of the other providers.
* A CLI takes the `daemon.json` of a killed daemon and gives up on the daemon it has just started, although `index.tsx:31` means to
  "treat as absent" a stale file: `CalmCliConnects` is about daemons that stop in order.
* A daemon that shuts down late removes the `daemon.json` of the one that runs (`server.ts:784-789`), which no later CLI finds:
  `CalmDaemonIsTheOne` is about daemons that come up while no other one shuts down.
* `policy.json` is not consulted by the daemon: both callers pass `projectPolicy: null` (`server.ts:411`), against ARCHITECTURE.md:344.
* With overlapping runs the row is whichever run ended last, where `store.ts:37-39` says "only the latest run's
  outcome" (`RowIsLatestOutcome` holds under `OneAtATime` and fails without).
* A repair changes a code step's files after its tests passed, and nothing tests them again (`loop.ts:291`).
* After a restart a session has the mode it was created with, not the one last set (`server.ts:220`).

Properties by module (the name that the run checks, and its parts):

* `DaemonRuns`: `TableSound` (`ControllerSound`, `RunningRowHasRun`) and `PollerSeesOutcome` for any clients; `RowIsLatestOutcome`,
  `CancelReachesRun` and the refinement `ImplementsTaskBoard` for clients that wait.
* `SubAgentPool`: `SemaphoreSound` (`PermitsConserved`, `NoIdlePermit`, `QueueIsWaiting`, `CapRespected`), `WorkIsFound` (`NoOrphanTree`,
  `NoWorkDropped`), `FirstComeFirstServed`, `EverySpawnResolves`.
* `PermissionDecision`: `EngineOrder` (`MostSpecificWins`, `DangerNeverSilent`, `DenyListBeatsAllowList`, `ManualAlwaysAsks`, `AllowListBeatsSources`).
* `SessionPermissions`: `SilentHasBasis`, `TeachingIsHeeded`.
* `AgentLoop`: `ReviewIsTrue` (`PassedMeansClean`, `EveryStepReported`), `ResultsAreKept`, `CancelStopsWork`, `Terminates` (`RunsTerminate` in `MCAgent`).
* `PromptRoundTrip`: `PromptsSound` (`AnswerIsTheUsers`, `WaitingIsInFlight`, `SerialPromptNotLost`), `SerialPromptAnswered`.
* `BrowserBridge`: `BridgesSound` (`NoBridgeNothingPending`, `PendingHasItsBridge`, `BridgesAreLiveHosts`), `BridgeCallsEnd`.
* `McpServers`: `HandlesSound` (`OneProcessPerHandle`, `ProcessesAreHeld`, `StatusIsTrue`), `BrokenIsGivenUp`.
* `JudgePanel`: `VerdictIsThePanels` (`MajorityDecides`, `ScoreIsAMean`, `NotesKeepTheirLens`), `JudgeComesBack`.
* `ToolCallStream`: `CallsSurvive` (`CallsAreReassembled`, `HistoryIsPaired`, `ArgumentsAreTheModels`).
* `DraftWindows`: `CalmMailIsWhole`.  `SkillAcquisition`: `SkillsSound` (`ManagedSkillsAreWhole`, `InstalledIsOnDisk`, `AcquiredOnRequest`).
* `GoogleTokens`: `StoredTokensCanBeRefreshed`.  `FileEdits`: `EditsAreTold` (`SerialEditsAreExact`, `CutsAreTold`).  `WebCache`: `AnswersAreTheServers`.
* `ShellRun`: `ShellSound` (`ShellReturnsInTime`, `OkIsWholeOutput`, `LeftBehindWasSignalled`).
* `CliSetup`: `SettingsHold` (`ShownModeIsTrue`, `ConfigSurvivesPatches`).
* `DaemonDiscovery`: `CalmDiscovery` (`CalmDaemonIsTheOne`, `CalmCliConnects`).  `RunScreen`: `AnswersAreWhole`.

Many of these hold as long as something did not happen: two bridges at once, a forked restart, an edit that overlaps another.
A history variable remembers it, and the sections above say what the code does once it has happened.

Every one of them is known to fail when the code is changed as a plausible bug would change it: the
definitions called `X_Something`, marked as mutants in the modules, are those changes, and `PROJECT.json`
says which property each breaks.

### Fairness

* `DaemonRuns`: a pending await on a provider or tool settles, so each run's steps are weakly fair; a step
  takes finitely many model turns (`MAX_TOOL_TURNS`), so `StepDone`, which the loop of calls enables again and
  again, is strongly fair.  Answers of users are fair in `AnsweredSpec` only, which `PollerSeesOutcome`
  needs; `CancelUnwinds` is refuted under `FairSpec`, where nobody has to answer.
* `SubAgentPool`: a turn makes at most its budget's model calls and asks finitely often, so its end, which each prompt puts off, is
  strongly fair, and git commands end.  Spawning is not fair, and neither are answers to prompts: `EverySpawnResolves` is checked under
  `AnsweredPoolSpec`, which adds them, since the code has neither a timeout nor a signal for a prompt.
* `AgentLoop`: the one thread of the run goes on and users answer: weak fairness of everything but `Cancel`.
  `Terminates` is then a matter of the loops' bounds.
* `PromptRoundTrip`: sockets deliver, React runs its effects and the user answers what is drawn.  `SerialPromptAnswered`
  asks for a connection that holds, since there is no reconnect.
* `BrowserBridge`: hosts that answer do so, and Chrome ends a host whose port is gone.  Silent hosts owe nothing.
* `McpServers`: backoff delays end, and a connect succeeds or fails.
* `JudgePanel`: a judge's model answers or throws, and `Promise.all()` then settles.
* The modules of `operations` are checked for safety only and state no fairness.

## What is proved

The theorems are for every number of runs, sessions, agents, tools, calls, skills, URLs and every value of the bounds and timeouts.

* `DaemonRunsProofs`.  `TableInv` is inductive: a registered controller belongs to a live run of its session
  (`ControllerSound`), a run's outcome is "running" exactly while it is live or after it was lost
  (`OutcomeMeaning`), and a row that says "running" has such a run behind it (`RowBacked`), which is what
  `RunningRowHasRun` alone lacks: it does not say why the row will stay so.  From it: `TableIsSound`, and
  `AbortsAreRequested`: a signal rises only in a run.cancel of the run's own session.
  Under `OneAtATime`, `DisciplineInv` adds that a live run owns its
  session, being the latest there and the one whose controller is registered; from it `RowIsLatestOutcomeHolds`, `CancelReachesRunHolds` and
  `RunsImplementTaskBoard`, the refinement: each step is a step of the board or leaves the row alone.
* `SubAgentPoolProofs`.  Conservation of permits is not inductive by itself: that a release wakes a waiter and not
  an agent that already holds a permit needs `QueueIsWaiting`, and that no permit idles needs both, so `SemInv` is
  the three together.  Then
  `SemaphoreIsSound` and `ServedInOrder`.  `TreeInv` adds `TreeAtPc`, which ties the worktree of each agent
  whose git works to where `spawnSubAgent()` stands; from it `WorkIsAlwaysFound`.
* `SessionPermissionsProofs`.  `GateInv` relates what a session was told to what its overrides hold
  (`OverridesAreTold`): an override stands under a tool's own name if and only if the user last said "always" or
  "never" of it, and none stands under a name that no tool bears.  `SilentRunsHaveBasis` and `TeachingHeeded`
  follow by cases of the engine's decision.
* `AgentLoopProofs`.  Five parts: the room counters have (`CountInv`), where results stand relative to the plan
  (`PlanInv`), that a failure in the step at hand has made its ok false or will (`StepInv`), the same of recorded
  results (`ResultInv`), and how much work a cancelled run has left (`WorkInv`).  The heart is the review: that
  the corrective plan is not empty when it resolves earlier failures follows from `PlanInv`.  Theorems: `TypeCorrect`,
  `ReviewsAreTrue`, `CancelledRunsStop`, `ResultsStay`.
* `PermissionDecisionProofs`.  A decision is one step from its input, so the invariant only says that the outcome is the
  engine's answer (`OutcomeIsChecks`); `OrderIsKept` is then five statements about `Check` and `ResolvePolicy`, for any
  set of calls, tables and policies.
* `ConnectionProofs`, prompts.  What is pending says nothing of how a prompt gets from the daemon to the user and back, so `PromptInv`
  follows it: on the wire it is neither drawn nor answered yet (`Announced`), on the screen of a serial session the handler that a key
  press reaches closes over it or over nothing (`Drawn`), and a request has a number of its own that travels one way
  at a time (`Numbered`).  From it `PromptsAreSound`.
* `ConnectionProofs`, bridges and MCP.  That no bridge means nothing pending needs each host to stand in `bridges` once
  (`BridgesInv`); then `BridgesAreSound`.  A handle's transports are made one after the other and only the last has a process
  (`HandleInOrder`), what a name holds or closes is a handle of that name (`NameInOrder`), and, stronger than the property, a
  handle that WILL have a process again is held too (`ActiveIsHeld`); then `HandlesAreSound`.
* `ConnectionProofs`, the panel.  `VerdictIsTheirs`: each judge replies once (`RepliesCount`); that the rounded mean lies between the
  scores is a fact about a sum over a list of any length, proved from the least prefix that would break it (`SumIsBetween`).
* `StoredStateProofs`, skills and tokens.  An installation that writes has passed the check of its files (`WritesAllowed`), and what is loaded
  from `~/.otoclaw/skills` is on disk (`LoadedIsInstalled`); with them `SkillsAreSound`.
  Two reasons why the stored token is good, kept apart: without rotation every token in the store or in
  a call is accepted (`KeptTokens`); without overlap one call at a time refreshes, and from the endpoint's
  answer to the store the good token is with it (`PassedTokens`).  From them `StoredTokensAreGood`.
* `StoredStateProofs`, configuration and discovery.  `SettingsAreKept`: a file that is not cut holds what was saved (`FileHoldsSaved`),
  although every save writes the whole file from what was loaded, with the model of `.env` in it.  `OneDaemonIsFound`: a CLI that is about to spawn
  knows that no daemon serves, and one that is about to connect knows which does (`OneLooks`, `OwnIsFound`).
* `StoredStateProofs`, files and cache.  `EditsAreExact`: a call that is going to write has found its text exactly once (`WritesEarned`), in what
  the calls before it have left (`CallsTakeTurns`).  `FetchedIsServed`: a file is filled with what
  its own URL's server sent (`CacheIsServed`), and so is what a call is about to write (`GotIsServed`).
* `OperationProofs`, shell and stream.  `ShellCallsAreSound`, for every timeout: the clock cannot pass what is due (`ClockBounds`), and what was read
  was read to its end or to a deadline at which the timer had fired (`ReadOrKilled`).  `CallsComeThrough`: after every event, each call that
  has begun has one entry, with the pieces that have come so far in their order (`CallsInOrder`), and the answers are those to the
  first calls (`AnswersInOrder`).
* `OperationProofs`, drafts and screens.  `CalmMail`: while a compose has the page to itself there is one window (`OneWindow`), and it holds exactly
  the fields typed so far (`Composing`).  `AnswersAreRuns`: the property speaks of the transcript, but the answers to come are still on the wire, so `ScreenInv`
  says what the screen WILL show after each message under way: the whole text of a run when its delivery comes, and in the end that of the run
  that is live (`Foreseen`); and that a delivery under way has no answer yet while one that has come has one (`AnswersMatch`).
* `ConnectionsAreTyped` and `OperationsAreTyped` put these together for the instances that follow one module at a time: a step of the
  instance is a step of the module it follows and a stutter of the others, so all the inductive invariants hold together.

Every invariant of a passing run is thereby a theorem, and so are the action properties and the refinement.  The assumptions are the ASSUMEs of the
modules: sets of constants are what their comments say, bounds are natural numbers, marks such as "no file" are none of the values they mark the absence of,
`Agent` and `Call` are finite (a plan names finitely many agents, a response of a model finitely many calls).

Model-checked only: liveness (`PollerSeesOutcome`, `EverySpawnResolves`,
`RunsTerminate`, and the four of `connections`).  A leads-to under weak fairness needs ENABLED, which is out of this prover's reach.  Functions defined by
recursion over a list are within it only where a single fact about them is wanted, as with the sum: no induction rule can be instantiated, but a
counterexample that comes first can be excluded.

## What is not modelled

* `message.send` for a session that does not exist (`getOrCreateState()` throws inside `runMessage()`, which
  nobody awaits: the client has its messageId and hears nothing more).
* Branches the daemon does not reach: a test command without a registered `shell.run` (it always is), and a
  route of a step that the planner's schema excludes.
* What the CLI delegate provider makes of its child's output and exit code; that it ignores the signal is in `AgentLoop`.
* Text: prompts, plans, diffs, costs, mascot states.  A plan is a sequence of steps with a
  kind and a route; a tool call is declined or not, edits or not.
* In `AgentLoop` a tool call has no arguments and its prompt is one outcome; the prompt itself is in
  `SessionPermissions`, and how calls come out of the stream in `ToolCallStream`.
* In `RunScreen` a run that fails before its intake (no model, no provider), which shows an error and no text.
* A token store that throws, in `GoogleTokens`.
* Regular expressions of the danger matcher and of shell lists; the matching and routing of skills, plugin manifests and the
  MCP catalog, which are lookups in declared tables.
* Reading a page, the YouTube and GitHub adapters, vision: single calls of something outside, without state.
* The desktop app: a second client of the protocol that `PromptRoundTrip` and `RunScreen` follow for the CLI.  One thing is its own:
  a prompt that another client has answered stays in its dialog, and a late answer to it is ignored by the daemon.
* The website, installers, build scripts and generated window code.

What would come next: a client of the desktop kind beside the terminal's in `PromptRoundTrip`, the composition of
`AgentLoop` with `DaemonRuns` (that `runTask()` opened up refines the run seen from the outside), and more abstract specifications, such as
that of a lock for the semaphore.
