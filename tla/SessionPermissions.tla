------------------------- MODULE SessionPermissions -------------------------
(***************************************************************************)
(* Permissions of the daemon's sessions over time: which calls of tools    *)
(* are asked about, blocked or run silently while runs overlap, browser    *)
(* actions arrive from clients, the user changes the mode, the config and  *)
(* what a session has learned, and the daemon is restarted                 *)
(* (packages/daemon/src/server.ts and channels.ts, packages/agent/src/     *)
(* loop.ts and codeTestDebug.ts).  The decision is PermissionEngine's.     *)
(***************************************************************************)
EXTENDS PermissionEngine, FiniteSets, Naturals

CONSTANTS
  Session,   \* sessions of the daemon
  Run,       \* runs of message.send
  Act,       \* browser.act requests of clients
  Tool,      \* the tools runs and requests use, a part of ToolName
  Command,   \* the shell commands runs use, by the lists they match
  Config,    \* the permission tables the global config.json may hold
  Policy,    \* the fields of the project's .otoclaw/policy.json
  MaxLearnt, \* bound: answers "always" and "never" per life of the daemon
  MaxCrashes \* bound: restarts of the daemon

ActTool == {"browser.act.gmailComposeDraft", "browser.act.gmailSendDraft"}
ToolName ==
  ActTool \cup
  {"fs.read", "fs.write", "fs.edit", "shell.run", "web.fetch", "web.search",
   "youtube", "github", "browser.test", "mcp.server.tool"}
Key == {"fs.read", "fs.write", "shell", "web.fetch", "github", "browser", "mcp"}

(* The permissionKey a tool declares. *)
KeyOf(t) ==
  CASE t \in {"fs.write", "fs.edit"} -> "fs.write"
    [] t \in {"web.fetch", "web.search", "youtube"} -> "web.fetch"
    [] t \in ActTool \cup {"browser.test"} -> "browser"
    [] t = "shell.run" -> "shell"
    [] t = "mcp.server.tool" -> "mcp"
    [] OTHER -> t

(* Reading actions of the browser and preparing drafts default to allow,    *)
(* sending asks; so do the tools of a run, by their key.                    *)
DefaultOf(t) ==
  IF t = "browser.act.gmailComposeDraft" \/ KeyOf(t) \in {"fs.read", "web.fetch"}
  THEN "allow" ELSE "ask"

(* The names a session's overrides are written and read under. *)
Name == ToolName \cup Key

ASSUME PermissionAssumption ==
  /\ Run \cap Act = {}
  /\ Tool \subseteq ToolName
  /\ Command \subseteq SUBSET Pattern
  /\ Config \subseteq [Key -> Decision \cup {Unset}]
  /\ Policy \in [PolicyKey -> Decision]
  /\ MaxLearnt \in Nat
  /\ MaxCrashes \in Nat

Actor == Run \cup Act

VARIABLES
  mode,       \* sessionStates: the mode of each session in memory
  saved,      \* the mode in each session's row in sqlite
  overrides,  \* sessionStates: what each session learned
  config,     \* the permissions of config.json
  actor,      \* what each run and each browser.act request is doing
  told,       \* history: the last "always" or "never" about a tool
  event,      \* history: the decision or execution of the last step
  learnt,     \* how many answers were "always" or "never"
  crashes     \* restarts so far

vars == <<mode, saved, overrides, config, actor, told, event, learnt, crashes>>

NoEvent == [kind |-> "none"]
Resting == [at |-> "idle"]

Snapshot == [session : Session, mode : Mode, config : Config]
Call == [tool : Tool, cmd : Command]

(* A run between two calls, and a run or a request with a prompt open. *)
Active == [at : {"active"}, snapshot : Snapshot]
Asking == [at : {"asking"}, snapshot : Snapshot, call : Call]
ActorState == {Resting} \cup Active \cup Asking

TypeOK ==
  /\ mode \in [Session -> Mode]
  /\ saved \in [Session -> Mode]
  /\ overrides \in [Session -> [Name -> {Unset, "allow", "deny"}]]
  /\ config \in Config
  /\ actor \in [Actor -> ActorState]
  /\ told \in [Session -> [Tool -> {"nothing", "always", "never"}]]
  /\ learnt \in 0..MaxLearnt
  /\ crashes \in 0..MaxCrashes

Init ==
  /\ mode \in [Session -> Mode]
  /\ saved = mode
  /\ overrides = [s \in Session |-> [n \in Name |-> Unset]]
  /\ config \in Config
  /\ actor = [a \in Actor |-> Resting]
  /\ told = [s \in Session |-> [t \in Tool |-> "nothing"]]
  /\ event = NoEvent
  /\ learnt = 0
  /\ crashes = 0

-----------------------------------------------------------------------------
(* Requests of the clients. *)

(* mode.set changes the session in memory, not its row. *)
ModeSet(s, m) ==
  /\ mode[s] # m
  /\ mode' = [mode EXCEPT ![s] = m]
  /\ event' = NoEvent
  /\ UNCHANGED <<saved, overrides, config, actor, told, learnt, crashes>>

ConfigSet(c) ==
  /\ config # c
  /\ config' = c
  /\ event' = NoEvent
  /\ UNCHANGED <<mode, saved, overrides, actor, told, learnt, crashes>>

(* The run takes the mode and the config as they are, but the overrides by  *)
(* reference: it sees what the session learns while it runs.                *)
SnapshotOf(s) == [session |-> s, mode |-> mode[s], config |-> config]

StartRun(r, s) ==
  /\ actor[r] = Resting
  /\ actor' = [actor EXCEPT ![r] = [at |-> "active", snapshot |-> SnapshotOf(s)]]
  /\ event' = NoEvent
  /\ UNCHANGED <<mode, saved, overrides, config, told, learnt, crashes>>

EndRun(r) ==
  /\ actor[r].at = "active"
  /\ actor' = [actor EXCEPT ![r] = Resting]
  /\ event' = NoEvent
  /\ UNCHANGED <<mode, saved, overrides, config, told, learnt, crashes>>

-----------------------------------------------------------------------------
(* The gate. *)

(* Mutant: one table of overrides for all sessions. *)
CheckCall_AnySession(snapshot, call) ==
  Check([key |-> KeyOf(call.tool), cmd |-> call.cmd, mode |-> snapshot.mode,
         default |-> DefaultOf(call.tool),
         overrides |-> [n \in Name |->
            IF \E s \in Session : overrides[s][n] = "allow"
            THEN "allow" ELSE overrides[snapshot.session][n]],
         project |-> FALSE, policy |-> Policy, config |-> snapshot.config])

(* Both callers pass projectPolicy: null. *)
CheckCall(snapshot, call) ==
  Check([key |-> KeyOf(call.tool), cmd |-> call.cmd, mode |-> snapshot.mode,
         default |-> DefaultOf(call.tool),
         overrides |-> overrides[snapshot.session],
         project |-> FALSE, policy |-> Policy, config |-> snapshot.config])

(* What became of a call, by the gate or, with gated FALSE, past it. *)
EventOf(kind, snapshot, call) ==
  [kind |-> kind, gated |-> TRUE, session |-> snapshot.session, mode |-> snapshot.mode,
   config |-> snapshot.config, tool |-> call.tool, cmd |-> call.cmd]

(* A call is decided; a silent one runs the tool in the same step. *)
Decide(a, snapshot, call, rest) ==
  LET outcome == Outcome(CheckCall(snapshot, call))
  IN  /\ actor' = [actor EXCEPT ![a] =
           IF outcome = "asked"
           THEN [at |-> "asking", snapshot |-> snapshot, call |-> call] ELSE rest]
      /\ event' = EventOf(outcome, snapshot, call)
      /\ UNCHANGED <<mode, saved, overrides, config, told, learnt, crashes>>

(* A tool call of the model turn of a run. *)
ToolCall(r, call) ==
  /\ actor[r].at = "active"
  /\ Decide(r, actor[r].snapshot, call, actor[r])

(* browser.act: mode and config are those of the moment. *)
BrowserAct(a, s, call) ==
  /\ actor[a] = Resting
  /\ call.cmd = {}
  /\ Decide(a, SnapshotOf(s), call, Resting)

(* codeTestDebug() calls the shell tool itself and asks nobody.  The        *)
(* daemon's runs all have the command "bun test", which is on no list.      *)
TestCall == [tool |-> "shell.run", cmd |-> {}]

TestCommand(r) ==
  /\ actor[r].at = "active"
  /\ event' = [EventOf("silent", actor[r].snapshot, TestCall) EXCEPT !.gated = FALSE]
  /\ UNCHANGED <<mode, saved, overrides, config, actor, told, learnt, crashes>>

Teaches(d) == d \in {"always", "never"}

(* Mutant: the answer is stored as it came. *)
Learn_Raw(s, t, d) ==
  overrides' = [overrides EXCEPT ![s][t] = IF Teaches(d) THEN d ELSE @]

(* Mutant: "never" is answered, and forgotten. *)
Learn_OnlyAlways(s, t, d) ==
  overrides' = [overrides EXCEPT ![s][t] = IF d = "always" THEN "allow" ELSE @]

(* Learned under the tool's name. *)
Learn(s, t, d) ==
  overrides' = [overrides EXCEPT ![s][t] =
    CASE d = "always" -> "allow" [] d = "never" -> "deny" [] OTHER -> @]

(* permission.respond for a pending prompt.  Any decision value can come,   *)
(* "ask" too; only "allow" and "always" run the tool.                       *)
Respond(a, d) ==
  LET snapshot == actor[a].snapshot  call == actor[a].call
  IN  /\ actor[a].at = "asking"
      /\ Teaches(d) => learnt < MaxLearnt
      /\ Learn(snapshot.session, call.tool, d)
      /\ told' = [told EXCEPT ![snapshot.session][call.tool] =
                    IF Teaches(d) THEN d ELSE @]
      /\ learnt' = IF Teaches(d) THEN learnt + 1 ELSE learnt
      /\ event' = EventOf(IF d \in {"allow", "always"} THEN "approved" ELSE "refused",
                          snapshot, call)
      /\ actor' = [actor EXCEPT ![a] =
           IF a \in Run THEN [at |-> "active", snapshot |-> snapshot] ELSE Resting]
      /\ UNCHANGED <<mode, saved, config, crashes>>

(* The daemon ends and starts again: the sessions' states are gone, and     *)
(* getOrCreateState() makes new ones from the rows.                         *)
Restart ==
  /\ crashes < MaxCrashes
  /\ crashes' = crashes + 1
  /\ mode' = saved
  /\ overrides' = [s \in Session |-> [n \in Name |-> Unset]]
  /\ actor' = [a \in Actor |-> Resting]
  /\ told' = [s \in Session |-> [t \in Tool |-> "nothing"]]
  /\ event' = NoEvent
  /\ learnt' = 0
  /\ UNCHANGED <<saved, config>>

RunCall == {c \in Call : c.tool \notin ActTool /\ (c.cmd = {} \/ c.tool = "shell.run")}
ActCall == {c \in Call : c.tool \in ActTool}

Next ==
  \/ \E s \in Session, m \in Mode : ModeSet(s, m)
  \/ \E c \in Config : ConfigSet(c)
  \/ \E r \in Run, s \in Session : StartRun(r, s)
  \/ \E r \in Run : EndRun(r) \/ TestCommand(r)
  \/ \E r \in Run, c \in RunCall : ToolCall(r, c)
  \/ \E a \in Act, s \in Session, c \in ActCall : BrowserAct(a, s, c)
  \/ \E a \in Actor, d \in Decision : Respond(a, d)
  \/ Restart

Spec == Init /\ [][Next]_vars

-----------------------------------------------------------------------------
(* Properties. *)

(* The tool that bears the name of a permission key, if there is one. *)
TaughtUnder(s, key, d) == key \in Tool /\ told[s][key] = d

(* A call runs without a word only on a ground: its run (or request) is of  *)
(* auto mode, the command is not dangerous, the user has not said "never"   *)
(* to its key in this session, and either the user said "always" in this    *)
(* session, or the config the run started with allows the key, or that      *)
(* config is silent and the tool's default is allow.                        *)
HasGround(e) ==
  LET key == KeyOf(e.tool)
  IN  /\ e.mode = "auto"
      /\ ~(e.tool = "shell.run" /\ "danger" \in e.cmd)
      /\ ~TaughtUnder(e.session, key, "never")
      /\ \/ TaughtUnder(e.session, key, "always")
         \/ e.config[key] \in {"allow", "always"}
         \/ e.config[key] = Unset /\ DefaultOf(e.tool) = "allow"

(* What runs without a word has a ground, with one exception: the test      *)
(* command of a code step, which passes the gate by in any mode             *)
(* (codeTestDebug.ts:43).                                                   *)
SilentHasBasis ==
  event.kind = "silent" =>
    HasGround(event) \/ (~event.gated /\ event.tool = "shell.run" /\ event.cmd = {})

(* "Manual: agent pauses before every tool call and asks for approval": after *)
(* mode.set to manual no tool call that is held against a mode runs without   *)
(* a word in the session (OTOCLAW_PLAN.md:226).                               *)
ManualSessionsPause ==
  event.kind = "silent" /\ event.gated => mode[event.session] = "auto"

Heeded(tool) ==
  event.kind \in {"asked", "silent", "blocked"} /\ event.mode = "auto" /\ event.cmd = {}
  /\ event.tool = tool =>
    /\ told[event.session][tool] = "always" => event.kind = "silent"
    /\ told[event.session][tool] = "never" => event.kind = "blocked"

(* What the user taught the session is heeded in auto mode, by every run and *)
(* request of it: after "always" the tool is not asked about again, after    *)
(* "never" it is neither asked about nor run; dangerous commands excepted.   *)
(* So it is for a tool named like its permission key.                        *)
TeachingIsHeeded == \A t \in Tool : KeyOf(t) = t => Heeded(t)

(* And so it should be for every tool ("always" sets "a session override    *)
(* that lets a later browser.act.gmailSendDraft through without asking").    *)
EveryTeachingIsHeeded == \A t \in Tool : Heeded(t)
=============================================================================
