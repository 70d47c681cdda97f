------------------------------ MODULE CliSetup ------------------------------
(***************************************************************************)
(* Configuration and the start of a CLI: config.json and the .env fallback *)
(* (packages/daemon/src/config.ts), config.get and config.set, the mode    *)
(* and model of a session (daemon/src/server.ts), what App does when it    *)
(* starts and when a line is submitted (packages/cli/src/App.tsx,          *)
(* slashCommands.ts) and the setup wizard (setupWizard.tsx).  The daemon   *)
(* handles a request in one step; a CLI goes on when the reply arrives.    *)
(***************************************************************************)
EXTENDS Naturals, Sequences

CONSTANTS App,       \* the CLIs, each with a session of its own
          Model,     \* model references
          NoModel,   \* no model is named
          Key,       \* permission keys that may be denied in config.json
          Unreadable,\* config.json is missing, or was cut short by a crash
          MaxAsked   \* bound: mode.set requests of an App without a reply yet

Mode == {"manual", "auto"}
Config == [mode : Mode, model : Model \cup {NoModel}, denied : SUBSET Key]
DefaultConfig == [mode |-> "manual", model |-> NoModel, denied |-> {}]

ASSUME CliSetupAssumption == NoModel \notin Model /\ Unreadable \notin Config /\ MaxAsked \in Nat

VARIABLES file,      \* config.json: Unreadable or a configuration
          env,       \* the MODEL line of .env, or NoModel
          phase,     \* where each App is
          config,    \* the mode and model an App was given when it started
          session,   \* the daemon's mode and model of each App's session
          shown,     \* the mode on each App's status line
          asked,     \* the modes of each App's mode.set requests without a reply, in order
          wanted,    \* the permissions of the last patch that named them
          chosen,    \* the last model a wizard or another client has saved
          fileCut    \* a crash has cut config.json short

setupVars == <<file, env, phase, config, session, shown, asked, wanted, chosen, fileCut>>

NoSession == [mode |-> "manual", model |-> NoModel]

\* loadEnvFile().MODEL: a missing file, and a line without a value, name no model.
LoadEnvFile == env

\* loadConfig(): defaults for a file that cannot be read; .env names the model
\* of a configuration that names none.
LoadConfig ==
  LET read == IF file = Unreadable THEN DefaultConfig ELSE file
  IN  IF read.model = NoModel THEN [read EXCEPT !.model = LoadEnvFile] ELSE read

SetupInit ==
  /\ file = Unreadable /\ env \in {NoModel} \cup Model /\ phase = [a \in App |-> "start"]
  /\ config = [a \in App |-> NoSession] /\ session = [a \in App |-> NoSession]
  /\ shown = [a \in App |-> "manual"] /\ asked = [a \in App |-> << >>]
  /\ wanted = {} /\ chosen = NoModel /\ fileCut = FALSE

Goes(a, p) == phase' = [phase EXCEPT ![a] = p]

-----------------------------------------------------------------------------
(* App starts: config.get, session.create, model.set, one after the other.  *)

GetConfig(a) ==
  /\ phase[a] = "start" /\ Goes(a, "creating")
  /\ config' = [config EXCEPT ![a] = [mode |-> LoadConfig.mode, model |-> LoadConfig.model]]
  /\ shown' = [shown EXCEPT ![a] = LoadConfig.mode]
  /\ UNCHANGED <<file, env, session, asked, wanted, chosen, fileCut>>

CreateSession(a) ==
  /\ phase[a] = "creating" /\ Goes(a, "choosing")
  /\ session' = [session EXCEPT ![a] = [mode |-> config[a].mode, model |-> NoModel]]
  /\ UNCHANGED <<file, env, config, shown, asked, wanted, chosen, fileCut>>

\* setNeedsSetup(!config.model): without a model the wizard is shown instead.
StartModel(a) ==
  /\ phase[a] = "choosing"
  /\ Goes(a, IF config[a].model = NoModel THEN "wizard" ELSE "ready")
  /\ session' = [session EXCEPT ![a].model = config[a].model]
  /\ config' = [config EXCEPT ![a] = NoSession]
  /\ UNCHANGED <<file, env, shown, asked, wanted, chosen, fileCut>>

\* A mutant: the patch is merged into the defaults.
MergeConfig_IntoDefaults(patch) ==
  [k \in DOMAIN DefaultConfig |-> IF k \in DOMAIN patch THEN patch[k] ELSE DefaultConfig[k]]

\* ConfigSchema.parse({ ...loadConfig(), ...patch }): one level deep.
MergeConfig(patch) ==
  LET now == LoadConfig
  IN  [k \in DOMAIN now |-> IF k \in DOMAIN patch THEN patch[k] ELSE now[k]]

\* The wizard's last step: an empty model line leaves the model out of the patch.
\* The session keeps the mode it was created with.
FinishWizard(a) ==
  /\ phase[a] = "wizard" /\ Goes(a, "ready")
  /\ \E mode \in Mode, model \in Model \cup {NoModel} :
       /\ file' = MergeConfig(IF model = NoModel THEN [mode |-> mode]
                              ELSE [mode |-> mode, model |-> model])
       /\ chosen' = IF model = NoModel THEN chosen ELSE model
  /\ UNCHANGED <<env, config, session, shown, asked, wanted, fileCut>>

-----------------------------------------------------------------------------
(* A submitted line: /mode or /model.  App's useInput is active below the     *)
(* wizard as well, and a line may be submitted before the last is answered.   *)

Submits(a) == phase[a] \in {"wizard", "ready"}

SlashMode(a, mode) ==
  /\ Submits(a) /\ Len(asked[a]) < MaxAsked
  /\ session' = [session EXCEPT ![a].mode = mode]
  /\ asked' = [asked EXCEPT ![a] = Append(@, mode)]
  /\ UNCHANGED <<file, env, phase, config, shown, wanted, chosen, fileCut>>

\* setMode() runs when mode.set has been answered; replies come in order.
ModeAnswered(a) ==
  /\ asked[a] # << >>
  /\ shown' = [shown EXCEPT ![a] = Head(asked[a])]
  /\ asked' = [asked EXCEPT ![a] = Tail(@)]
  /\ UNCHANGED <<file, env, phase, config, session, wanted, chosen, fileCut>>

SlashModel(a, model) ==
  /\ Submits(a)
  /\ session' = [session EXCEPT ![a].model = model]
  /\ UNCHANGED <<file, env, phase, config, shown, asked, wanted, chosen, fileCut>>

\* What any client may send with config.set: a mode, a model, or a permissions
\* record, which replaces the old one.  No session is touched.
Patch == {[mode |-> m] : m \in Mode} \cup {[model |-> m] : m \in Model}
         \cup {[denied |-> d] : d \in SUBSET Key}

PatchConfig(patch) ==
  /\ file' = MergeConfig(patch)
  /\ wanted' = IF "denied" \in DOMAIN patch THEN patch.denied ELSE wanted
  /\ chosen' = IF "model" \in DOMAIN patch THEN patch.model ELSE chosen
  /\ UNCHANGED <<env, phase, config, session, shown, asked, fileCut>>

\* The daemon dies while saveConfig() writes: the sessions' modes and models are
\* gone, the file is cut short, and every App has to be started again.
CrashWhileSaving ==
  /\ file' = Unreadable /\ fileCut' = TRUE
  /\ phase' = [a \in App |-> "start"] /\ asked' = [a \in App |-> << >>]
  /\ session' = [a \in App |-> NoSession] /\ config' = [a \in App |-> NoSession]
  /\ shown' = [a \in App |-> "manual"]
  /\ UNCHANGED <<env, wanted, chosen>>

\* One App is closed at any time and started again, with a session of its own.
RestartApp(a) ==
  /\ phase[a] # "start" /\ Goes(a, "start")
  /\ asked' = [asked EXCEPT ![a] = << >>] /\ config' = [config EXCEPT ![a] = NoSession]
  /\ session' = [session EXCEPT ![a] = NoSession]
  /\ shown' = [shown EXCEPT ![a] = "manual"]
  /\ UNCHANGED <<file, env, wanted, chosen, fileCut>>

\* The user edits .env.
EditEnv ==
  /\ env' \in {NoModel} \cup Model
  /\ UNCHANGED <<file, phase, config, session, shown, asked, wanted, chosen, fileCut>>

SetupNext ==
  \/ \E a \in App :
       \/ GetConfig(a) \/ CreateSession(a) \/ StartModel(a) \/ FinishWizard(a)
       \/ \E mode \in Mode : SlashMode(a, mode)
       \/ ModeAnswered(a) \/ RestartApp(a)
       \/ \E model \in Model : SlashModel(a, model)
  \/ \E patch \in Patch : PatchConfig(patch)
  \/ CrashWhileSaving \/ EditEnv

SetupSpec == SetupInit /\ [][SetupNext]_setupVars

-----------------------------------------------------------------------------
SetupTypeOK ==
  /\ file \in Config \cup {Unreadable} /\ env \in Model \cup {NoModel} /\ config \in [App -> [mode : Mode, model : Model \cup {NoModel}]]
  /\ phase \in [App -> {"start", "creating", "choosing", "wizard", "ready"}]
  /\ session \in [App -> [mode : Mode, model : Model \cup {NoModel}]]
  /\ shown \in [App -> Mode] /\ asked \in [App -> Seq(Mode)]
  /\ \A a \in App : Len(asked[a]) <= MaxAsked
  /\ wanted \in SUBSET Key /\ chosen \in Model \cup {NoModel} /\ fileCut \in BOOLEAN

\* When every /mode has been answered, however many were on their way, the status
\* line shows the session's mode in the daemon, the one the session's next run
\* starts with, whatever the wizard saves and other clients configure.  (A run
\* that has already started keeps the mode it started with: server.ts:409.)
ShownModeIsTrue ==
  \A a \in App : Submits(a) /\ asked[a] = << >> => shown[a] = session[a].mode

\* What config.json says outlives every change of something else: the denied keys
\* are those of the last patch that named them and the model is the last one a
\* wizard or another client saved, .env or not, unless a crash has cut the file short.
ConfigSurvivesPatches ==
  ~fileCut => /\ LoadConfig.denied = wanted
              /\ chosen # NoModel => LoadConfig.model = chosen

\* Settings hold: what is shown is what the next run gets, and what was saved stays
\* saved.
SettingsHold == ShownModeIsTrue /\ ConfigSurvivesPatches
=============================================================================
