-------------------------- MODULE PermissionEngine --------------------------
(***************************************************************************)
(* The decision about one tool call (packages/permission/src/engine.ts and *)
(* policy.ts), as operators.  A decision table maps a permission key to a  *)
(* decision or to Unset; a shell command is the set of the pattern lists   *)
(* that it matches.                                                        *)
(***************************************************************************)
Mode == {"manual", "auto"}
Decision == {"allow", "ask", "deny", "always", "never"}
Unset == "unset"

(* The lists a command can match: the built-in danger patterns, and the    *)
(* project's shell.deny and shell.allow.                                   *)
Pattern == {"danger", "deny", "allow"}

(* The keys that are fields of a project's policy.json. *)
PolicyKey == {"shell", "fs.write", "web.fetch", "browser", "vision", "github"}

(* A call to be decided has the fields key, cmd, mode, default, overrides   *)
(* (of the session), project (FALSE when it has no policy.json), policy     *)
(* (its fields) and config (global).                                        *)

(* Session override, project policy, global config, tool default.  A policy *)
(* that is present has every field: its schema defaults them to "ask".      *)
ResolvePolicy(call) ==
  IF call.overrides[call.key] # Unset THEN call.overrides[call.key]
  ELSE IF call.project /\ call.key \in PolicyKey THEN call.policy[call.key]
  ELSE IF call.config[call.key] # Unset THEN call.config[call.key]
  ELSE call.default

(* Which list of the project's policy decides a shell command, if any. *)
Matches(call, pattern) == call.key = "shell" /\ pattern \in call.cmd
Listed(call, pattern) == call.project /\ Matches(call, pattern)

(* Mutant: a command the session or the configuration allows is not held   *)
(* against the danger patterns.                                            *)
Check_PolicyFirst(call) ==
  IF call.mode = "manual" THEN [decision |-> "ask", escalate |-> FALSE]
  ELSE IF ResolvePolicy(call) \in {"allow", "always"}
       THEN [decision |-> ResolvePolicy(call), escalate |-> FALSE]
  ELSE IF Matches(call, "danger") THEN [decision |-> "ask", escalate |-> TRUE]
  ELSE IF Listed(call, "deny") THEN [decision |-> "deny", escalate |-> FALSE]
  ELSE IF Listed(call, "allow") THEN [decision |-> "allow", escalate |-> FALSE]
  ELSE [decision |-> ResolvePolicy(call), escalate |-> FALSE]

Check(call) ==
  IF call.mode = "manual" THEN [decision |-> "ask", escalate |-> FALSE]
  ELSE IF Matches(call, "danger") THEN [decision |-> "ask", escalate |-> TRUE]
  ELSE IF Listed(call, "deny") THEN [decision |-> "deny", escalate |-> FALSE]
  ELSE IF Listed(call, "allow") THEN [decision |-> "allow", escalate |-> FALSE]
  ELSE [decision |-> ResolvePolicy(call), escalate |-> FALSE]

(* What a caller does with the answer: both the tool loop and browser.act   *)
(* ask first, then block, and otherwise run the tool without a word.        *)
Outcome(check) ==
  IF check.decision = "ask" \/ check.escalate THEN "asked"
  ELSE IF check.decision \in {"deny", "never"} THEN "blocked"
  ELSE "silent"
=============================================================================
