------------------------- MODULE PermissionDecision -------------------------
(***************************************************************************)
(* One call of PermissionEngine.check() and what its caller makes of the   *)
(* result, for every input of a set, against what ARCHITECTURE.md section 8*)
(* says of the order in which the sources are consulted.                   *)
(***************************************************************************)
EXTENDS PermissionEngine, Naturals

CONSTANT Calls  \* the inputs

(* The tables hold decisions, or nothing; a tool's default and a policy that *)
(* is present always decide.                                                 *)
ASSUME CallsAssumption ==
  \A c \in Calls :
    /\ c.mode \in Mode
    /\ c.project \in BOOLEAN
    /\ c.default \in Decision
    /\ {c.overrides[c.key], c.config[c.key]} \subseteq Decision \cup {Unset}
    /\ c.project /\ c.key \in PolicyKey => c.policy[c.key] \in Decision

VARIABLES
  call,    \* the input
  answer   \* "none" until it is decided

decisionVars == <<call, answer>>

DecisionInit == call \in Calls /\ answer = "none"

DecideCall ==
  /\ answer = "none"
  /\ answer' = Outcome(Check(call))
  /\ UNCHANGED call

DecisionSpec == DecisionInit /\ [][DecideCall]_decisionVars

-----------------------------------------------------------------------------
Decided == answer # "none"

(* What each source says, most specific first. *)
Sources ==
  << call.overrides[call.key],
     IF call.project /\ call.key \in PolicyKey THEN call.policy[call.key] ELSE Unset,
     call.config[call.key],
     call.default >>

Says(n) == Sources[n] # Unset
MostSpecific ==
  Sources[CHOOSE n \in DOMAIN Sources : Says(n) /\ \A k \in 1..(n - 1) : ~Says(k)]

(* "session override, project policy, global config, tool default": in auto *)
(* mode, for a call no list matches, the most specific source decides.      *)
MostSpecificWins ==
  Decided /\ call.mode = "auto" /\ call.cmd = {} =>
    answer = CASE MostSpecific \in {"allow", "always"} -> "silent"
                [] MostSpecific \in {"deny", "never"} -> "blocked"
                [] MostSpecific = "ask" -> "asked"

(* No source, list or learned answer makes a dangerous command run silently. *)
DangerNeverSilent ==
  Decided /\ call.key = "shell" /\ "danger" \in call.cmd => answer = "asked"

(* A command on both lists of the project is not run. *)
DenyListBeatsAllowList ==
  Decided /\ call.project /\ call.key = "shell" /\ "deny" \in call.cmd => answer # "silent"

(* Manual mode asks, whatever the sources and lists say. *)
ManualAlwaysAsks == Decided /\ call.mode = "manual" => answer = "asked"

(* A command on the project's allow list alone runs, whatever its sources   *)
(* say: the lists are consulted before them.                                *)
AllowListBeatsSources ==
  Decided /\ call.mode = "auto" /\ call.project /\ call.key = "shell" /\ call.cmd = {"allow"}
    => answer = "silent"

(* The order of the engine: manual mode, danger patterns, the project's     *)
(* deny list, its allow list, and the most specific of the sources.  That   *)
(* sources come in their documented order and that nothing makes danger     *)
(* silent is what ARCHITECTURE.md section 8 says; that the allow list comes *)
(* before them is the code's own order.                                     *)
EngineOrder ==
  /\ MostSpecificWins /\ DangerNeverSilent /\ DenyListBeatsAllowList
  /\ ManualAlwaysAsks /\ AllowListBeatsSources

(* "Policy resolution order: session override -> project policy.json ...",  *)
(* and in auto mode "`ask` is auto-resolved by an allow-list": what a source *)
(* denies the allow list does not let run.                                  *)
AllowListResolvesAsk ==
  Decided /\ call.mode = "auto" /\ MostSpecific \in {"deny", "never"} => answer # "silent"
=============================================================================
