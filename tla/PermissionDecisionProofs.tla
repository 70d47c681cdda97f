---------------------- MODULE PermissionDecisionProofs ----------------------
(***************************************************************************)
(* The order in which the engine consults its sources, for every set of    *)
(* calls: whatever commands, tables and policies there are.  A decision is *)
(* one step from the input, so the only state to keep is that the answer   *)
(* is the outcome of the engine's check.                                   *)
(***************************************************************************)
EXTENDS PermissionDecision, TLAPS

(* The answer is what the caller makes of the engine's decision. *)
OutcomeIsChecks ==
  /\ call \in Calls
  /\ answer = "none" \/ answer = Outcome(Check(call))

(* The answer of the engine to the call is what is kept. *)
LEMMA OutcomeKept == DecisionSpec => []OutcomeIsChecks
<1>1. DecisionInit => OutcomeIsChecks
  BY DEF DecisionInit, OutcomeIsChecks
<1>2. OutcomeIsChecks /\ [DecideCall]_decisionVars => OutcomeIsChecks'
  <2> SUFFICES ASSUME OutcomeIsChecks, [DecideCall]_decisionVars PROVE OutcomeIsChecks'
    OBVIOUS
  <2>1. CASE DecideCall
    <3> HIDE DEF OutcomeIsChecks
    <3>1. call' = call /\ answer' = Outcome(Check(call))
      BY <2>1 DEF DecideCall
    <3>2. call \in Calls
      BY DEF OutcomeIsChecks
    <3> QED
      BY <3>1, <3>2 DEF OutcomeIsChecks
  <2>2. CASE UNCHANGED decisionVars
    BY <2>2 DEF OutcomeIsChecks, decisionVars
  <2> QED
    BY <2>1, <2>2
<1> QED
  BY <1>1, <1>2, PTL DEF DecisionSpec

-----------------------------------------------------------------------------
(* Manual mode: of every call the user is asked (engine.ts:39). *)
THEOREM ManualAsks == DecisionSpec => []ManualAlwaysAsks
<1>1. OutcomeIsChecks => ManualAlwaysAsks
  BY DEF OutcomeIsChecks, ManualAlwaysAsks, Decided, Check, Outcome
<1> QED
  BY <1>1, OutcomeKept, PTL

(* A dangerous command is never run without a word, whatever a source, a    *)
(* list or the mode says (engine.ts:50).                                    *)
THEOREM DangerAsks == DecisionSpec => []DangerNeverSilent
<1>1. OutcomeIsChecks => DangerNeverSilent
  BY DEF OutcomeIsChecks, DangerNeverSilent, Decided, Check, Matches, Outcome
<1> QED
  BY <1>1, OutcomeKept, PTL

(* A command on both lists of a project is not run silently: the deny list  *)
(* is consulted before the allow list (engine.ts:62-81).                    *)
THEOREM DenyBeatsAllow == DecisionSpec => []DenyListBeatsAllowList
<1>1. OutcomeIsChecks => DenyListBeatsAllowList
  BY DEF OutcomeIsChecks, DenyListBeatsAllowList, Decided, Check, Matches, Listed, Outcome
<1> QED
  BY <1>1, OutcomeKept, PTL

-----------------------------------------------------------------------------
(* resolvePolicy() returns the decision of the most specific source that    *)
(* has one (policy.ts:27-45).                                               *)
LEMMA ResolvedByMostSpecific ==
  ASSUME call \in Calls
  PROVE  ResolvePolicy(call) = MostSpecific /\ MostSpecific \in Decision
<1> DEFINE session == call.overrides[call.key]
           project == IF call.project /\ call.key \in PolicyKey
                      THEN call.policy[call.key] ELSE Unset
           global == call.config[call.key]
           first(n) == Says(n) /\ \A k \in 1..(n - 1) : ~Says(k)
           chosen == CHOOSE n \in DOMAIN Sources : first(n)
<1>1. /\ DOMAIN Sources = 1..4
      /\ Sources[1] = session /\ Sources[2] = project
      /\ Sources[3] = global /\ Sources[4] = call.default
  BY DEF Sources
<1>2. /\ session \in Decision \cup {Unset} /\ global \in Decision \cup {Unset}
      /\ project \in Decision \cup {Unset} /\ call.default \in Decision
      /\ Unset \notin Decision
  BY CallsAssumption DEF Decision, Unset
<1>3. ResolvePolicy(call) = IF session # Unset THEN session
                            ELSE IF project # Unset THEN project
                            ELSE IF global # Unset THEN global ELSE call.default
  BY <1>2, CallsAssumption DEF ResolvePolicy
<1>4. MostSpecific = Sources[chosen]
  BY DEF MostSpecific
<1> HIDE DEF session, project, global
<1>5. \E n \in 1..4 : first(n)
  BY <1>1, <1>2 DEF Says
<1>6. chosen \in 1..4 /\ first(chosen)
  BY <1>1, <1>5
<1> HIDE DEF chosen
<1>7. \A k \in 1..4 : Says(k) => chosen <= k
  BY <1>6
<1>8. chosen \in {1, 2, 3, 4}
  BY <1>6
<1> QED
  BY <1>1, <1>2, <1>3, <1>4, <1>6, <1>7, <1>8 DEF Says

(* In auto mode a call that no list matches is decided by its most specific *)
(* source (ARCHITECTURE.md section 8), and by nothing else.                 *)
THEOREM SpecificWins == DecisionSpec => []MostSpecificWins
<1>1. OutcomeIsChecks => MostSpecificWins
  <2> SUFFICES ASSUME OutcomeIsChecks, Decided, call.mode = "auto", call.cmd = {}
               PROVE  answer = CASE MostSpecific \in {"allow", "always"} -> "silent"
                                  [] MostSpecific \in {"deny", "never"} -> "blocked"
                                  [] MostSpecific = "ask" -> "asked"
    BY DEF MostSpecificWins
  <2>1. ResolvePolicy(call) = MostSpecific /\ MostSpecific \in Decision
    BY ResolvedByMostSpecific DEF OutcomeIsChecks
  <2>2. Check(call) = [decision |-> ResolvePolicy(call), escalate |-> FALSE]
    BY DEF Check, Matches, Listed
  <2>3. answer = Outcome([decision |-> MostSpecific, escalate |-> FALSE])
    BY <2>1, <2>2 DEF OutcomeIsChecks, Decided
  <2> HIDE DEF MostSpecific
  <2> QED
    BY <2>1, <2>3 DEF Outcome, Decision
<1> QED
  BY <1>1, OutcomeKept, PTL

(* The allow list is consulted before the sources (engine.ts:73-81). *)
THEOREM AllowListFirst == DecisionSpec => []AllowListBeatsSources
<1>1. OutcomeIsChecks => AllowListBeatsSources
  BY DEF OutcomeIsChecks, AllowListBeatsSources, Decided, Check, Matches, Listed, Outcome
<1> QED
  BY <1>1, OutcomeKept, PTL

(* All of it: manual mode, danger, deny list, allow list, most specific     *)
(* source, for every set of calls.                                          *)
THEOREM OrderIsKept == DecisionSpec => []EngineOrder
BY SpecificWins, DangerAsks, DenyBeatsAllow, ManualAsks, AllowListFirst, PTL DEF EngineOrder
=============================================================================
