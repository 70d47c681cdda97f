---------------------- MODULE SessionPermissionsProofs ----------------------
(***************************************************************************)
(* Proofs about SessionPermissions, for any number of sessions, runs and   *)
(* browser requests and any config.  What a session's overrides say is     *)
(* exactly what its user was last told to have answered: with that as the  *)
(* inductive invariant a silent execution can be traced to its ground.     *)
(***************************************************************************)
EXTENDS SessionPermissions, TLAPS

(* An override stands for the last "always" or "never" about that name in   *)
(* that session, and there is none under a name that no tool in use bears.  *)
OverridesAreTold ==
  \A s \in Session :
    /\ \A t \in Tool :
         overrides[s][t] = CASE told[s][t] = "always" -> "allow"
                             [] told[s][t] = "never" -> "deny"
                             [] OTHER -> Unset
    /\ \A n \in Name \ Tool : overrides[s][n] = Unset

GateInv == TypeOK /\ OverridesAreTold

(* KeyOf() and DefaultOf() of the tools in use. *)
LEMMA KeyOfType ==
  ASSUME NEW t \in Tool
  PROVE  KeyOf(t) \in Key /\ KeyOf(t) \in Name /\ DefaultOf(t) \in {"allow", "ask"}
BY PermissionAssumption DEF KeyOf, Key, Name, ToolName, ActTool, DefaultOf

(* What the engine lets pass without a word, when there is no project policy. *)
LEMMA SilentCheck ==
  ASSUME NEW snapshot \in Snapshot, NEW call \in Call, TypeOK,
         Outcome(CheckCall(snapshot, call)) = "silent"
  PROVE  LET key == KeyOf(call.tool)  learned == overrides[snapshot.session][key]
         IN  /\ snapshot.mode = "auto"
             /\ ~(key = "shell" /\ "danger" \in call.cmd)
             /\ learned # "deny"
             /\ \/ learned = "allow"
                \/ snapshot.config[key] \in {"allow", "always"}
                \/ snapshot.config[key] = Unset /\ DefaultOf(call.tool) = "allow"
<1> DEFINE key == KeyOf(call.tool)
           in == [key |-> key, cmd |-> call.cmd, mode |-> snapshot.mode,
                  default |-> DefaultOf(call.tool),
                  overrides |-> overrides[snapshot.session],
                  project |-> FALSE, policy |-> Policy, config |-> snapshot.config]
<1>1. CheckCall(snapshot, call) = Check(in)
  BY DEF CheckCall
<1>2. call.tool \in Tool /\ key \in Key /\ key \in Name
  BY KeyOfType DEF Call
<1>3. snapshot.session \in Session /\ snapshot.mode \in Mode /\ snapshot.config \in Config
  BY DEF Snapshot
<1>4. /\ in.key = key /\ in.cmd = call.cmd /\ in.mode = snapshot.mode
      /\ in.default = DefaultOf(call.tool)
      /\ in.overrides = overrides[snapshot.session]
      /\ in.project = FALSE /\ in.config = snapshot.config
  OBVIOUS
<1> HIDE DEF in, key
<1>5. in.mode = "auto" /\ ~Matches(in, "danger")
  BY <1>1, <1>3, <1>4 DEF Check, Outcome, Mode
<1>6. Check(in).decision = ResolvePolicy(in)
  BY <1>4, <1>5 DEF Check, Listed
<1>7. ResolvePolicy(in) \notin {"ask", "deny", "never"}
  BY <1>1, <1>6 DEF Outcome
<1>8. overrides[snapshot.session][key] \in {Unset, "allow", "deny"}
  BY <1>2, <1>3 DEF TypeOK
<1>9. snapshot.config[key] \in Decision \cup {Unset}
  BY <1>2, <1>3, PermissionAssumption
<1>10. DefaultOf(call.tool) \in {"allow", "ask"}
  BY <1>2, KeyOfType
<1>11. CASE overrides[snapshot.session][key] # Unset
  BY <1>4, <1>5, <1>7, <1>8, <1>11 DEF ResolvePolicy, Matches, key, Unset
<1>12. CASE overrides[snapshot.session][key] = Unset
  BY <1>4, <1>5, <1>7, <1>9, <1>10, <1>12
     DEF ResolvePolicy, Matches, key, Unset, Decision
<1> QED
  BY <1>11, <1>12

-----------------------------------------------------------------------------
(* Every step keeps the invariant. *)

LEMMA GateInit == Init => GateInv
<1> SUFFICES ASSUME Init PROVE GateInv
  OBVIOUS
<1>1. TypeOK
  <2>1. actor \in [Actor -> ActorState]
    BY DEF Init, ActorState
  <2>2. 0 \in 0..MaxLearnt /\ 0 \in 0..MaxCrashes
    BY PermissionAssumption
  <2> QED
    BY <2>1, <2>2 DEF Init, TypeOK
<1>2. OverridesAreTold
  BY PermissionAssumption DEF Init, OverridesAreTold, Name, Unset
<1> QED
  BY <1>1, <1>2 DEF GateInv

(* Where a caller's record comes from. *)
LEMMA SnapshotOfType ==
  ASSUME TypeOK, NEW s \in Session
  PROVE  SnapshotOf(s) \in Snapshot
BY DEF TypeOK, SnapshotOf, Snapshot

LEMMA StateTypes ==
  ASSUME NEW x \in ActorState
  PROVE  /\ x.at = "active" => x \in Active /\ x.snapshot \in Snapshot
         /\ x.at = "asking" => /\ x \in Asking
                               /\ x.snapshot \in Snapshot /\ x.call \in Call
                               /\ x.snapshot.session \in Session
                               /\ x.call.tool \in Tool
BY DEF ActorState, Active, Asking, Resting, Snapshot, Call

LEMMA DecideType ==
  ASSUME TypeOK, NEW a \in Actor, NEW snapshot \in Snapshot, NEW call \in Call,
         NEW rest \in ActorState, Decide(a, snapshot, call, rest)
  PROVE  TypeOK'
<1>1. [at |-> "asking", snapshot |-> snapshot, call |-> call] \in ActorState
  BY DEF ActorState, Asking
<1>2. actor' \in [Actor -> ActorState]
  BY <1>1 DEF Decide, TypeOK
<1> QED
  BY <1>2 DEF TypeOK, Decide

LEMMA RespondKeeps ==
  ASSUME GateInv, NEW a \in Actor, NEW d \in Decision, Respond(a, d)
  PROVE  GateInv'
<1> USE DEF GateInv
<1> DEFINE snapshot == actor[a].snapshot
           call == actor[a].call
           s == snapshot.session
           t == call.tool
<1>1. snapshot \in Snapshot /\ s \in Session /\ t \in Tool
  BY StateTypes DEF Respond, TypeOK
<1>2. t \in Name
  BY <1>1, PermissionAssumption DEF Name
<1>3. /\ told' = [told EXCEPT ![s][t] = IF Teaches(d) THEN d ELSE @]
      /\ overrides' = [overrides EXCEPT ![s][t] =
           CASE d = "always" -> "allow" [] d = "never" -> "deny" [] OTHER -> @]
  BY DEF Respond, Learn
<1>4. actor' \in [Actor -> ActorState]
  BY <1>1 DEF Respond, TypeOK, ActorState, Active
<1>5. learnt' \in 0..MaxLearnt
  BY PermissionAssumption DEF Respond, TypeOK
<1>6. UNCHANGED <<mode, saved, config, crashes>>
  BY DEF Respond
<1> HIDE DEF snapshot, call, s, t
<1>7. overrides' \in [Session -> [Name -> {Unset, "allow", "deny"}]]
  BY <1>1, <1>2, <1>3 DEF TypeOK
<1>8. told' \in [Session -> [Tool -> {"nothing", "always", "never"}]]
  BY <1>1, <1>3 DEF TypeOK, Teaches
<1>9. TypeOK'
  BY <1>4, <1>5, <1>6, <1>7, <1>8 DEF TypeOK
<1>10. \A z \in Session, n \in Name \ Tool : overrides'[z][n] = overrides[z][n]
  BY <1>1, <1>2, <1>3 DEF TypeOK
<1>11. \A z \in Session, u \in Tool :
         overrides'[z][u] = CASE told'[z][u] = "always" -> "allow"
                              [] told'[z][u] = "never" -> "deny"
                              [] OTHER -> Unset
  <2> SUFFICES ASSUME NEW z \in Session, NEW u \in Tool
               PROVE  overrides'[z][u] = CASE told'[z][u] = "always" -> "allow"
                                           [] told'[z][u] = "never" -> "deny"
                                           [] OTHER -> Unset
    OBVIOUS
  <2>1. u \in Name
    BY PermissionAssumption DEF Name
  <2>2. CASE z = s /\ u = t
    BY <1>1, <1>2, <1>3, <2>1, <2>2 DEF TypeOK, OverridesAreTold, Teaches
  <2>3. CASE ~(z = s /\ u = t)
    <3>1. overrides'[z][u] = overrides[z][u] /\ told'[z][u] = told[z][u]
      BY <1>1, <1>2, <1>3, <2>1, <2>3 DEF TypeOK
    <3> QED
      BY <3>1 DEF OverridesAreTold
  <2> QED
    BY <2>2, <2>3
<1> QED
  BY <1>9, <1>10, <1>11 DEF OverridesAreTold

LEMMA GateStep == GateInv /\ [Next]_vars => GateInv'
<1> SUFFICES ASSUME GateInv, [Next]_vars PROVE GateInv'
  OBVIOUS
<1> USE DEF GateInv
<1>0. ASSUME UNCHANGED <<overrides, told>> PROVE OverridesAreTold'
  BY <1>0 DEF OverridesAreTold
<1>1. CASE UNCHANGED vars
  BY <1>0, <1>1 DEF vars, TypeOK
<1>2. ASSUME NEW s \in Session, NEW m \in Mode, ModeSet(s, m) PROVE GateInv'
  BY <1>0, <1>2 DEF ModeSet, TypeOK
<1>3. ASSUME NEW c \in Config, ConfigSet(c) PROVE GateInv'
  BY <1>0, <1>3 DEF ConfigSet, TypeOK
<1>4. ASSUME NEW r \in Run, NEW s \in Session, StartRun(r, s) PROVE GateInv'
  <2>1. [at |-> "active", snapshot |-> SnapshotOf(s)] \in ActorState
    BY SnapshotOfType DEF ActorState, Active
  <2>2. actor' \in [Actor -> ActorState]
    BY <1>4, <2>1 DEF StartRun, TypeOK
  <2> QED
    BY <1>0, <1>4, <2>2 DEF StartRun, TypeOK
<1>5. ASSUME NEW r \in Run, EndRun(r) \/ TestCommand(r) PROVE GateInv'
  <2>1. actor' \in [Actor -> ActorState]
    BY <1>5 DEF EndRun, TestCommand, TypeOK, ActorState
  <2> QED
    BY <1>0, <1>5, <2>1 DEF EndRun, TestCommand, TypeOK
<1>6. ASSUME NEW r \in Run, NEW c \in RunCall, ToolCall(r, c) PROVE GateInv'
  <2>1. r \in Actor /\ c \in Call /\ actor[r] \in ActorState
    BY DEF Actor, RunCall, TypeOK
  <2>2. actor[r].snapshot \in Snapshot
    BY <1>6, <2>1, StateTypes DEF ToolCall
  <2>3. TypeOK'
    BY <1>6, <2>1, <2>2, DecideType DEF ToolCall
  <2> QED
    BY <1>0, <1>6, <2>3 DEF ToolCall, Decide
<1>7. ASSUME NEW a \in Act, NEW s \in Session, NEW c \in ActCall, BrowserAct(a, s, c)
      PROVE  GateInv'
  <2>1. a \in Actor /\ c \in Call /\ Resting \in ActorState
    BY DEF Actor, ActCall, ActorState
  <2>2. TypeOK'
    BY <1>7, <2>1, SnapshotOfType, DecideType DEF BrowserAct
  <2> QED
    BY <1>0, <1>7, <2>2 DEF BrowserAct, Decide
<1>8. ASSUME NEW a \in Actor, NEW d \in Decision, Respond(a, d) PROVE GateInv'
  BY <1>8, RespondKeeps
<1>9. CASE Restart
  <2>1. TypeOK'
    BY <1>9, PermissionAssumption DEF Restart, TypeOK, ActorState
  <2>2. OverridesAreTold'
    BY <1>9, PermissionAssumption DEF Restart, OverridesAreTold, Name
  <2> QED
    BY <2>1, <2>2
<1> QED
  BY <1>1, <1>2, <1>3, <1>4, <1>5, <1>6, <1>7, <1>8, <1>9 DEF Next

(* The invariant of the gate holds throughout.                              *)
THEOREM GateInvHolds == Spec => []GateInv
BY GateInit, GateStep, PTL DEF Spec

(* Every variable keeps its type: in particular what a session learns is    *)
(* always "allow" or "deny", whichever decision value a client sends.       *)
THEOREM TypeCorrect == Spec => []TypeOK
<1>1. GateInv => TypeOK
  BY DEF GateInv
<1> QED
  BY <1>1, GateInvHolds, PTL

-----------------------------------------------------------------------------
(* What the last step decided. *)

(* Only a decision makes an event that a property speaks of.                 *)
DecisionOf(kind) ==
  \E snapshot \in Snapshot, call \in Call :
    /\ kind = Outcome(CheckCall(snapshot, call))
    /\ event' = EventOf(kind, snapshot, call)
    /\ UNCHANGED <<told, overrides>>

(* The test command of a run, which nobody decided about. *)
IsTest(e) == ~e.gated /\ e.tool = "shell.run" /\ e.cmd = {}

LEMMA EventsAreDecisions ==
  ASSUME TypeOK, Next
  PROVE  event'.kind \in {"silent", "asked", "blocked"} =>
           DecisionOf(event'.kind) \/ IsTest(event')
<1> SUFFICES ASSUME event'.kind \in {"silent", "asked", "blocked"}
             PROVE  DecisionOf(event'.kind) \/ IsTest(event')
  OBVIOUS
<1>1. ASSUME NEW a \in Actor, NEW snapshot \in Snapshot, NEW call \in Call, NEW rest,
             Decide(a, snapshot, call, rest)
      PROVE  DecisionOf(event'.kind)
  <2>1. /\ event' = EventOf(Outcome(CheckCall(snapshot, call)), snapshot, call)
        /\ UNCHANGED <<told, overrides>>
    BY <1>1 DEF Decide
  <2>2. event'.kind = Outcome(CheckCall(snapshot, call))
    BY <2>1 DEF EventOf
  <2> QED
    BY <2>1, <2>2 DEF DecisionOf
<1>2. ASSUME NEW r \in Run, NEW c \in RunCall, ToolCall(r, c)
      PROVE  DecisionOf(event'.kind)
  <2>1. r \in Actor /\ c \in Call /\ actor[r] \in ActorState
    BY DEF Actor, RunCall, TypeOK
  <2>2. actor[r].snapshot \in Snapshot
    BY <1>2, <2>1, StateTypes DEF ToolCall
  <2> QED
    BY <1>1, <1>2, <2>1, <2>2 DEF ToolCall
<1>3. ASSUME NEW a \in Act, NEW s \in Session, NEW c \in ActCall, BrowserAct(a, s, c)
      PROVE  DecisionOf(event'.kind)
  <2>1. a \in Actor /\ c \in Call
    BY DEF Actor, ActCall
  <2> QED
    BY <1>1, <1>3, <2>1, SnapshotOfType DEF BrowserAct
<1>4. ASSUME event' = NoEvent PROVE FALSE
  BY <1>4 DEF NoEvent
<1>5. ASSUME NEW s \in Session, NEW m \in Mode, ModeSet(s, m) PROVE FALSE
  BY <1>4, <1>5 DEF ModeSet
<1>6. ASSUME NEW c \in Config, ConfigSet(c) PROVE FALSE
  BY <1>4, <1>6 DEF ConfigSet
<1>7. ASSUME NEW r \in Run, NEW s \in Session, StartRun(r, s) PROVE FALSE
  BY <1>4, <1>7 DEF StartRun
<1>8. ASSUME NEW r \in Run, EndRun(r) PROVE FALSE
  BY <1>4, <1>8 DEF EndRun
<1>11. ASSUME NEW r \in Run, TestCommand(r) PROVE IsTest(event')
  BY <1>11 DEF TestCommand, EventOf, TestCall, IsTest
<1>9. ASSUME NEW a \in Actor, NEW d \in Decision, Respond(a, d) PROVE FALSE
  BY <1>9 DEF Respond, EventOf
<1>10. ASSUME Restart PROVE FALSE
  BY <1>4, <1>10 DEF Restart
<1> QED
  BY <1>2, <1>3, <1>5, <1>6, <1>7, <1>8, <1>9, <1>10, <1>11 DEF Next

(* A call that passes the gate without a word has a ground (auto mode, no   *)
(* danger, no "never" about its key in this session, and an "always" of     *)
(* this session, an allowing config or an allowing default); the one call   *)
(* that passes the gate by is the test command of a run.                    *)
THEOREM SilentRunsHaveBasis == Spec => []SilentHasBasis
<1>1. Init => SilentHasBasis
  BY DEF Init, NoEvent, SilentHasBasis
<1>2. GateInv /\ GateInv' /\ SilentHasBasis /\ [Next]_vars => SilentHasBasis'
  <2> SUFFICES ASSUME GateInv, GateInv', SilentHasBasis, [Next]_vars, event'.kind = "silent"
               PROVE  SilentHasBasis'
    BY DEF SilentHasBasis
  <2>1. CASE UNCHANGED vars
    BY <2>1 DEF vars, SilentHasBasis, HasGround, TaughtUnder
  <2>2. CASE IsTest(event')
    BY <2>2 DEF IsTest, SilentHasBasis
  <2>3. CASE Next /\ ~IsTest(event')
    <3>1. DecisionOf("silent")
      BY <2>3, EventsAreDecisions DEF GateInv
    <3>2. PICK snapshot \in Snapshot, call \in Call :
            /\ Outcome(CheckCall(snapshot, call)) = "silent"
            /\ event' = EventOf("silent", snapshot, call)
            /\ UNCHANGED <<told, overrides>>
      BY <3>1 DEF DecisionOf
    <3> DEFINE key == KeyOf(call.tool)
               s == snapshot.session
    <3>3. /\ event'.tool = call.tool /\ event'.session = s /\ event'.cmd = call.cmd
          /\ event'.mode = snapshot.mode /\ event'.config = snapshot.config
      BY <3>2 DEF EventOf
    <3>4. call.tool \in Tool /\ s \in Session /\ key \in Name
      BY KeyOfType DEF Call, Snapshot
    <3>5. /\ snapshot.mode = "auto"
          /\ ~(key = "shell" /\ "danger" \in call.cmd)
          /\ overrides[s][key] # "deny"
          /\ \/ overrides[s][key] = "allow"
             \/ snapshot.config[key] \in {"allow", "always"}
             \/ snapshot.config[key] = Unset /\ DefaultOf(call.tool) = "allow"
      BY <3>2, SilentCheck DEF GateInv
    <3>6. call.tool = "shell.run" => key = "shell"
      BY DEF KeyOf, ActTool
    <3>7. overrides[s][key] = "allow" => TaughtUnder(s, key, "always")
      BY <3>4 DEF GateInv, OverridesAreTold, TypeOK, TaughtUnder, Unset
    <3>8. TaughtUnder(s, key, "never") => overrides[s][key] = "deny"
      BY <3>4 DEF GateInv, OverridesAreTold, TaughtUnder
    <3>9. \A d : TaughtUnder(s, key, d)' <=> TaughtUnder(s, key, d)
      BY <3>2 DEF TaughtUnder
    <3> HIDE DEF key, s
    <3>10. event'.tool = call.tool /\ KeyOf(event'.tool) = key
      BY <3>3 DEF key
    <3> QED
      BY <3>3, <3>5, <3>6, <3>7, <3>8, <3>9, <3>10 DEF SilentHasBasis, HasGround
  <2> QED
    BY <2>1, <2>2, <2>3
<1> QED
  BY <1>1, <1>2, GateInvHolds, PTL DEF Spec

(* In auto mode an override decides a call that matches no list. *)
LEMMA OverrideDecides ==
  ASSUME NEW snapshot \in Snapshot, NEW call \in Call,
         snapshot.mode = "auto", call.cmd = {},
         overrides[snapshot.session][KeyOf(call.tool)] # Unset
  PROVE  CheckCall(snapshot, call).decision = overrides[snapshot.session][KeyOf(call.tool)]
         /\ CheckCall(snapshot, call).escalate = FALSE
BY DEF CheckCall, Check, Matches, Listed, ResolvePolicy

(* For tools named like their permission key, "always" and "never" are       *)
(* heeded from the answer to the next restart, by every run of the session.  *)
(* For the other tools they are not: see the run perm_forgets.               *)
THEOREM TeachingHeeded == Spec => []TeachingIsHeeded
<1> USE DEF Heeded
<1>1. Init => TeachingIsHeeded
  BY DEF Init, NoEvent, TeachingIsHeeded
<1>2. GateInv /\ TeachingIsHeeded /\ [Next]_vars => TeachingIsHeeded'
  <2> SUFFICES ASSUME GateInv, TeachingIsHeeded, [Next]_vars,
                      event'.kind \in {"asked", "silent", "blocked"},
                      event'.mode = "auto", event'.cmd = {},
                      KeyOf(event'.tool) = event'.tool
               PROVE  TeachingIsHeeded'
    BY DEF TeachingIsHeeded
  <2>1. CASE UNCHANGED vars
    BY <2>1 DEF vars, TeachingIsHeeded
  <2>2. CASE Next
    <3>0. ~IsTest(event')
      BY DEF IsTest, KeyOf, ActTool
    <3>1. DecisionOf(event'.kind)
      BY <2>2, <3>0, EventsAreDecisions DEF GateInv
    <3>2. PICK snapshot \in Snapshot, call \in Call :
            /\ event'.kind = Outcome(CheckCall(snapshot, call))
            /\ event' = EventOf(event'.kind, snapshot, call)
            /\ UNCHANGED <<told, overrides>>
      BY <3>1 DEF DecisionOf
    <3> DEFINE t == call.tool
               s == snapshot.session
    <3>3. /\ event'.tool = t /\ event'.session = s
          /\ snapshot.mode = "auto" /\ call.cmd = {}
      BY <3>2 DEF EventOf
    <3>4. t \in Tool /\ s \in Session /\ KeyOf(t) = t
      BY <3>3 DEF Call, Snapshot
    <3>5. told[s][t] = "always" => event'.kind = "silent"
      <4> SUFFICES ASSUME told[s][t] = "always" PROVE event'.kind = "silent"
        OBVIOUS
      <4>1. overrides[s][t] = "allow"
        BY <3>4 DEF GateInv, OverridesAreTold
      <4>2. /\ CheckCall(snapshot, call).decision = "allow"
            /\ CheckCall(snapshot, call).escalate = FALSE
        BY <3>3, <3>4, <4>1, OverrideDecides DEF Unset
      <4> QED
        BY <3>2, <4>2 DEF Outcome
    <3>6. told[s][t] = "never" => event'.kind = "blocked"
      <4> SUFFICES ASSUME told[s][t] = "never" PROVE event'.kind = "blocked"
        OBVIOUS
      <4>1. overrides[s][t] = "deny"
        BY <3>4 DEF GateInv, OverridesAreTold
      <4>2. /\ CheckCall(snapshot, call).decision = "deny"
            /\ CheckCall(snapshot, call).escalate = FALSE
        BY <3>3, <3>4, <4>1, OverrideDecides DEF Unset
      <4> QED
        BY <3>2, <4>2 DEF Outcome
    <3> QED
      BY <3>2, <3>3, <3>5, <3>6 DEF TeachingIsHeeded
  <2> QED
    BY <2>1, <2>2
<1> QED
  BY <1>1, <1>2, GateInvHolds, PTL DEF Spec
=============================================================================
