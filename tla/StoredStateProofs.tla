-------------------------- MODULE StoredStateProofs --------------------------
(***************************************************************************)
(* Proofs about what outlives a call: the folders of skills, Google's      *)
(* tokens, config.json and daemon.json, the files the tools edit and the   *)
(* cache of web.fetch, for any number of calls and crashes.                *)
(*                                                                         *)
(* Each invariant says what a call may rely on at the point where it       *)
(* stands, for the store changes under it while it waits: that a call that *)
(* writes has earned it, that the good token is with the call that         *)
(* refreshes, that a file which is not cut holds what was saved last.      *)
(***************************************************************************)
EXTENDS SkillAcquisition, GoogleTokens, CliSetup, DaemonDiscovery, FileEdits, WebCache,
        FiniteSetTheorems, TLAPS

(* --------------------------------- skills -------------------------------- *)

(* The installation is atomic because a folder of the skills directory comes *)
(* into being by one rename of a full quarantine folder; what the rename     *)
(* needs, allowed files, is a matter of where the call is.                   *)

(* A call that writes has files of the allowed kinds only. *)
WritesAllowed == \A i \in Installation : install[i] = "writing" => i \in Allowed

(* What the daemon has read of ~/.otoclaw/skills is there. *)
LoadedIsInstalled == loading = "managed" => loaded \subseteq InstalledSkills

SkillInv ==
  /\ SkillTypeOK
  /\ WritesAllowed
  /\ LoadedIsInstalled
  /\ SkillsSound

LEMMA SkillInitially == SkillInit => SkillInv
BY SkillAssumption
   DEF SkillInit, SkillInv, SkillTypeOK, WritesAllowed, LoadedIsInstalled, SkillsSound,
       ManagedSkillsAreWhole, InstalledIsOnDisk, AcquiredOnRequest, InstalledSkills

(* A step of an acquisition touches neither the disk nor the registry. *)
LEMMA AcquireStep ==
  ASSUME SkillInv, NEW q \in Acquisition,
         NEW s \in {"searching", "asking", "installing", "installed", "skipped", "not_found"},
         To(q, s), approved \subseteq approved', approved' \subseteq Acquisition,
         s = "installing" => q \in approved',
         s = "installed" => q \in approved' \/ Wanted[q] \in Registered
  PROVE  SkillInv'
<1>1. UNCHANGED <<installVars, loadVars>> /\ step' = [step EXCEPT ![q] = s]
  BY DEF To
<1>2. SkillTypeOK' /\ WritesAllowed' /\ LoadedIsInstalled'
  BY <1>1 DEF SkillInv, SkillTypeOK, WritesAllowed, LoadedIsInstalled, InstalledSkills,
              installVars, loadVars
<1>3. ManagedSkillsAreWhole' /\ InstalledIsOnDisk'
  BY <1>1 DEF SkillInv, SkillsSound, ManagedSkillsAreWhole, InstalledIsOnDisk,
              InstalledSkills, installVars, loadVars
<1>4. AcquiredOnRequest'
  <2>1. \A p \in Acquisition : step'[p] = IF p = q THEN s ELSE step[p]
    BY <1>1 DEF SkillInv, SkillTypeOK
  <2>2. Registered' = Registered
    BY <1>1 DEF Registered, loadVars
  <2> QED
    BY <2>1, <2>2 DEF SkillInv, SkillsSound, AcquiredOnRequest
<1> QED
  BY <1>2, <1>3, <1>4 DEF SkillInv, SkillsSound

(* A step of an installation that does not promote.                         *)
LEMMA InstallStep ==
  ASSUME SkillInv, NEW i \in Installation, NEW s \in {"writing", "threw"}, Moves(i, s),
         UNCHANGED skillsDir, quarantine' \in [Installation -> 0 .. FilesPerSkill],
         s = "writing" => i \in Allowed
  PROVE  SkillInv'
<1>1. UNCHANGED <<acquireVars, loadVars, skillsDir>> /\ install' = [install EXCEPT ![i] = s]
  BY DEF Moves
<1>2. SkillTypeOK' /\ WritesAllowed' /\ LoadedIsInstalled'
  BY <1>1 DEF SkillInv, SkillTypeOK, WritesAllowed, LoadedIsInstalled, InstalledSkills,
              acquireVars, loadVars
<1>3. ManagedSkillsAreWhole' /\ AcquiredOnRequest'
  BY <1>1 DEF SkillInv, SkillsSound, ManagedSkillsAreWhole, AcquiredOnRequest,
              InstalledSkills, Registered, acquireVars, loadVars
<1>4. InstalledIsOnDisk'
  BY <1>1 DEF SkillInv, SkillTypeOK, SkillsSound, InstalledIsOnDisk, InstalledSkills
<1> QED
  BY <1>2, <1>3, <1>4 DEF SkillInv, SkillsSound

(* The rename: the folder is full, its files allowed, and no call that      *)
(* installed the same skill can be there.                                   *)
LEMMA PromoteStep ==
  ASSUME SkillInv, NEW i \in Installation, Promote(i)
  PROVE  SkillInv'
<1> DEFINE n == Wanted[i]
<1>1. install[i] = "writing" /\ quarantine[i] = FilesPerSkill /\ n \in Skill
  BY SkillAssumption DEF Promote
<1>2. i \in Allowed
  BY <1>1 DEF SkillInv, WritesAllowed
<1>3. CASE skillsDir[n] # 0
  BY <1>1, <1>2, <1>3, InstallStep DEF Promote, SkillInv, SkillTypeOK
<1>4. CASE skillsDir[n] = 0
  <2>1. /\ Moves(i, "installed")
        /\ skillsDir' = [skillsDir EXCEPT ![n] = FilesPerSkill]
        /\ quarantine' = [quarantine EXCEPT ![i] = 0]
    BY <1>1, <1>4 DEF Promote
  <2>2. UNCHANGED <<acquireVars, loadVars>> /\ install' = [install EXCEPT ![i] = "installed"]
    BY <2>1 DEF Moves
  <2>3. SkillTypeOK'
    BY <1>1, <2>1, <2>2, SkillAssumption DEF SkillInv, SkillTypeOK, acquireVars, loadVars
  <2>4. \A j \in Installation : install'[j] = IF j = i THEN "installed" ELSE install[j]
    BY <2>2 DEF SkillInv, SkillTypeOK
  <2>5. \A k \in Skill : skillsDir'[k] = IF k = n THEN FilesPerSkill ELSE skillsDir[k]
    BY <2>1 DEF SkillInv, SkillTypeOK
  <2>6. InstalledSkills' = InstalledSkills \cup {n} /\ n \notin InstalledSkills
    BY <1>1, <1>4, <2>5, SkillAssumption DEF InstalledSkills
  <2>7. WritesAllowed' /\ LoadedIsInstalled'
    BY <2>2, <2>4, <2>6 DEF SkillInv, WritesAllowed, LoadedIsInstalled, loadVars
  <2>8. ManagedSkillsAreWhole'
    BY <1>2, <2>2, <2>5, <2>6, SkillAssumption
       DEF SkillInv, SkillsSound, ManagedSkillsAreWhole, loadVars
  <2>9. InstalledIsOnDisk'
    BY <2>4, <2>6 DEF SkillInv, SkillsSound, InstalledIsOnDisk
  <2>10. AcquiredOnRequest'
    BY <2>2 DEF SkillInv, SkillsSound, AcquiredOnRequest, Registered, acquireVars, loadVars
  <2> QED
    BY <2>3, <2>7, <2>8, <2>9, <2>10 DEF SkillInv, SkillsSound
<1> QED
  BY <1>3, <1>4

LEMMA SkillStep == SkillInv /\ [SkillNext]_skillVars => SkillInv'
<1> SUFFICES ASSUME SkillInv, [SkillNext]_skillVars PROVE SkillInv'
  OBVIOUS
<1>0. approved \subseteq Acquisition
  BY DEF SkillInv, SkillTypeOK
<1>1. ASSUME NEW q \in Acquisition, StartAcquire(q) PROVE SkillInv'
  BY <1>0, <1>1, AcquireStep DEF StartAcquire
<1>2. ASSUME NEW q \in Acquisition, SearchReturns(q) PROVE SkillInv'
  BY <1>0, <1>2, AcquireStep DEF SearchReturns
<1>3. ASSUME NEW q \in Acquisition, AnswerSkill(q) PROVE SkillInv'
  BY <1>0, <1>3, AcquireStep DEF AnswerSkill
<1>4. ASSUME NEW q \in Acquisition, InstallerReturns(q) PROVE SkillInv'
  <2>1. q \in approved
    BY <1>4 DEF InstallerReturns, SkillInv, SkillsSound, AcquiredOnRequest
  <2> QED
    BY <1>0, <1>4, <2>1, AcquireStep DEF InstallerReturns
<1>5. ASSUME NEW i \in Installation, VerifyFiles(i) PROVE SkillInv'
  BY <1>5, InstallStep DEF VerifyFiles, SkillInv, SkillTypeOK
<1>6. ASSUME NEW i \in Installation, WriteFile(i) PROVE SkillInv'
  <2>1. quarantine' \in [Installation -> 0 .. FilesPerSkill] /\ i \in Allowed
    BY <1>6, SkillAssumption DEF WriteFile, SkillInv, SkillTypeOK, WritesAllowed
  <2> QED
    BY <1>6, <2>1, InstallStep DEF WriteFile
<1>7. ASSUME NEW i \in Installation, Promote(i) PROVE SkillInv'
  BY <1>7, PromoteStep
<1>8. ASSUME NEW i \in Installation, InstallThrows(i) PROVE SkillInv'
  BY <1>8, InstallStep DEF InstallThrows, SkillInv, SkillTypeOK
<1>9. ASSUME NEW n \in Skill, LoadSkill(n) PROVE SkillInv'
  <2>1. UNCHANGED <<project, loading, registry, skillCrashes, acquireVars, installVars>>
    BY <1>9 DEF LoadSkill
  <2>2. SkillTypeOK' /\ WritesAllowed'
    BY <1>9, <2>1 DEF LoadSkill, SkillInv, SkillTypeOK, WritesAllowed, acquireVars, installVars
  <2>3. LoadedIsInstalled'
    BY <1>9, <2>1, SkillAssumption
       DEF LoadSkill, SkillInv, SkillTypeOK, LoadedIsInstalled, InstalledSkills, installVars
  <2>4. SkillsSound'
    BY <2>1 DEF SkillInv, SkillsSound, ManagedSkillsAreWhole, InstalledIsOnDisk,
                AcquiredOnRequest, InstalledSkills, Registered, acquireVars, installVars
  <2> QED
    BY <2>2, <2>3, <2>4 DEF SkillInv
<1>10. ASSUME RegisterLoaded PROVE SkillInv'
  <2>1. /\ UNCHANGED <<project, skillCrashes, acquireVars, installVars>>
        /\ registry' = [n \in Skill |-> IF n \in loaded THEN loading ELSE registry[n]]
        /\ loading' = (IF loading = "project" THEN "managed" ELSE "done")
        /\ toLoad' = (IF loading = "project" THEN InstalledSkills ELSE {})
        /\ loaded' = {} /\ loading \in {"project", "managed"}
    BY <1>10 DEF RegisterLoaded, SkillInv, SkillTypeOK
  <2>2. SkillTypeOK' /\ WritesAllowed' /\ LoadedIsInstalled'
    BY <2>1 DEF SkillInv, SkillTypeOK, WritesAllowed, LoadedIsInstalled, InstalledSkills,
                acquireVars, installVars
  <2>3. ManagedSkillsAreWhole' /\ InstalledIsOnDisk'
    BY <2>1 DEF SkillInv, SkillTypeOK, LoadedIsInstalled, SkillsSound, ManagedSkillsAreWhole,
                InstalledIsOnDisk, InstalledSkills, installVars
  <2>4. Registered \subseteq Registered'
    BY <2>1 DEF Registered
  <2>5. AcquiredOnRequest'
    BY <2>1, <2>4 DEF SkillInv, SkillsSound, AcquiredOnRequest, acquireVars
  <2> QED
    BY <2>2, <2>3, <2>5 DEF SkillInv, SkillsSound
<1>11. CASE CrashAndRestart
  BY <1>11, SkillAssumption
     DEF CrashAndRestart, BeginLoad, SkillInv, SkillTypeOK, WritesAllowed, LoadedIsInstalled,
         SkillsSound, ManagedSkillsAreWhole, InstalledIsOnDisk, AcquiredOnRequest, InstalledSkills
<1>12. CASE UNCHANGED skillVars
  BY <1>12 DEF skillVars, SkillInv, SkillTypeOK, WritesAllowed, LoadedIsInstalled, SkillsSound,
               ManagedSkillsAreWhole, InstalledIsOnDisk, AcquiredOnRequest, InstalledSkills,
               Registered
<1> QED
  BY <1>1, <1>2, <1>3, <1>4, <1>5, <1>6, <1>7, <1>8, <1>9, <1>10, <1>11, <1>12 DEF SkillNext

LEMMA SkillInvariant == SkillSpec => []SkillInv
BY SkillInitially, SkillStep, PTL DEF SkillSpec

-----------------------------------------------------------------------------
(* Whatever installations overlap, fail or are cut short by a crash, a      *)
(* folder they leave in the skills directory is whole and of allowed files, *)
(* and what is registered from there is such a folder (acquisition.ts:104,  *)
(* server.ts:129).                                                          *)
THEOREM InstalledSkillsAreWhole == SkillSpec => []ManagedSkillsAreWhole
BY SkillInvariant, PTL DEF SkillInv, SkillsSound

(* An installation returns only if its skill is on disk, and one of a skill *)
(* at most: the rename that comes second fails (acquisition.ts:126).        *)
THEOREM InstalledOnce == SkillSpec => []InstalledIsOnDisk
BY SkillInvariant, PTL DEF SkillInv, SkillsSound

(* Both, and an acquisition calls its installer on the user's word only: it *)
(* says "installed" of what was approved or is registered                   *)
(* (acquisition.ts:44-64).                                                  *)
THEOREM SkillsAreSound == SkillSpec => []SkillsSound
BY SkillInvariant, PTL DEF SkillInv

(* ---------------------------- Google's tokens ---------------------------- *)

(* There are two reasons why the stored refresh token is good, and the       *)
(* invariant keeps them apart: an endpoint that never rotates accepts every  *)
(* token it ever issued; and refreshes that neither overlap nor break off    *)
(* pass one token from the store to the endpoint and the new one back.       *)

Known == live \cup {NoTokens}

(* Without rotation every refresh token in the store or in a call is good. *)
KeptTokens ==
  ~rotated => stored.refresh \in Known /\ \A q \in GoogleCall : held[q].refresh \in Known

(* Without overlap one call at a time refreshes; the good token is with it  *)
(* from the endpoint's answer until it is stored.                           *)
PassedTokens ==
  ~torn =>
    /\ \A p, q \in GoogleCall : Refreshing(p) /\ Refreshing(q) => p = q
    /\ \A q \in GoogleCall : gcall[q] = "storing" => held[q].refresh \in live
    /\ (\A q \in GoogleCall : gcall[q] # "storing") => stored.refresh \in Known

GoogleInv == GoogleTypeOK /\ KeptTokens /\ PassedTokens

LEMMA GoogleInitially == GoogleInit => GoogleInv
<1> SUFFICES ASSUME GoogleInit PROVE GoogleInv
  OBVIOUS
<1>1. GoogleTypeOK
  <2>1. [access |-> NoTokens, refresh |-> NoTokens] \in Tokens /\ 0 \in 0 .. MaxTokens
    BY GoogleAssumption DEF Tokens, NoTokens
  <2>2. rotated \in BOOLEAN /\ torn \in BOOLEAN
    BY DEF GoogleInit
  <2> QED
    BY <2>1, <2>2 DEF GoogleInit, GoogleTypeOK
<1>2. /\ stored.refresh = NoTokens
      /\ \A q \in GoogleCall : held[q].refresh = NoTokens /\ gcall[q] = "idle"
  BY DEF GoogleInit
<1>3. KeptTokens /\ PassedTokens
  BY <1>2 DEF KeptTokens, PassedTokens, Known, Refreshing
<1> QED
  BY <1>1, <1>3 DEF GoogleInv

(* A step that leaves the tokens where they are, and lets no second call    *)
(* refresh, keeps the invariant.                                            *)
LEMMA QuietStep ==
  ASSUME GoogleInv, GoogleTypeOK',
         UNCHANGED <<stored, live, rotated>>,
         \A q \in GoogleCall : held'[q].refresh \in {held[q].refresh, stored.refresh, NoTokens},
         \A q \in GoogleCall :
           gcall'[q] = "storing" => gcall[q] = "storing" /\ held'[q] = held[q],
         ~torn' => ~torn /\ (\A q \in GoogleCall : gcall[q] = "storing" => gcall'[q] = "storing"),
         ~torn' => \A p, q \in GoogleCall : Refreshing(p)' /\ Refreshing(q)' => p = q
  PROVE  GoogleInv'
<1>1. KeptTokens'
  BY DEF GoogleInv, KeptTokens, Known
<1>2. PassedTokens'
  BY DEF GoogleInv, PassedTokens, Known
<1> QED
  BY <1>1, <1>2 DEF GoogleInv

(* A refused or answered refresh passes the good token on.                  *)
LEMMA RefreshStep ==
  ASSUME GoogleInv, NEW q \in GoogleCall, RefreshAnswered(q)
  PROVE  GoogleInv'
<1>1. gcall[q] = "refreshing" /\ issued \in Nat /\ issued + 1 \in 1 .. MaxTokens
      /\ UNCHANGED <<stored, torn>>
  BY GoogleAssumption DEF RefreshAnswered, GoogleInv, GoogleTypeOK
<1>2. \A p \in GoogleCall \ {q} : ~torn => ~Refreshing(p)
  BY <1>1 DEF GoogleInv, PassedTokens, Refreshing
<1>3. CASE held[q].refresh \notin live
  <2>1. gcall' = [gcall EXCEPT ![q] = "failed"] /\ UNCHANGED <<issued, usable, live, held, rotated>>
    BY <1>3 DEF RefreshAnswered, At
  <2>2. GoogleTypeOK'
    BY <1>1, <2>1 DEF GoogleInv, GoogleTypeOK
  <2>3. \A p \in GoogleCall : gcall'[p] = IF p = q THEN "failed" ELSE gcall[p]
    BY <2>1 DEF GoogleInv, GoogleTypeOK
  <2> QED
    BY <1>1, <1>2, <2>1, <2>2, <2>3, QuietStep DEF GoogleInv, PassedTokens, Refreshing
<1>4. CASE held[q].refresh \in live
  <2> DEFINE new(rotate) == ToOAuthTokens([access |-> issued + 1,
                              refresh |-> IF rotate THEN issued + 1 ELSE NoTokens],
                              held[q].refresh)
  <2>1. PICK rotate \in BOOLEAN :
          /\ issued' = issued + 1 /\ usable' = usable \cup {issued'}
          /\ live' = IF rotate THEN (live \ {held[q].refresh}) \cup {issued'} ELSE live
          /\ held' = [held EXCEPT ![q] = new(rotate)]
          /\ rotated' = (rotated \/ rotate)
          /\ gcall' = [gcall EXCEPT ![q] = "storing"]
    BY <1>4 DEF RefreshAnswered, At
  <2>2. new(rotate).refresh = IF rotate THEN issued + 1 ELSE held[q].refresh
    BY <1>1 DEF ToOAuthTokens, NoTokens
  <2>3. new(rotate) \in Tokens
    BY <1>1, <2>2 DEF ToOAuthTokens, Tokens, GoogleInv, GoogleTypeOK
  <2> HIDE DEF new
  <2>4. new(rotate).refresh \in live'
    BY <1>4, <2>1, <2>2
  <2>5. \A p \in GoogleCall : /\ held'[p] = IF p = q THEN new(rotate) ELSE held[p]
                              /\ gcall'[p] = IF p = q THEN "storing" ELSE gcall[p]
    BY <2>1 DEF GoogleInv, GoogleTypeOK
  <2>6. GoogleTypeOK'
    <3>1. rotated' \in BOOLEAN
      BY <2>1
    <3>2. held' \in [GoogleCall -> Tokens]
      BY <2>1, <2>3 DEF GoogleInv, GoogleTypeOK
    <3>3. /\ live' \subseteq 1 .. MaxTokens /\ usable' \subseteq 1 .. MaxTokens
          /\ issued' \in 0 .. MaxTokens
      <4>1. /\ issued' = issued + 1 /\ usable' = usable \cup {issued + 1}
            /\ live' \subseteq live \cup {issued + 1}
        BY <2>1
      <4>2. live \subseteq 1 .. MaxTokens /\ usable \subseteq 1 .. MaxTokens
        BY DEF GoogleInv, GoogleTypeOK
      <4>3. issued + 1 \in 0 .. MaxTokens
        BY <1>1
      <4> QED
        BY <1>1, <4>1, <4>2, <4>3
    <3> QED
      BY <1>1, <2>1, <3>1, <3>2, <3>3 DEF GoogleInv, GoogleTypeOK
  <2>7. KeptTokens'
    <3>1. SUFFICES ASSUME ~rotated' PROVE KeptTokens'
      BY Zenon DEF KeptTokens
    <3>2. ~rotated /\ ~rotate
      BY <2>1, <3>1, Zenon
    <3>3. live' = live
      BY <2>1, <3>2
    <3> QED
      BY <1>1, <2>4, <2>5, <3>2, <3>3 DEF GoogleInv, KeptTokens, Known
  <2>8. PassedTokens'
    BY <1>1, <1>2, <2>4, <2>5 DEF PassedTokens, Refreshing
  <2> QED
    BY <2>6, <2>7, <2>8 DEF GoogleInv
<1> QED
  BY <1>3, <1>4

LEMMA GoogleStep == GoogleInv /\ [GoogleNext]_googleVars => GoogleInv'
<1> SUFFICES ASSUME GoogleInv, [GoogleNext]_googleVars PROVE GoogleInv'
  OBVIOUS
<1>1. CASE ExchangeCode
  <2>1. /\ issued' = issued + 1 /\ issued \in Nat /\ issued + 1 \in 1 .. MaxTokens
        /\ live' = live \cup {issued'} /\ usable' = usable \cup {issued'}
        /\ stored' = [access |-> issued', refresh |-> issued']
        /\ UNCHANGED <<held, gcall, rotated, torn>>
    BY <1>1, GoogleAssumption DEF ExchangeCode, GoogleInv, GoogleTypeOK
  <2>2. GoogleTypeOK'
    BY <2>1 DEF GoogleInv, GoogleTypeOK, Tokens
  <2>3. KeptTokens'
    BY <2>1 DEF GoogleInv, KeptTokens, Known
  <2>4. PassedTokens'
    BY <2>1 DEF GoogleInv, PassedTokens, Known, Refreshing
  <2> QED
    BY <2>2, <2>3, <2>4 DEF GoogleInv
<1>2. CASE GoogleCrash
  <2>1. /\ gcall' = [q \in GoogleCall |-> "idle"] /\ torn' = TRUE
        /\ held' = [q \in GoogleCall |-> [access |-> NoTokens, refresh |-> NoTokens]]
        /\ UNCHANGED <<stored, issued, live, usable, rotated>>
    BY <1>2 DEF GoogleCrash
  <2>2. GoogleTypeOK'
    BY <2>1, GoogleAssumption DEF GoogleInv, GoogleTypeOK, Tokens, NoTokens
  <2> QED
    BY <2>1, <2>2, QuietStep
<1>3. ASSUME NEW n \in 1 .. MaxTokens, AccessExpires(n) PROVE GoogleInv'
  <2>1. usable' = usable \ {n} /\ UNCHANGED <<stored, held, gcall, issued, live, rotated, torn>>
    BY <1>3 DEF AccessExpires
  <2>2. GoogleTypeOK'
    BY <2>1 DEF GoogleInv, GoogleTypeOK
  <2> QED
    BY <2>1, <2>2 DEF GoogleInv, KeptTokens, PassedTokens, Known, Refreshing
<1>4. ASSUME NEW q \in GoogleCall, ReadTokens(q) PROVE GoogleInv'
  <2>1. PICK s \in {"failed", "checking"} :
          /\ gcall[q] = "idle" /\ gcall' = [gcall EXCEPT ![q] = s]
          /\ held' = [held EXCEPT ![q] = stored]
          /\ UNCHANGED <<stored, issued, live, usable, rotated, torn>>
    BY <1>4 DEF ReadTokens, At
  <2>2. GoogleTypeOK'
    BY <2>1 DEF GoogleInv, GoogleTypeOK
  <2>3. \A p \in GoogleCall : /\ held'[p] = IF p = q THEN stored ELSE held[p]
                              /\ gcall'[p] = IF p = q THEN s ELSE gcall[p]
    BY <2>1 DEF GoogleInv, GoogleTypeOK
  <2> QED
    BY <2>1, <2>2, <2>3, QuietStep DEF GoogleInv, PassedTokens, Refreshing
<1>5. ASSUME NEW q \in GoogleCall, CheckTokens(q) PROVE GoogleInv'
  <2>1. PICK s \in {"sending", "refreshing"} :
          /\ gcall[q] = "checking" /\ gcall' = [gcall EXCEPT ![q] = s]
          /\ s = "refreshing" <=> held[q].access \notin usable
          /\ UNCHANGED <<stored, held, issued, live, usable, rotated>>
    BY <1>5 DEF CheckTokens, At
  <2>2. torn' \in BOOLEAN /\ (torn => torn')
        /\ (~torn' /\ s = "refreshing" => \A p \in GoogleCall : ~Refreshing(p))
    BY <1>5, <2>1 DEF CheckTokens
  <2>3. GoogleTypeOK'
    BY <2>1, <2>2 DEF GoogleInv, GoogleTypeOK
  <2>4. \A p \in GoogleCall : gcall'[p] = IF p = q THEN s ELSE gcall[p]
    BY <2>1 DEF GoogleInv, GoogleTypeOK
  <2> QED
    BY <2>1, <2>2, <2>3, <2>4, QuietStep DEF GoogleInv, PassedTokens, Refreshing
<1>6. ASSUME NEW q \in GoogleCall, RefreshAnswered(q) PROVE GoogleInv'
  BY <1>6, RefreshStep
<1>7. ASSUME NEW q \in GoogleCall, StoreTokens(q) PROVE GoogleInv'
  <2>1. /\ gcall[q] = "storing" /\ stored' = held[q] /\ gcall' = [gcall EXCEPT ![q] = "sending"]
        /\ UNCHANGED <<held, issued, live, usable, rotated, torn>>
    BY <1>7 DEF StoreTokens, At
  <2>2. GoogleTypeOK'
    BY <2>1 DEF GoogleInv, GoogleTypeOK
  <2>3. \A p \in GoogleCall : gcall'[p] = IF p = q THEN "sending" ELSE gcall[p]
    BY <2>1 DEF GoogleInv, GoogleTypeOK
  <2>4. KeptTokens'
    BY <2>1 DEF GoogleInv, KeptTokens, Known
  <2>5. PassedTokens'
    BY <2>1, <2>3 DEF GoogleInv, PassedTokens, Known, Refreshing
  <2> QED
    BY <2>2, <2>4, <2>5 DEF GoogleInv
<1>8. ASSUME NEW q \in GoogleCall, SendGoogle(q) PROVE GoogleInv'
  <2>1. PICK s \in {"answered", "failed"} :
          /\ gcall[q] = "sending" /\ gcall' = [gcall EXCEPT ![q] = s]
          /\ UNCHANGED <<stored, held, issued, live, usable, rotated, torn>>
    BY <1>8 DEF SendGoogle, At
  <2>2. GoogleTypeOK'
    BY <2>1 DEF GoogleInv, GoogleTypeOK
  <2>3. \A p \in GoogleCall : gcall'[p] = IF p = q THEN s ELSE gcall[p]
    BY <2>1 DEF GoogleInv, GoogleTypeOK
  <2> QED
    BY <2>1, <2>2, <2>3, QuietStep DEF GoogleInv, PassedTokens, Refreshing
<1>9. ASSUME NEW q \in GoogleCall, NextGoogleCall(q) PROVE GoogleInv'
  <2>1. /\ gcall[q] \in {"answered", "failed"} /\ gcall' = [gcall EXCEPT ![q] = "idle"]
        /\ held' = [held EXCEPT ![q] = [access |-> NoTokens, refresh |-> NoTokens]]
        /\ UNCHANGED <<stored, issued, live, usable, rotated, torn>>
    BY <1>9 DEF NextGoogleCall, At
  <2>2. [access |-> NoTokens, refresh |-> NoTokens] \in Tokens
    BY GoogleAssumption DEF Tokens, NoTokens
  <2>3. GoogleTypeOK'
    BY <2>1, <2>2 DEF GoogleInv, GoogleTypeOK
  <2>4. \A p \in GoogleCall :
          /\ held'[p] = IF p = q THEN [access |-> NoTokens, refresh |-> NoTokens] ELSE held[p]
          /\ gcall'[p] = IF p = q THEN "idle" ELSE gcall[p]
    BY <2>1 DEF GoogleInv, GoogleTypeOK
  <2> QED
    BY <2>1, <2>3, <2>4, QuietStep DEF GoogleInv, PassedTokens, Refreshing
<1>10. CASE UNCHANGED googleVars
  BY <1>10 DEF googleVars, GoogleInv, GoogleTypeOK, KeptTokens, PassedTokens, Known, Refreshing
<1> QED
  BY <1>1, <1>2, <1>3, <1>4, <1>5, <1>6, <1>7, <1>8, <1>9, <1>10 DEF GoogleNext

-----------------------------------------------------------------------------
(* Between refreshes the stored refresh token is one the endpoint accepts:  *)
(* however calls overlap and crash when it does not rotate tokens, and when *)
(* it does, unless refreshes overlap or are cut off (adapter.ts:101).       *)
THEOREM StoredTokensAreGood == GoogleSpec => []StoredTokensCanBeRefreshed
<1>1. GoogleInv => StoredTokensCanBeRefreshed
  BY DEF GoogleInv, KeptTokens, PassedTokens, Known, Refreshing, StoredTokensCanBeRefreshed
<1> QED
  BY <1>1, GoogleInitially, GoogleStep, PTL DEF GoogleSpec

(* ------------------------------ config.json ------------------------------ *)

(* From the reply to config.get on the status line shows the mode that will *)
(* be, is, or with the answer to come was, that of the App's session.       *)
ModeInView ==
  \A a \in App :
    /\ phase[a] = "creating" => shown[a] = config[a].mode
    /\ phase[a] \in {"choosing", "wizard", "ready"} =>
         session[a].mode = IF asked[a] = << >> THEN shown[a] ELSE asked[a][Len(asked[a])]
    /\ asked[a] # << >> => Submits(a)

(* Unless a crash has cut it short, config.json is missing only as long as  *)
(* nothing has been saved, and holds what was saved last.                   *)
FileHoldsSaved ==
  ~fileCut =>
    /\ file = Unreadable => wanted = {} /\ chosen = NoModel
    /\ file # Unreadable => /\ file.denied = wanted
                            /\ chosen # NoModel => file.model = chosen

SetupInv == SetupTypeOK /\ ModeInView /\ FileHoldsSaved

(* What is loaded is a configuration; it denies what the file denies and    *)
(* has the file's model if that names one.                                  *)
LEMMA Loaded ==
  ASSUME SetupTypeOK
  PROVE  /\ LoadConfig \in Config
         /\ file # Unreadable =>
              /\ LoadConfig.denied = file.denied
              /\ file.model # NoModel => LoadConfig.model = file.model
         /\ file = Unreadable => LoadConfig.denied = {}
<1>1. file \in Config \cup {Unreadable} /\ env \in Model \cup {NoModel}
  BY DEF SetupTypeOK
<1>2. DefaultConfig \in Config /\ DefaultConfig.denied = {}
  BY DEF DefaultConfig, Config, Mode
<1> DEFINE read == IF file = Unreadable THEN DefaultConfig ELSE file
<1>3. read \in Config
  BY <1>1, <1>2
<1>4. LoadConfig = IF read.model = NoModel THEN [read EXCEPT !.model = env] ELSE read
  BY DEF LoadConfig, LoadEnvFile
<1>5. LoadConfig \in Config /\ LoadConfig.denied = read.denied
      /\ (read.model # NoModel => LoadConfig.model = read.model)
  BY <1>1, <1>3, <1>4 DEF Config
<1> QED
  BY <1>2, <1>5

(* A patch changes the fields it names, and those only.                     *)
LEMMA MergedPatch ==
  ASSUME SetupTypeOK, NEW patch \in Patch
  PROVE  LET file2 == MergeConfig(patch) IN
         /\ file2 \in Config
         /\ file2.denied = IF "denied" \in DOMAIN patch THEN patch.denied ELSE LoadConfig.denied
         /\ file2.model = IF "model" \in DOMAIN patch THEN patch.model ELSE LoadConfig.model
<1>1. DOMAIN LoadConfig = {"mode", "model", "denied"} /\ LoadConfig \in Config
  BY Loaded DEF Config
<1>2. MergeConfig(patch) = [k \in {"mode", "model", "denied"} |->
                              IF k \in DOMAIN patch THEN patch[k] ELSE LoadConfig[k]]
  BY <1>1 DEF MergeConfig
<1>3. CASE \E mode \in Mode : patch = [mode |-> mode]
  BY <1>1, <1>2, <1>3 DEF Config
<1>4. CASE \E model \in Model : patch = [model |-> model]
  BY <1>1, <1>2, <1>4 DEF Config
<1>5. CASE \E denied \in SUBSET Key : patch = [denied |-> denied]
  BY <1>1, <1>2, <1>5 DEF Config
<1> QED
  BY <1>3, <1>4, <1>5 DEF Patch

(* The wizard saves the mode, its model if it has one, the rest as loaded.   *)
LEMMA MergedWizard ==
  ASSUME SetupTypeOK, NEW mode \in Mode, NEW model \in Model \cup {NoModel},
         NEW patch,
         patch = IF model = NoModel THEN [mode |-> mode] ELSE [mode |-> mode, model |-> model]
  PROVE  MergeConfig(patch) =
           [mode |-> mode, model |-> IF model = NoModel THEN LoadConfig.model ELSE model,
            denied |-> LoadConfig.denied]
<1>1. DOMAIN LoadConfig = {"mode", "model", "denied"} /\ LoadConfig \in Config
  BY Loaded DEF Config
<1>2. MergeConfig(patch) = [k \in {"mode", "model", "denied"} |->
                              IF k \in DOMAIN patch THEN patch[k] ELSE LoadConfig[k]]
  BY <1>1 DEF MergeConfig
<1>3. CASE model = NoModel
  <2>1. DOMAIN patch = {"mode"} /\ patch["mode"] = mode
    BY <1>3
  <2> QED
    BY <1>2, <1>3, <2>1
<1>4. CASE model # NoModel
  <2>1. DOMAIN patch = {"mode", "model"} /\ patch["mode"] = mode /\ patch["model"] = model
    BY <1>4
  <2> QED
    BY <1>2, <1>4, <2>1
<1> QED
  BY <1>3, <1>4

LEMMA SetupInitially == SetupInit => SetupInv
<1> SUFFICES ASSUME SetupInit PROVE SetupInv
  OBVIOUS
<1>1. SetupTypeOK
  <2>1. << >> \in Seq(Mode) /\ Len(<< >>) = 0
    OBVIOUS
  <2>2. asked \in [App -> Seq(Mode)] /\ \A a \in App : Len(asked[a]) = 0
    BY <2>1 DEF SetupInit
  <2>3. \A a \in App : Len(asked[a]) <= MaxAsked
    BY <2>2, CliSetupAssumption
  <2> QED
    BY <2>2, <2>3 DEF SetupInit, SetupTypeOK, NoSession, Mode
<1>2. ModeInView /\ FileHoldsSaved
  BY DEF SetupInit, ModeInView, FileHoldsSaved, Submits
<1> QED
  BY <1>1, <1>2 DEF SetupInv

LEMMA SetupStep == SetupInv /\ [SetupNext]_setupVars => SetupInv'
<1> SUFFICES ASSUME SetupInv, [SetupNext]_setupVars PROVE SetupInv'
  OBVIOUS
<1> USE DEF SetupInv
<1>0. SetupTypeOK /\ ModeInView /\ FileHoldsSaved
  OBVIOUS
<1>1. ASSUME NEW a \in App, GetConfig(a) PROVE SetupInv'
  <2>1. LoadConfig.mode \in Mode /\ LoadConfig.model \in Model \cup {NoModel}
    BY Loaded DEF Config
  <2>2. SetupTypeOK'
    BY <1>1, <2>1 DEF GetConfig, Goes, SetupTypeOK
  <2>3. ModeInView'
    BY <1>1, <2>1 DEF GetConfig, Goes, SetupTypeOK, ModeInView, Submits
  <2>4. FileHoldsSaved'
    BY <1>1 DEF GetConfig, FileHoldsSaved
  <2> QED
    BY <2>2, <2>3, <2>4
<1>2. ASSUME NEW a \in App, CreateSession(a) PROVE SetupInv'
  <2>1. SetupTypeOK'
    BY <1>2 DEF CreateSession, Goes, SetupTypeOK
  <2>2. ModeInView'
    BY <1>2 DEF CreateSession, Goes, SetupTypeOK, ModeInView, Submits
  <2> QED
    BY <1>2, <2>1, <2>2 DEF CreateSession, FileHoldsSaved
<1>3. ASSUME NEW a \in App, StartModel(a) PROVE SetupInv'
  <2>1. SetupTypeOK'
    BY <1>3 DEF StartModel, Goes, SetupTypeOK, NoSession, Mode
  <2>2. ModeInView'
    BY <1>3 DEF StartModel, Goes, SetupTypeOK, ModeInView, Submits
  <2> QED
    BY <1>3, <2>1, <2>2 DEF StartModel, FileHoldsSaved
<1>4. ASSUME NEW a \in App, FinishWizard(a) PROVE SetupInv'
  <2>1. PICK mode \in Mode, model \in Model \cup {NoModel} :
          /\ file' = MergeConfig(IF model = NoModel THEN [mode |-> mode]
                                 ELSE [mode |-> mode, model |-> model])
          /\ chosen' = IF model = NoModel THEN chosen ELSE model
    BY <1>4 DEF FinishWizard
  <2>2. file' = [mode |-> mode, denied |-> LoadConfig.denied,
                 model |-> IF model = NoModel THEN LoadConfig.model ELSE model]
    BY <2>1, MergedWizard
  <2>3. file' \in Config /\ file'.denied = LoadConfig.denied
        /\ file'.model = IF model = NoModel THEN LoadConfig.model ELSE model
    BY <2>2, Loaded DEF Config
  <2>4. SetupTypeOK'
    BY <1>4, <2>1, <2>3 DEF FinishWizard, Goes, SetupTypeOK
  <2>5. ModeInView'
    BY <1>4 DEF FinishWizard, Goes, SetupTypeOK, ModeInView, Submits
  <2>6. FileHoldsSaved'
    <3>1. SUFFICES ASSUME ~fileCut PROVE FileHoldsSaved'
      BY <1>4 DEF FinishWizard, FileHoldsSaved
    <3>2. LoadConfig.denied = wanted /\ (chosen # NoModel => LoadConfig.model = chosen)
      BY <3>1, Loaded DEF FileHoldsSaved
    <3>3. chosen' # NoModel => file'.model = chosen'
      BY <2>1, <2>3, <3>2
    <3>4. wanted' = wanted /\ file' # Unreadable
      BY <1>4, <2>3, CliSetupAssumption DEF FinishWizard
    <3> QED
      BY <2>3, <3>2, <3>3, <3>4 DEF FileHoldsSaved
  <2> QED
    BY <2>4, <2>5, <2>6
<1>5. ASSUME NEW a \in App, NEW mode \in Mode, SlashMode(a, mode) PROVE SetupInv'
  <2>1. asked[a] \in Seq(Mode) /\ Len(asked[a]) < MaxAsked
    BY <1>5 DEF SlashMode, SetupTypeOK
  <2>2. /\ Append(asked[a], mode) \in Seq(Mode) /\ Append(asked[a], mode) # << >>
        /\ Len(Append(asked[a], mode)) = Len(asked[a]) + 1
        /\ Append(asked[a], mode)[Len(Append(asked[a], mode))] = mode
    BY <2>1
  <2>a. asked' = [b \in App |-> IF b = a THEN Append(asked[a], mode) ELSE asked[b]]
    BY <1>5 DEF SlashMode, SetupTypeOK
  <2>b. asked' \in [App -> Seq(Mode)]
    BY <2>a, <2>2 DEF SetupTypeOK
  <2>c. \A b \in App : Len(asked'[b]) <= MaxAsked
    BY <2>a, <2>1, <2>2, CliSetupAssumption DEF SetupTypeOK
  <2>3. SetupTypeOK'
    BY <1>5, <2>b, <2>c DEF SlashMode, SetupTypeOK
  <2>4. ModeInView'
    BY <1>5, <2>2 DEF SlashMode, SetupTypeOK, ModeInView, Submits
  <2> QED
    BY <1>5, <2>3, <2>4 DEF SlashMode, FileHoldsSaved
<1>6. ASSUME NEW a \in App, ModeAnswered(a) PROVE SetupInv'
  <2>1. asked[a] \in Seq(Mode) /\ asked[a] # << >> /\ Len(asked[a]) <= MaxAsked
    BY <1>6 DEF ModeAnswered, SetupTypeOK
  <2>2. /\ Head(asked[a]) \in Mode /\ Tail(asked[a]) \in Seq(Mode)
        /\ Len(Tail(asked[a])) = Len(asked[a]) - 1 /\ Len(asked[a]) \in Nat
    BY <2>1
  <2>3. Tail(asked[a]) = << >> => Head(asked[a]) = asked[a][Len(asked[a])]
    <3>0. Len(<< >>) = 0
      OBVIOUS
    <3>1. Tail(asked[a]) = << >> => Len(Tail(asked[a])) = 0
      BY <3>0, Zenon
    <3>2. Head(asked[a]) = asked[a][1]
      BY <2>1
    <3> QED
      BY <2>2, <3>1, <3>2
  <2>4. Tail(asked[a]) # << >> => Tail(asked[a])[Len(Tail(asked[a]))] = asked[a][Len(asked[a])]
    BY <2>1, <2>2
  <2>5. SetupTypeOK'
    BY <1>6, <2>1, <2>2, CliSetupAssumption DEF ModeAnswered, SetupTypeOK
  <2>6. ModeInView'
    BY <1>6, <2>1, <2>3, <2>4 DEF ModeAnswered, SetupTypeOK, ModeInView, Submits
  <2> QED
    BY <1>6, <2>5, <2>6 DEF ModeAnswered, FileHoldsSaved
<1>7. ASSUME NEW a \in App, RestartApp(a) PROVE SetupInv'
  <2>1. << >> \in Seq(Mode) /\ Len(<< >>) = 0
    OBVIOUS
  <2>2. SetupTypeOK'
    BY <1>7, <2>1, CliSetupAssumption DEF RestartApp, Goes, SetupTypeOK, NoSession, Mode
  <2>3. ModeInView'
    BY <1>7 DEF RestartApp, Goes, SetupTypeOK, ModeInView, Submits
  <2> QED
    BY <1>7, <2>2, <2>3 DEF RestartApp, FileHoldsSaved
<1>8. ASSUME NEW a \in App, NEW model \in Model, SlashModel(a, model) PROVE SetupInv'
  <2>1. SetupTypeOK'
    BY <1>8 DEF SlashModel, SetupTypeOK
  <2>2. ModeInView'
    BY <1>8 DEF SlashModel, SetupTypeOK, ModeInView, Submits
  <2> QED
    BY <1>8, <2>1, <2>2 DEF SlashModel, FileHoldsSaved
<1>9. ASSUME NEW patch \in Patch, PatchConfig(patch) PROVE SetupInv'
  <2>1. /\ file' \in Config
        /\ file'.denied = IF "denied" \in DOMAIN patch THEN patch.denied ELSE LoadConfig.denied
        /\ file'.model = IF "model" \in DOMAIN patch THEN patch.model ELSE LoadConfig.model
    BY <1>9, MergedPatch DEF PatchConfig
  <2>2. wanted' \in SUBSET Key /\ chosen' \in Model \cup {NoModel}
    BY <1>9 DEF PatchConfig, Patch, SetupTypeOK
  <2>3. SetupTypeOK'
    BY <1>9, <2>1, <2>2 DEF PatchConfig, SetupTypeOK
  <2>4. FileHoldsSaved'
    <3>1. SUFFICES ASSUME ~fileCut PROVE FileHoldsSaved'
      BY <1>9 DEF PatchConfig, FileHoldsSaved
    <3>2. LoadConfig.denied = wanted /\ (chosen # NoModel => LoadConfig.model = chosen)
      BY <3>1, Loaded DEF FileHoldsSaved
    <3>3. file'.denied = wanted' /\ (chosen' # NoModel => file'.model = chosen')
      BY <1>9, <2>1, <3>2 DEF PatchConfig
    <3> QED
      BY <2>1, <3>3, CliSetupAssumption DEF FileHoldsSaved
  <2> QED
    BY <1>9, <2>3, <2>4 DEF PatchConfig, ModeInView, Submits
<1>10. CASE CrashWhileSaving
  <2>1. SetupTypeOK'
    BY <1>10, CliSetupAssumption DEF CrashWhileSaving, SetupTypeOK, NoSession, Mode
  <2> QED
    BY <1>10, <2>1 DEF CrashWhileSaving, ModeInView, FileHoldsSaved, Submits
<1>11. CASE EditEnv
  BY <1>11 DEF EditEnv, SetupTypeOK, ModeInView, FileHoldsSaved, Submits
<1>12. CASE UNCHANGED setupVars
  BY <1>12 DEF setupVars, SetupTypeOK, ModeInView, FileHoldsSaved, Submits
<1> QED
  BY <1>1, <1>2, <1>3, <1>4, <1>5, <1>6, <1>7, <1>8, <1>9, <1>10, <1>11, <1>12 DEF SetupNext

-----------------------------------------------------------------------------
(* With every /mode answered the mode on the status line is the session's,  *)
(* which its next run starts with, and config.json keeps the denied keys    *)
(* and the model that were saved, whatever else any client patches          *)
(* (config.ts:71, App.tsx:180, server.ts:578).                              *)
THEOREM SettingsAreKept == SetupSpec => []SettingsHold
<1>1. SetupInv => ShownModeIsTrue
  BY DEF SetupInv, ModeInView, ShownModeIsTrue, Submits
<1>2. SetupInv => ConfigSurvivesPatches
  BY Loaded DEF SetupInv, FileHoldsSaved, ConfigSurvivesPatches
<1> QED
  BY <1>1, <1>2, SetupInitially, SetupStep, PTL DEF SetupSpec, SettingsHold

(* ------------------------------ daemon.json ------------------------------ *)

Looking == {"trying", "spawning", "waiting", "connecting"}

(* While one CLI looks at a time, one daemon lives at a time; one that is   *)
(* up has written daemon.json.                                              *)
OneLives ==
  alone =>
    /\ \A d, e \in Daemon : DiscoveryAlive(d) /\ DiscoveryAlive(e) => d = e
    /\ \A d \in Daemon : daemon[d] \in {"up", "stopping"} => daemonFile = d
    /\ unlinked = {}

(* The CLI that looks knows what lives: it tries the daemon that is up, if  *)
(* there is one, and spawns another only when there is none.                *)
OneLooks ==
  alone =>
    /\ \A b, c \in Cli : cli[b] \in Looking /\ cli[c] \in Looking => b = c
    /\ \A c \in Cli : cli[c] = "trying" =>
         \A d \in Daemon : DiscoveryAlive(d) => daemon[d] \in {"up", "stopping"} /\ info[c] = d
    /\ \A c \in Cli : cli[c] = "spawning" => \A d \in Daemon : ~Serves(d)

(* Without kills daemon.json is true, and what a CLI has started is what it *)
(* connects to as long as that lives.                                       *)
FileIsTrue == ~killed /\ daemonFile \in Daemon => daemon[daemonFile] \in {"up", "stopping"}
OwnIsFound ==
  \A c \in Cli : own[c] \in Daemon =>
    /\ daemon[own[c]] # "unborn"
    /\ alone /\ ~killed /\ Serves(own[c]) =>
         /\ cli[c] = "connecting" => daemon[own[c]] = "up" /\ info[c] = own[c]
         /\ cli[c] = "failed" => c \in late

DiscoveryInv == DiscoveryTypeOK /\ OneLives /\ OneLooks /\ FileIsTrue /\ OwnIsFound

(* A daemon that goes on or ends, and no CLI that moves.                    *)
LEMMA DaemonMoves ==
  ASSUME DiscoveryInv, NEW d \in Daemon,
         NEW to \in {"listening", "writing", "up", "stopping", "stopped", "killed"},
         DiscoveryAlive(d), daemon' = [daemon EXCEPT ![d] = to],
         to \in {"listening", "writing"} => Serves(d) /\ daemon[d] # "up" /\ daemonFile' \in {daemonFile, Torn},
         to = "up" => Serves(d) /\ daemon[d] # "up" /\ daemonFile' = IF d \in unlinked THEN daemonFile ELSE d,
         to = "stopping" => daemon[d] = "up" /\ daemonFile' = daemonFile,
         to = "stopped" => daemonFile' = NoFile,
         to = "killed" => daemonFile' = daemonFile /\ killed',
         to # "killed" => killed' = killed,
         unlinked' = IF to = "stopped"
                     THEN unlinked \cup {e \in Daemon : daemon[e] = "writing"} ELSE unlinked,
         to = "stopped" => daemon[d] = "stopping",
         UNCHANGED <<cli, info, own, late, alone>>
  PROVE  DiscoveryInv'
<1> USE DEF DiscoveryInv
<1>1. /\ daemonFile' \in Daemon \cup {NoFile, Torn} /\ killed' \in BOOLEAN
      /\ unlinked' \subseteq Daemon
  BY DEF DiscoveryTypeOK
<1>2. \A e \in Daemon : daemon'[e] = IF e = d THEN to ELSE daemon[e]
  BY DEF DiscoveryTypeOK
<1>3. DiscoveryTypeOK'
  <2>1. daemon' \in [Daemon -> Coming \cup {"unborn", "up", "stopping", "stopped", "killed"}]
    BY DEF DiscoveryTypeOK, Coming
  <2> QED
    BY <1>1, <2>1 DEF DiscoveryTypeOK
<1>4. \A e \in Daemon : (DiscoveryAlive(e)' => DiscoveryAlive(e)) /\ (Serves(e)' => Serves(e))
  BY <1>2 DEF DiscoveryAlive, Serves, Coming
<1>5. OneLives'
  <2>1. alone => \A e \in Daemon : DiscoveryAlive(e) => e = d
    BY DEF OneLives
  <2>2. alone => unlinked' = {}
    <3>1. CASE to = "stopped"
      <4>1. alone => \A e \in Daemon : daemon[e] # "writing"
        BY <2>1, <3>1 DEF DiscoveryAlive, Serves, Coming
      <4> QED
        BY <3>1, <4>1 DEF OneLives
    <3>2. CASE to # "stopped"
      BY <3>2 DEF OneLives
    <3> QED
      BY <3>1, <3>2
  <2>3. ASSUME alone, NEW e \in Daemon, daemon'[e] \in {"up", "stopping"} PROVE daemonFile' = e
    <3>1. e = d
      BY <1>2, <2>1, <2>3 DEF DiscoveryAlive, Serves, Coming
    <3>2. to \in {"up", "stopping"}
      BY <1>2, <2>3, <3>1
    <3> QED
      BY <2>3, <3>1, <3>2 DEF OneLives
  <2> QED
    BY <1>4, <2>1, <2>2, <2>3 DEF OneLives
<1>6. OneLooks'
  <2>1. ASSUME NEW c \in Cli, cli[c] = "trying", alone, NEW e \in Daemon, DiscoveryAlive(e)'
        PROVE  daemon'[e] \in {"up", "stopping"} /\ info[c] = e
    BY <1>2, <1>4, <2>1 DEF OneLooks, DiscoveryAlive, Serves, Coming
  <2> QED
    BY <1>4, <2>1 DEF OneLooks
<1>7. FileIsTrue'
  BY <1>2, DaemonDiscoveryAssumption DEF FileIsTrue, DiscoveryAlive, Serves, Coming
<1>8. OwnIsFound'
  <2>1. ASSUME NEW c \in Cli, own[c] \in Daemon, alone, ~killed', Serves(own[c])',
               cli[c] = "connecting"
        PROVE  daemon'[own[c]] = "up" /\ info[c] = own[c]
    BY <1>2, <1>4, <2>1 DEF OwnIsFound, Serves, Coming
  <2> QED
    BY <1>2, <1>4, <2>1 DEF OwnIsFound
<1> QED
  BY <1>3, <1>5, <1>6, <1>7, <1>8

(* A CLI that moves, and no daemon.                                         *)
LEMMA CliMoves ==
  ASSUME DiscoveryInv, DiscoveryTypeOK', NEW c \in Cli, NEW to, NEW i, NEW o,
         UNCHANGED <<daemon, daemonFile, unlinked, killed>>,
         cli' = [cli EXCEPT ![c] = to], info' = [info EXCEPT ![c] = i],
         own' = [own EXCEPT ![c] = o],
         alone' => alone,
         \A b \in Cli \ {c} : b \in late' <=> b \in late,
         o \in Daemon => o = own[c],
         alone' /\ to \in Looking => \A b \in Cli : cli[b] \in Looking => b = c,
         alone' /\ to = "trying" =>
           \A d \in Daemon : DiscoveryAlive(d) => daemon[d] \in {"up", "stopping"} /\ i = d,
         alone' /\ to = "spawning" => \A d \in Daemon : ~Serves(d),
         alone' /\ ~killed /\ o \in Daemon /\ Serves(o) =>
           /\ to = "connecting" => daemon[o] = "up" /\ i = o
           /\ to = "failed" => c \in late'
  PROVE  DiscoveryInv'
<1> USE DEF DiscoveryInv
<1>1. \A b \in Cli : /\ cli'[b] = IF b = c THEN to ELSE cli[b]
                     /\ info'[b] = IF b = c THEN i ELSE info[b]
                     /\ own'[b] = IF b = c THEN o ELSE own[b]
  BY DEF DiscoveryTypeOK
<1>2. OneLives'
  BY DEF OneLives, DiscoveryAlive, Serves
<1>3. OneLooks'
  BY <1>1 DEF OneLooks, DiscoveryAlive, Serves
<1>4. FileIsTrue'
  BY DEF FileIsTrue
<1>5. OwnIsFound'
  BY <1>1 DEF OwnIsFound, Serves
<1> QED
  BY <1>2, <1>3, <1>4, <1>5

LEMMA DiscoveryInitially == DiscoveryInit => DiscoveryInv
<1> SUFFICES ASSUME DiscoveryInit PROVE DiscoveryInv
  OBVIOUS
<1>1. DiscoveryTypeOK
  BY DEF DiscoveryInit, DiscoveryTypeOK, Coming
<1>2. OneLives /\ OneLooks /\ FileIsTrue /\ OwnIsFound
  BY DaemonDiscoveryAssumption
     DEF DiscoveryInit, OneLives, OneLooks, FileIsTrue, OwnIsFound, DiscoveryAlive, Serves, Coming, Looking
<1> QED
  BY <1>1, <1>2 DEF DiscoveryInv

(* The steps of a daemon.                                                   *)
LEMMA DiscoveryDaemonStep ==
  ASSUME DiscoveryInv, NEW d \in Daemon,
         \/ Listen(d) \/ OpenFile(d) \/ FillFile(d)
         \/ StopServer(d) \/ RemoveDaemonFile(d) \/ KillDaemon(d)
  PROVE  DiscoveryInv'
<1>1. CASE Listen(d)
  BY <1>1, DaemonMoves DEF Listen, DiscoveryAlive, Serves, Coming
<1>2. CASE OpenFile(d)
  BY <1>2, DaemonMoves DEF OpenFile, DiscoveryAlive, Serves, Coming
<1>3. CASE FillFile(d)
  BY <1>3, DaemonMoves DEF FillFile, DiscoveryAlive, Serves, Coming
<1>4. CASE StopServer(d)
  BY <1>4, DaemonMoves DEF StopServer, DiscoveryAlive, Serves, Coming
<1>5. CASE RemoveDaemonFile(d)
  BY <1>5, DaemonMoves DEF RemoveDaemonFile, DiscoveryAlive
<1>6. CASE KillDaemon(d)
  BY <1>6, DaemonMoves DEF KillDaemon
<1> QED
  BY <1>1, <1>2, <1>3, <1>4, <1>5, <1>6

(* The steps of a CLI.                                                      *)
LEMMA DiscoveryCliStep ==
  ASSUME DiscoveryInv, NEW c \in Cli, StartCli(c) \/ CliStep(c) \/ QuitCli(c)
  PROVE  DiscoveryInv'
<1> USE DEF DiscoveryInv
<1>0. own = [own EXCEPT ![c] = own[c]] /\ info = [info EXCEPT ![c] = info[c]]
      /\ own[c] \in Daemon \cup {NoFile} /\ info[c] \in Daemon \cup {NoFile}
  BY DEF DiscoveryTypeOK
<1>f. ReadDaemonInfo \in Daemon \cup {NoFile}
      /\ (ReadDaemonInfo # NoFile => ReadDaemonInfo = daemonFile /\ daemonFile \in Daemon)
      /\ (ReadDaemonInfo = NoFile => daemonFile \notin Daemon)
  BY DaemonDiscoveryAssumption DEF ReadDaemonInfo
<1>1. CASE StartCli(c)
  <2>1. DiscoveryTypeOK'
    BY <1>1, <1>f DEF StartCli, DiscoveryTypeOK
  <2>2. ASSUME alone', NEW d \in Daemon, DiscoveryAlive(d)
        PROVE  daemon[d] \in {"up", "stopping"} /\ daemonFile = d
    BY <1>1, <2>2 DEF StartCli, DiscoveryAlive, Serves, OneLives
  <2>3. alone' => alone /\ \A b \in Cli : cli[b] \notin Looking
    <3>1. \A b \in Cli : cli[b] \notin {"trying", "spawning", "waiting", "connecting"}
                            <=> cli[b] \notin Looking
      BY DEF Looking
    <3>2. alone' => alone /\ \A b \in Cli :
                       cli[b] \notin {"trying", "spawning", "waiting", "connecting"}
      BY <1>1, Zenon DEF StartCli
    <3> QED
      BY <3>1, <3>2, Zenon
  <2>4. CASE ReadDaemonInfo = NoFile
    <3>1. /\ cli' = [cli EXCEPT ![c] = "spawning"] /\ info' = [info EXCEPT ![c] = NoFile]
          /\ UNCHANGED <<daemon, daemonFile, own, late, unlinked, killed>>
      BY <1>1, <2>4 DEF StartCli
    <3>2. alone' => \A d \in Daemon : ~DiscoveryAlive(d)
      BY <1>f, <2>2, <2>4
    <3>3. alone' => \A d \in Daemon : ~Serves(d)
      BY <3>2 DEF DiscoveryAlive
    <3> QED
      BY <1>0, <2>1, <2>3, <3>1, <3>3, CliMoves
  <2>5. CASE ReadDaemonInfo # NoFile
    <3>1. /\ cli' = [cli EXCEPT ![c] = "trying"] /\ info' = [info EXCEPT ![c] = daemonFile]
          /\ UNCHANGED <<daemon, daemonFile, own, late, unlinked, killed>>
      BY <1>1, <1>f, <2>5 DEF StartCli
    <3> QED
      BY <1>0, <2>1, <2>2, <2>3, <3>1, CliMoves
  <2> QED
    BY <2>4, <2>5
<1>2. CASE TryExisting(c)
  <2>1. DiscoveryTypeOK'
    BY <1>2 DEF TryExisting, DiscoveryTypeOK
  <2>2. alone => \A b \in Cli : cli[b] \in Looking => b = c
    BY <1>2 DEF TryExisting, OneLooks, Looking
  <2>3. alone /\ ~Accepts(info[c]) => \A d \in Daemon : ~Serves(d)
    BY <1>2 DEF TryExisting, OneLooks, Accepts, DiscoveryAlive, Serves, Coming
  <2>4. PICK to \in {"connected", "spawning"} :
          /\ cli' = [cli EXCEPT ![c] = to] /\ (to = "spawning" => ~Accepts(info[c]))
          /\ UNCHANGED <<daemon, daemonFile, info, own, late, unlinked, alone, killed>>
    BY <1>2 DEF TryExisting
  <2> QED
    BY <1>0, <2>1, <2>2, <2>3, <2>4, CliMoves
<1>3. CASE FindDaemon(c)
  <2>1. DiscoveryTypeOK'
    BY <1>3, <1>f DEF FindDaemon, DiscoveryTypeOK
  <2>2. alone => \A b \in Cli : cli[b] \in Looking => b = c
    BY <1>3 DEF FindDaemon, OneLooks, Looking
  <2>3. ASSUME alone, ~killed, own[c] \in Daemon, Serves(own[c])
        PROVE  daemon[own[c]] = "up" /\ ReadDaemonInfo = own[c]
    BY <1>3, <1>f, <2>3 DEF FindDaemon, FileIsTrue, OneLives, DiscoveryAlive, Serves, Coming
  <2> QED
    BY <1>0, <1>3, <2>1, <2>2, <2>3, CliMoves DEF FindDaemon
<1>4. CASE WaitTimesOut(c)
  <2>1. DiscoveryTypeOK'
    BY <1>4 DEF WaitTimesOut, DiscoveryTypeOK
  <2> QED
    BY <1>0, <1>4, <2>1, CliMoves DEF WaitTimesOut, Looking
<1>5. CASE ConnectCli(c)
  <2>1. DiscoveryTypeOK'
    BY <1>5 DEF ConnectCli, DiscoveryTypeOK
  <2>2. alone /\ ~killed /\ own[c] \in Daemon /\ Serves(own[c]) => Accepts(info[c])
    BY <1>5 DEF ConnectCli, OwnIsFound, Accepts
  <2>3. PICK to \in {"connected", "failed"} :
          /\ cli' = [cli EXCEPT ![c] = to] /\ (to = "failed" => ~Accepts(info[c]))
          /\ UNCHANGED <<daemon, daemonFile, info, own, late, unlinked, alone, killed>>
    BY <1>5 DEF ConnectCli
  <2> QED
    BY <1>0, <2>1, <2>2, <2>3, CliMoves DEF Looking
<1>6. ASSUME NEW d \in Daemon, SpawnDaemon(c, d) PROVE DiscoveryInv'
  <2>1. DiscoveryTypeOK'
    BY <1>6 DEF SpawnDaemon, DiscoveryTypeOK, Coming
  <2>2. /\ \A e \in Daemon : daemon'[e] = IF e = d THEN "starting" ELSE daemon[e]
        /\ \A b \in Cli : /\ cli'[b] = IF b = c THEN "waiting" ELSE cli[b]
                          /\ own'[b] = IF b = c THEN d ELSE own[b]
    BY <1>6 DEF SpawnDaemon, DiscoveryTypeOK
  <2>3. UNCHANGED <<daemonFile, info, late, unlinked, killed>> /\ cli[c] = "spawning"
        /\ daemon[d] = "unborn" /\ (alone' => alone)
        /\ (alone' => \A e \in Daemon : daemon[e] # "stopping")
    BY <1>6 DEF SpawnDaemon
  <2>4. alone' => /\ \A e \in Daemon : ~DiscoveryAlive(e)
                  /\ \A b \in Cli : cli[b] \in Looking => b = c
    BY <2>3 DEF OneLooks, Looking, DiscoveryAlive
  <2>5. OneLives'
    BY <2>2, <2>3, <2>4 DEF OneLives, DiscoveryAlive, Serves, Coming
  <2>6. OneLooks'
    BY <2>2, <2>3, <2>4 DEF OneLooks, Looking, DiscoveryAlive, Serves, Coming
  <2>7. FileIsTrue'
    BY <2>2, <2>3 DEF FileIsTrue
  <2>8. OwnIsFound'
    BY <2>2, <2>3, DaemonDiscoveryAssumption DEF OwnIsFound, DiscoveryAlive, Serves, Coming
  <2> QED
    BY <2>1, <2>5, <2>6, <2>7, <2>8
<1>7. CASE QuitCli(c)
  <2>1. DiscoveryTypeOK'
    BY <1>7 DEF QuitCli, DiscoveryTypeOK
  <2> QED
    BY <1>0, <1>7, <2>1, CliMoves, DaemonDiscoveryAssumption DEF QuitCli, Looking
<1> QED
  BY <1>1, <1>2, <1>3, <1>4, <1>5, <1>6, <1>7 DEF CliStep

LEMMA DiscoveryStep == DiscoveryInv /\ [DiscoveryNext]_discoveryVars => DiscoveryInv'
<1> SUFFICES ASSUME DiscoveryInv, [DiscoveryNext]_discoveryVars PROVE DiscoveryInv'
  OBVIOUS
<1>1. CASE UNCHANGED discoveryVars
  BY <1>1 DEF discoveryVars, DiscoveryInv, DiscoveryTypeOK, OneLives, OneLooks, FileIsTrue,
              OwnIsFound, DiscoveryAlive, Serves
<1> QED
  BY <1>1, DiscoveryDaemonStep, DiscoveryCliStep DEF DiscoveryNext

-----------------------------------------------------------------------------
(* CLIs that look for a daemon one after the other find or start the one    *)
(* daemon that lives, daemon.json names it when it is up, and none of them  *)
(* gives up on a daemon of its own that lives (index.tsx:61, main.ts:20).   *)
THEOREM OneDaemonIsFound == DiscoverySpec => []CalmDiscovery
<1>1. ASSUME DiscoveryInv PROVE CalmDaemonIsTheOne
  <2>1. SUFFICES ASSUME alone PROVE Cardinality({d \in Daemon : DiscoveryAlive(d)}) <= 1
    BY <1>1 DEF DiscoveryInv, OneLives, CalmDaemonIsTheOne
  <2> DEFINE L == {d \in Daemon : DiscoveryAlive(d)}
  <2>2. CASE L = {}
    BY <2>2, FS_EmptySet
  <2>3. CASE L # {}
    <3>1. PICK d \in L : L = {d}
      BY <1>1, <2>1, <2>3 DEF DiscoveryInv, OneLives
    <3> QED
      BY <3>1, FS_Singleton
  <2> QED
    BY <2>2, <2>3
<1>2. DiscoveryInv => CalmCliConnects
  BY DEF DiscoveryInv, OwnIsFound, CalmCliConnects, GivesUpOnALiveDaemon
<1>3. DiscoveryInv => CalmDiscovery
  BY <1>1, <1>2 DEF CalmDiscovery
<1> QED
  BY <1>3, DiscoveryInitially, DiscoveryStep, PTL DEF DiscoverySpec

(* ------------------------- the files of the tools ------------------------ *)

(* A call that reads is one of the calls made; one that decides is an    *)
(* fs.write or an fs.edit; one that goes on to write is an fs.write, or an  *)
(* fs.edit that has found its text once; and one that writes has made sure  *)
(* that there is a file.                                                    *)
WritesEarned ==
  \A e \in Editor :
    /\ edit[e] = "reading" => op[e] \in FileOp
    /\ edit[e] = "deciding" => op[e].kind \in {"write", "edit"}
    /\ edit[e] \in {"cutting", "filling"} =>
         op[e].kind = "write" \/ (op[e].kind = "edit" /\ Findable(before[e], op[e].find))
    /\ edit[e] = "filling" => disk # Missing

(* One call at a time works on what the calls before it have left.          *)
CallsTakeTurns ==
  ~disturbed =>
    /\ \A d, e \in Under : d = e
    /\ (\A e \in Editor : edit[e] # "filling") => disk = intended
    /\ \A e \in Editor :
         edit[e] \in {"deciding", "cutting", "filling"} /\ op[e].kind = "edit" => before[e] = intended
    /\ \A e \in Editor : edit[e] = "filling" => disk = Empty
    /\ \A e \in Editor :
         edit[e] = "ok" /\ op[e].kind = "read" => before[e] # Empty \/ broken

FileInv == FileTypeOK /\ WritesEarned /\ CallsTakeTurns /\ CutsAreTold

(* Text that is found is found in a file that is there.                     *)
LEMMA FoundInContent ==
  ASSUME NEW content \in Content \cup {Empty, Missing}, NEW token, Findable(content, token)
  PROVE  content \in Content
BY FS_EmptySet DEF Findable, Occurrences

(* What a call makes of a content is a content, or the same as before.      *)
LEMMA WrittenContent ==
  ASSUME FileTypeOK, NEW e \in Editor, op[e].kind \in {"write", "edit"},
         NEW content \in Content \cup {Empty, Missing}, NEW r \in Token
  PROVE  /\ After(e, content, r) \in Content \cup {content}
         /\ op[e].kind = "write" \/ Findable(content, op[e].find) => After(e, content, r) \in Content
<1>1. op[e] \in FileOp \cup {Idle}
  BY DEF FileTypeOK
<1>2. op[e] \in Ops
  BY <1>1, FileEditsAssumption DEF Idle
<1>3. CASE op[e].kind = "write"
  BY <1>2, <1>3 DEF After, Ops
<1>4. CASE op[e].kind = "edit" /\ Findable(content, op[e].find)
  <2>1. content \in [Place -> Token]
    BY <1>4, FoundInContent DEF Content
  <2>2. Replaced(content, op[e].find, r) \in Content
    BY <2>1 DEF Replaced, Content
  <2> QED
    BY <1>4, <2>2 DEF After
<1>5. CASE op[e].kind = "edit" /\ ~Findable(content, op[e].find)
  BY <1>5 DEF After
<1> QED
  BY <1>3, <1>4, <1>5

LEMMA FileInitially == FileInit => FileInv
<1> SUFFICES ASSUME FileInit PROVE FileInv
  OBVIOUS
<1>1. FileTypeOK
  BY DEF FileInit, FileTypeOK
<1>2. WritesEarned /\ CallsTakeTurns /\ CutsAreTold
  BY FileEditsAssumption DEF FileInit, WritesEarned, CallsTakeTurns, CutsAreTold, Under
<1> QED
  BY <1>1, <1>2 DEF FileInv

(* A call that moves on without touching the file: it may only come to hold *)
(* what it has read of it.                                                  *)
LEMMA CallMoves ==
  ASSUME FileInv, NEW e \in Editor, FileTypeOK', UNCHANGED <<disk, broken>>,
         \A d \in Editor \ {e} : edit'[d] = edit[d] /\ before'[d] = before[d] /\ op'[d] = op[d],
         edit[e] # "filling", edit'[e] # "filling",
         edit'[e] = "reading" => op'[e] \in FileOp,
         edit'[e] = "deciding" => op'[e].kind \in {"write", "edit"},
         edit'[e] = "cutting" =>
           op'[e].kind = "write" \/ (op'[e].kind = "edit" /\ Findable(before'[e], op'[e].find)),
         ~disturbed' =>
           /\ \/ ~disturbed /\ intended' = intended
              \/ (\A d \in Editor : edit[d] = "idle") /\ intended' = disk
           /\ e \in Under' => Under \subseteq {e}
           /\ edit'[e] \in {"deciding", "cutting"} /\ op'[e].kind = "edit" => before'[e] = intended'
           /\ edit'[e] = "ok" /\ op'[e].kind = "read" => before'[e] # Empty \/ broken
  PROVE  FileInv'
<1> USE DEF FileInv
<1>2. WritesEarned'
  BY DEF WritesEarned
<1>3. CutsAreTold'
  BY DEF CutsAreTold
<1>4. CASE ~disturbed' /\ ~disturbed /\ intended' = intended
  <2>1. \A d, c \in Under' : d = c
    BY <1>4 DEF CallsTakeTurns, Under
  <2>2. CallsTakeTurns'
    BY <1>4, <2>1 DEF CallsTakeTurns
  <2> QED
    BY <1>2, <1>3, <2>2
<1>5. CASE ~disturbed' /\ (\A d \in Editor : edit[d] = "idle") /\ intended' = disk
  <2>1. \A d \in Editor \ {e} : edit'[d] = "idle"
    BY <1>5
  <2>2. CallsTakeTurns'
    BY <1>5, <2>1 DEF CallsTakeTurns, Under
  <2> QED
    BY <1>2, <1>3, <2>2
<1>6. CASE disturbed'
  BY <1>2, <1>3, <1>6 DEF CallsTakeTurns
<1> QED
  BY <1>4, <1>5, <1>6

(* A write is done: the disk has what the call intended.                    *)
LEMMA FillStep ==
  ASSUME FileInv, NEW e \in Editor, FillEdited(e)
  PROVE  FileInv'
<1> USE DEF FileInv
<1> DEFINE put == IF op[e].kind = "edit" THEN op[e].replace ELSE Pattern
<1>1. /\ edit[e] = "filling" /\ edit' = [edit EXCEPT ![e] = "ok"]
      /\ disk' \in Written(After(e, before[e], Inserted(put)))
      /\ intended' = After(e, intended, put)
      /\ disturbed' = (disturbed \/ (op[e].kind = "edit" /\ Inserted(put) # put))
      /\ UNCHANGED <<before, op, broken>>
  BY DEF FillEdited, Sets
<1>2. op[e].kind = "write" \/ (op[e].kind = "edit" /\ Findable(before[e], op[e].find))
  BY <1>1 DEF WritesEarned
<1>3. put \in Token /\ Inserted(put) \in Token
  <2>1. op[e] \in FileOp
    BY <1>2 DEF FileTypeOK, Idle
  <2>2. op[e] \in Ops
    BY <2>1, FileEditsAssumption
  <2>3. put \in Token
    BY <2>2, FileEditsAssumption DEF Ops
  <2> QED
    BY <2>3, FileEditsAssumption DEF Inserted
<1> HIDE DEF put
<1>4. disk' \in Content /\ (disk = Empty => disk' = After(e, before[e], Inserted(put)))
  <2>1. After(e, before[e], Inserted(put)) \in Content
    BY <1>2, <1>3, WrittenContent DEF FileTypeOK
  <2> QED
    BY <1>1, <2>1 DEF Written
<1>5. intended' \in Content \cup {intended}
  BY <1>1, <1>2, <1>3, WrittenContent DEF FileTypeOK
<1>6. FileTypeOK'
  <2>1. disturbed' \in BOOLEAN
    BY <1>1
  <2> QED
    BY <1>1, <1>4, <1>5, <2>1 DEF FileTypeOK
<1>7. \A d \in Editor : edit'[d] = IF d = e THEN "ok" ELSE edit[d]
  BY <1>1 DEF FileTypeOK
<1>8. WritesEarned'
  BY <1>1, <1>4, <1>7, FileEditsAssumption DEF WritesEarned, Findable, Occurrences
<1>9. CallsTakeTurns'
  <2>1. SUFFICES ASSUME ~disturbed' PROVE CallsTakeTurns'
    BY DEF CallsTakeTurns
  <2>2. ~disturbed /\ (op[e].kind = "edit" => Inserted(put) = put)
    BY <1>1, <2>1
  <2>3. \A d \in Editor : d # e => d \notin Under
    BY <1>1, <2>2 DEF CallsTakeTurns, Under
  <2>4. disk' = intended'
    <3>0. disk' = After(e, before[e], Inserted(put))
      BY <1>1, <1>4, <2>2 DEF CallsTakeTurns
    <3>1. CASE op[e].kind = "write"
      BY <1>1, <3>0, <3>1 DEF After
    <3>2. CASE op[e].kind = "edit"
      <4>1. before[e] = intended
        BY <1>1, <2>2, <3>2 DEF CallsTakeTurns
      <4> QED
        BY <1>1, <2>2, <3>0, <3>2, <4>1
    <3> QED
      BY <1>2, <3>1, <3>2
  <2>5. \A d \in Editor : d \notin Under'
    BY <1>7, <2>3 DEF Under
  <2>6. \A d \in Editor : edit'[d] \notin {"deciding", "cutting", "filling"}
    BY <2>5 DEF Under
  <2>7. \A d \in Editor : edit'[d] = "ok" /\ op'[d].kind = "read" => before'[d] # Empty \/ broken'
    BY <1>1, <1>2, <1>7, <2>2 DEF CallsTakeTurns
  <2>8. Under' = {}
    BY <2>5 DEF Under
  <2> QED
    BY <2>4, <2>6, <2>7, <2>8 DEF CallsTakeTurns
<1>10. CutsAreTold'
  BY <1>4, FileEditsAssumption DEF CutsAreTold
<1> QED
  BY <1>6, <1>8, <1>9, <1>10

(* A write that breaks off leaves the file cut.                             *)
LEMMA BreakStep ==
  ASSUME FileInv, NEW e \in Editor, FillBreaks(e)
  PROVE  FileInv'
<1> USE DEF FileInv
<1>1. /\ edit[e] = "filling" /\ edit' = [edit EXCEPT ![e] = "error"]
      /\ intended' = Empty /\ broken' = TRUE
      /\ UNCHANGED <<disk, before, op, disturbed>>
  BY DEF FillBreaks, Sets
<1>2. FileTypeOK' /\ CutsAreTold'
  BY <1>1 DEF FileTypeOK, CutsAreTold
<1>3. \A d \in Editor : edit'[d] = IF d = e THEN "error" ELSE edit[d]
  BY <1>1 DEF FileTypeOK
<1>4. WritesEarned'
  BY <1>1, <1>3 DEF WritesEarned, Findable, Occurrences
<1>5. CallsTakeTurns'
  <2>1. SUFFICES ASSUME ~disturbed PROVE CallsTakeTurns'
    BY <1>1 DEF CallsTakeTurns
  <2>2. disk = Empty /\ \A d \in Editor : d # e => d \notin Under
    BY <1>1, <2>1 DEF CallsTakeTurns, Under
  <2>3. \A d \in Editor : d \notin Under'
    BY <1>3, <2>2 DEF Under
  <2>4. \A d \in Editor : edit'[d] \notin {"deciding", "cutting", "filling"}
    BY <2>3 DEF Under
  <2>5. Under' = {}
    BY <2>3 DEF Under
  <2> QED
    BY <1>1, <2>2, <2>4, <2>5 DEF CallsTakeTurns
<1> QED
  BY <1>2, <1>4, <1>5

(* The steps of a call before it writes.                                    *)
LEMMA EditorStep ==
  ASSUME FileInv, NEW e \in Editor,
         \/ BeginFileCall(e) \/ ReadBefore(e) \/ DecideEdit(e)
         \/ OpenFails(e) \/ CutFile(e) \/ EndFileCall(e)
  PROVE  FileInv'
<1> USE DEF FileInv
<1>1. CASE BeginFileCall(e)
  <2>1. PICK o \in FileOp, s \in {"reading", "error"} :
          /\ edit' = [edit EXCEPT ![e] = s] /\ op' = [op EXCEPT ![e] = o]
          /\ UNCHANGED <<disk, before, broken>>
    BY <1>1 DEF BeginFileCall, Sets
  <2>2. /\ edit[e] = "idle"
        /\ IF \A d \in Editor : edit[d] = "idle"
           THEN disturbed' = FALSE /\ intended' = disk
           ELSE disturbed' = (disturbed \/ Under # {}) /\ intended' = intended
    BY <1>1 DEF BeginFileCall
  <2>3. /\ disturbed' \in BOOLEAN /\ intended' \in Content \cup {Empty, Missing}
        /\ ~disturbed' => /\ \/ ~disturbed /\ intended' = intended
                             \/ (\A d \in Editor : edit[d] = "idle") /\ intended' = disk
                          /\ Under = {}
    <3>1. CASE \A d \in Editor : edit[d] = "idle"
      <4>1. Under = {}
        BY <3>1 DEF Under
      <4> QED
        BY <2>2, <3>1, <4>1 DEF FileTypeOK
    <3>2. CASE ~\A d \in Editor : edit[d] = "idle"
      <4>1. disturbed' = (disturbed \/ Under # {}) /\ intended' = intended
        BY <2>2, <3>2
      <4>2. disturbed' \in BOOLEAN /\ (~disturbed' => ~disturbed /\ Under = {})
        BY <4>1, Zenon
      <4> QED
        BY <4>1, <4>2 DEF FileTypeOK
    <3> QED
      BY <3>1, <3>2
  <2>4. FileTypeOK'
    BY <2>1, <2>3 DEF FileTypeOK
  <2>5. \A d \in Editor : /\ edit'[d] = IF d = e THEN s ELSE edit[d]
                          /\ op'[d] = IF d = e THEN o ELSE op[d]
    BY <2>1 DEF FileTypeOK
  <2> QED
    BY <2>1, <2>2, <2>3, <2>4, <2>5, CallMoves
<1>2. CASE ReadBefore(e)
  <2>1. edit[e] = "reading" /\ UNCHANGED <<disk, op, intended, disturbed, broken>>
    BY <1>2 DEF ReadBefore
  <2>10. PICK unreadable \in {TRUE, disk = Missing} :
          /\ before' = [before EXCEPT ![e] = IF unreadable /\ disk # Missing THEN Empty ELSE ReadFile]
          /\ Sets(e, CASE op[e].kind = "write" -> "deciding"
                       [] op[e].kind # "write" /\ unreadable -> "error"
                       [] op[e].kind = "read" /\ ~unreadable -> "ok"
                       [] OTHER -> "deciding")
    BY <1>2 DEF ReadBefore
  <2> DEFINE found == IF unreadable /\ disk # Missing THEN Empty ELSE ReadFile
  <2>2. PICK s \in {"deciding", "error", "ok"} :
          /\ edit' = [edit EXCEPT ![e] = s]
          /\ s = "deciding" => op[e].kind # "read" /\ (op[e].kind # "write" => found = disk)
          /\ s = "ok" => found = disk
    <3>0. ReadFile = disk \/ disk = Missing
      BY DEF ReadFile
    <3>1. CASE op[e].kind = "write"
      BY <2>10, <3>1 DEF Sets
    <3>2. CASE op[e].kind # "write" /\ unreadable
      BY <2>10, <3>2 DEF Sets
    <3>3. CASE op[e].kind = "read" /\ ~unreadable
      BY <2>10, <3>0, <3>3 DEF Sets
    <3>4. CASE op[e].kind \notin {"write", "read"} /\ ~unreadable
      BY <2>10, <3>0, <3>4 DEF Sets
    <3> QED
      BY <3>1, <3>2, <3>3, <3>4
  <2>3. op[e] \in Ops
    BY <2>1, FileEditsAssumption DEF WritesEarned
  <2>4. found \in Content \cup {Empty}
    BY DEF ReadFile, FileTypeOK
  <2>11. before' = [before EXCEPT ![e] = found]
    BY <2>10
  <2> HIDE DEF found
  <2>5. FileTypeOK'
    BY <2>1, <2>2, <2>4, <2>11 DEF FileTypeOK
  <2>6. \A d \in Editor : /\ edit'[d] = IF d = e THEN s ELSE edit[d]
                          /\ before'[d] = IF d = e THEN found ELSE before[d]
    BY <2>2, <2>11 DEF FileTypeOK
  <2>7. ~disturbed => Under \subseteq {e}
    BY <2>1 DEF CallsTakeTurns, Under
  <2>8. ~disturbed => disk = intended /\ (disk # Empty \/ broken)
    BY <2>1, <2>7 DEF CallsTakeTurns, CutsAreTold, Under
  <2>9. s = "deciding" => op[e].kind \in {"write", "edit"}
    BY <2>2, <2>3 DEF Ops
  <2> QED
    BY <2>1, <2>2, <2>5, <2>6, <2>7, <2>8, <2>9, CallMoves
<1>3. CASE DecideEdit(e)
  <2>1. edit[e] = "deciding" /\ UNCHANGED <<disk, before, op, intended, disturbed, broken>>
    BY <1>3 DEF DecideEdit
  <2>2. PICK s \in {"cutting", "error"} :
          /\ edit' = [edit EXCEPT ![e] = s]
          /\ s = "cutting" => op[e].kind = "write" \/ Findable(before[e], op[e].find)
    BY <1>3 DEF DecideEdit, Sets
  <2>3. FileTypeOK'
    BY <2>1, <2>2 DEF FileTypeOK
  <2>4. \A d \in Editor : edit'[d] = IF d = e THEN s ELSE edit[d]
    BY <2>2 DEF FileTypeOK
  <2>5. ~disturbed => Under \subseteq {e}
    BY <2>1 DEF CallsTakeTurns, Under
  <2>6. op[e].kind \in {"write", "edit"} /\ (~disturbed /\ op[e].kind = "edit" => before[e] = intended)
    BY <2>1 DEF WritesEarned, CallsTakeTurns
  <2> QED
    BY <2>1, <2>2, <2>3, <2>4, <2>5, <2>6, CallMoves
<1>4. CASE CutFile(e)
  <2>1. /\ edit[e] = "cutting" /\ edit' = [edit EXCEPT ![e] = "filling"] /\ disk' = Empty
        /\ UNCHANGED <<before, op, intended, disturbed, broken>>
    BY <1>4 DEF CutFile, Sets
  <2>2. FileTypeOK'
    BY <2>1 DEF FileTypeOK
  <2>3. \A d \in Editor : edit'[d] = IF d = e THEN "filling" ELSE edit[d]
    BY <2>1 DEF FileTypeOK
  <2>4. WritesEarned'
    BY <2>1, <2>3, FileEditsAssumption DEF WritesEarned, Findable, Occurrences
  <2>5. Under' = Under
    BY <2>1, <2>3 DEF Under
  <2>6. CallsTakeTurns'
    BY <2>1, <2>3, <2>5 DEF CallsTakeTurns
  <2>7. CutsAreTold'
    BY <2>3 DEF CutsAreTold
  <2> QED
    BY <2>2, <2>4, <2>6, <2>7
<1>6. CASE OpenFails(e)
  <2>1. /\ edit[e] = "cutting" /\ edit' = [edit EXCEPT ![e] = "error"]
        /\ UNCHANGED <<disk, before, op, intended, disturbed, broken>>
    BY <1>6 DEF OpenFails, Sets
  <2>2. FileTypeOK'
    BY <2>1 DEF FileTypeOK
  <2>3. \A d \in Editor : edit'[d] = IF d = e THEN "error" ELSE edit[d]
    BY <2>1 DEF FileTypeOK
  <2>4. e \notin Under'
    BY <2>3 DEF Under
  <2> QED
    BY <2>1, <2>2, <2>3, <2>4, CallMoves
<1>5. CASE EndFileCall(e)
  <2>1. /\ edit[e] \in {"ok", "error"} /\ edit' = [edit EXCEPT ![e] = "idle"]
        /\ op' = [op EXCEPT ![e] = Idle] /\ before' = [before EXCEPT ![e] = Empty]
        /\ UNCHANGED <<disk, intended, disturbed, broken>>
    BY <1>5 DEF EndFileCall, Sets
  <2>2. FileTypeOK'
    BY <2>1 DEF FileTypeOK
  <2>3. \A d \in Editor : /\ edit'[d] = IF d = e THEN "idle" ELSE edit[d]
                          /\ op'[d] = IF d = e THEN Idle ELSE op[d]
                          /\ before'[d] = IF d = e THEN Empty ELSE before[d]
    BY <2>1 DEF FileTypeOK
  <2>4. e \notin Under'
    BY <2>3 DEF Under
  <2> QED
    BY <2>1, <2>2, <2>3, <2>4, CallMoves
<1> QED
  BY <1>1, <1>2, <1>3, <1>4, <1>5, <1>6

LEMMA FileStep == FileInv /\ [FileNext]_fileVars => FileInv'
<1> SUFFICES ASSUME FileInv, [FileNext]_fileVars PROVE FileInv'
  OBVIOUS
<1>1. CASE EditorsDie
  <2>1. /\ disturbed' = TRUE /\ edit' = [e \in Editor |-> "idle"] /\ op' = [e \in Editor |-> Idle]
        /\ before' = [e \in Editor |-> Empty] /\ UNCHANGED <<disk, intended>>
        /\ broken' = (broken \/ \E e \in Editor : edit[e] = "filling")
    BY <1>1 DEF EditorsDie
  <2>2. broken' \in BOOLEAN /\ (broken \/ (\E e \in Editor : edit[e] = "filling") => broken')
    BY <2>1, Zenon
  <2> QED
    BY <2>1, <2>2 DEF FileInv, FileTypeOK, WritesEarned, CallsTakeTurns, CutsAreTold
<1>2. CASE UNCHANGED fileVars
  BY <1>2 DEF fileVars, FileInv, FileTypeOK, WritesEarned, CallsTakeTurns, CutsAreTold, Under, Findable, Occurrences
<1> QED
  BY <1>1, <1>2, EditorStep, FillStep, BreakStep DEF FileNext

-----------------------------------------------------------------------------
(* Calls on one file that do not overlap leave exactly what they reported,  *)
(* whatever happened before: an error has changed nothing, or its write     *)
(* broke off and the file is cut; and whatever overlaps, no file is cut for *)
(* another reason while nobody writes it (fs.ts:102, fs.ts:149).            *)
THEOREM EditsAreExact == FileSpec => []EditsAreTold
<1>1. FileInv => EditsAreTold
  BY DEF FileInv, CallsTakeTurns, SerialEditsAreExact, EditsAreTold
<1> QED
  BY <1>1, FileInitially, FileStep, PTL DEF FileSpec

(* ------------------------- the cache of web.fetch ------------------------ *)

(* A file that can be parsed holds a record of its URL's server. *)
CacheIsServed ==
  \A u \in Url : cache[u] \notin {NoRecord, CutRecord}
                   => [url |-> u, record |-> cache[u]] \in served

(* So does a call that is about to write one. *)
GotIsServed ==
  \A f \in Fetch : fetch[f] \in {"saving", "filling"} =>
    got[f] \in Record /\ [url |-> url[f], record |-> got[f]] \in served

WebInv == WebTypeOK /\ CacheIsServed /\ GotIsServed /\ AnswersAreTheServers

LEMMA WebInitially == WebInit => WebInv
BY DEF WebInit, WebInv, WebTypeOK, NoAnswer, CacheIsServed, GotIsServed, AnswersAreTheServers

LEMMA WebStep == WebInv /\ [WebNext]_webVars => WebInv'
<1> SUFFICES ASSUME WebInv, [WebNext]_webVars PROVE WebInv'
  OBVIOUS
<1> USE DEF WebInv
<1>1. CASE FetchersDie
  BY <1>1 DEF FetchersDie, WebTypeOK, NoAnswer, CacheIsServed, GotIsServed, AnswersAreTheServers
<1>2. ASSUME NEW f \in Fetch, BeginFetch(f) PROVE WebInv'
  BY <1>2 DEF BeginFetch, Step, WebTypeOK, NoAnswer, CacheIsServed, GotIsServed,
              AnswersAreTheServers
<1>3. ASSUME NEW f \in Fetch, LookUp(f) PROVE WebInv'
  <2>1. CASE cache[url[f]] \in {NoRecord, CutRecord}
    BY <1>3, <2>1 DEF LookUp, Step, WebTypeOK, CacheIsServed, GotIsServed,
                      AnswersAreTheServers
  <2>2. CASE cache[url[f]] \notin {NoRecord, CutRecord}
    <3>1. /\ fetch' = [fetch EXCEPT ![f] = "ended"]
          /\ answer' = [answer EXCEPT ![f] =
                          [ok |-> TRUE, record |-> cache[url[f]], fromCache |-> TRUE]]
          /\ UNCHANGED <<cache, url, got, served>>
      BY <1>3, <2>2 DEF LookUp, Step
    <3>2. url[f] \in Url /\ cache[url[f]] \in Record
      BY <2>2 DEF WebTypeOK
    <3>3. WebTypeOK'
      BY <3>1, <3>2 DEF WebTypeOK
    <3>4. CacheIsServed' /\ GotIsServed'
      BY <3>1 DEF CacheIsServed, GotIsServed, WebTypeOK
    <3>5. [url |-> url[f], record |-> cache[url[f]]] \in served
      BY <2>2, <3>2 DEF CacheIsServed
    <3>6. AnswersAreTheServers'
      BY <3>1, <3>5 DEF AnswersAreTheServers, WebTypeOK
    <3> QED
      BY <3>3, <3>4, <3>6
  <2> QED
    BY <2>1, <2>2
<1>4. ASSUME NEW f \in Fetch, ServerAnswers(f) PROVE WebInv'
  <2>1. PICK r \in Record :
          /\ fetch' = [fetch EXCEPT ![f] = "saving"] /\ got' = [got EXCEPT ![f] = r]
          /\ served' = served \cup {[url |-> url[f], record |-> r]}
          /\ UNCHANGED <<cache, url, answer>>
    BY <1>4 DEF ServerAnswers, Step
  <2>2. WebTypeOK'
    BY <2>1 DEF WebTypeOK
  <2>3. CacheIsServed' /\ GotIsServed' /\ AnswersAreTheServers'
    BY <2>1 DEF CacheIsServed, GotIsServed, AnswersAreTheServers, WebTypeOK
  <2> QED
    BY <2>2, <2>3
<1>5. ASSUME NEW f \in Fetch, OpenCache(f) PROVE WebInv'
  BY <1>5 DEF OpenCache, Step, WebTypeOK, CacheIsServed, GotIsServed, AnswersAreTheServers
<1>6. ASSUME NEW f \in Fetch, FillCache(f) PROVE WebInv'
  <2>1. /\ fetch[f] = "filling" /\ fetch' = [fetch EXCEPT ![f] = "ended"]
        /\ cache' = [cache EXCEPT ![url[f]] = got[f]]
        /\ answer' = [answer EXCEPT ![f] =
             [ok |-> got[f].status = "200", record |-> got[f], fromCache |-> FALSE]]
        /\ UNCHANGED <<url, got, served>>
    BY <1>6 DEF FillCache, Step
  <2>2. url[f] \in Url /\ got[f] \in Record
        /\ [url |-> url[f], record |-> got[f]] \in served
    BY <2>1 DEF GotIsServed, WebTypeOK
  <2>3. WebTypeOK'
    BY <2>1, <2>2 DEF WebTypeOK
  <2>4. CacheIsServed' /\ GotIsServed'
    BY <2>1, <2>2 DEF CacheIsServed, GotIsServed, WebTypeOK
  <2>5. AnswersAreTheServers'
    BY <2>1, <2>2 DEF AnswersAreTheServers, WebTypeOK
  <2> QED
    BY <2>3, <2>4, <2>5
<1>7. ASSUME NEW f \in Fetch, FetchThrows(f) PROVE WebInv'
  BY <1>7 DEF FetchThrows, Step, WebTypeOK, NoAnswer, CacheIsServed, GotIsServed,
              AnswersAreTheServers
<1>8. ASSUME NEW f \in Fetch, NextFetch(f) PROVE WebInv'
  BY <1>8 DEF NextFetch, Step, WebTypeOK, NoAnswer, CacheIsServed, GotIsServed,
              AnswersAreTheServers
<1>9. CASE UNCHANGED webVars
  BY <1>9 DEF webVars, WebTypeOK, CacheIsServed, GotIsServed, AnswersAreTheServers
<1> QED
  BY <1>1, <1>2, <1>3, <1>4, <1>5, <1>6, <1>7, <1>8, <1>9 DEF WebNext

(* An answer of web.fetch that is ok was sent, whole, by the server of that *)
(* URL, whatever calls overlap on its file and wherever a crash cuts one    *)
(* (web.ts:88).                                                             *)
THEOREM FetchedIsServed == WebSpec => []AnswersAreTheServers
<1>1. WebInv => AnswersAreTheServers
  BY DEF WebInv
<1> QED
  BY <1>1, WebInitially, WebStep, PTL DEF WebSpec
=============================================================================
