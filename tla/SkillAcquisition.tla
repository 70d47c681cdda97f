-------------------------- MODULE SkillAcquisition --------------------------
(***************************************************************************)
(* Skills (packages/skills/src, loadConfiguredSkills in daemon/src/        *)
(* server.ts): acquireSkill() finds a skill, asks and calls the installer  *)
(* it was given; sandboxInstallSkill() is the installer of the package;    *)
(* the daemon loads <cwd>/skills and ~/.otoclaw/skills when it starts.     *)
(* Nothing in the repository hands the one function to the other: the      *)
(* daemon's installer does nothing (server.ts:644).  So they are calls of  *)
(* their own here, and what the installer of an acquisition does is open.  *)
(* The daemon may crash between any two steps; what is on disk stays.      *)
(***************************************************************************)
EXTENDS Naturals

CONSTANTS Skill,        \* the names of skills
          Acquisition,  \* the calls of acquireSkill()
          Installation, \* the calls of sandboxInstallSkill()
          Wanted,       \* the skill each call is for
          Allowed,      \* the installations whose files are .md, .json and .txt only
          FilesPerSkill,\* the number of files of a candidate
          MaxCrashes    \* bound on the crashes that are explored

ASSUME SkillAssumption ==
  /\ Wanted \in [Acquisition \cup Installation -> Skill] /\ Allowed \subseteq Installation
  /\ FilesPerSkill \in Nat \ {0} /\ MaxCrashes \in Nat

VARIABLES step,        \* where each acquisition is
          approved,    \* the acquisitions whose user has answered "install"
          install,     \* where each installation is
          quarantine,  \* the files of its quarantine folder, 0 when there is none
          skillsDir,   \* the files of each folder of ~/.otoclaw/skills, 0 when there is none
          project,     \* the skills in <cwd>/skills: the user's files, approved by nobody
          loading,     \* the directory the daemon is loading, or "done"
          toLoad,      \* its folders that are yet to be read
          loaded,      \* its skills that have been read
          registry,    \* where the registered skill of each name came from, or "none"
          skillCrashes \* crashes so far

skillVars == <<step, approved, install, quarantine, skillsDir,
               project, loading, toLoad, loaded, registry, skillCrashes>>
acquireVars == <<step, approved>>
installVars == <<install, quarantine, skillsDir>>
loadVars == <<project, loading, toLoad, loaded, registry, skillCrashes>>

InstalledSkills == {n \in Skill : skillsDir[n] > 0}
Registered == {n \in Skill : registry[n] # "none"}

\* The daemon begins to load: <cwd>/skills has what the user has put there.
BeginLoad ==
  /\ project' \in SUBSET Skill
  /\ loading' = "project" /\ toLoad' = project' /\ loaded' = {}
  /\ registry' = [n \in Skill |-> "none"]

SkillInit ==
  /\ step = [q \in Acquisition |-> "idle"] /\ approved = {}
  /\ install = [i \in Installation |-> "idle"]
  /\ quarantine = [i \in Installation |-> 0] /\ skillsDir = [n \in Skill |-> 0]
  /\ project \in SUBSET Skill /\ loading = "project" /\ toLoad = project /\ loaded = {}
  /\ registry = [n \in Skill |-> "none"] /\ skillCrashes = 0

-----------------------------------------------------------------------------
(* acquireSkill().                                                          *)

To(q, s) == step' = [step EXCEPT ![q] = s] /\ UNCHANGED <<installVars, loadVars>>

\* registry.has(name) is looked at once, before the search and the question.
StartAcquire(q) ==
  /\ step[q] = "idle" /\ UNCHANGED approved
  /\ To(q, IF Wanted[q] \in Registered THEN "installed" ELSE "searching")

\* search() finds a candidate, finds none, or throws.
SearchReturns(q) ==
  /\ step[q] = "searching" /\ UNCHANGED approved
  /\ \E s \in {"asking", "not_found", "skipped"} : To(q, s)

AnswerSkill(q) ==
  /\ step[q] = "asking"
  /\ \/ To(q, "installing") /\ approved' = approved \cup {q}
     \/ To(q, "skipped") /\ UNCHANGED approved

\* The caller's installer returns, or throws: onResult("skipped").
InstallerReturns(q) ==
  /\ step[q] = "installing" /\ UNCHANGED approved
  /\ \E s \in {"installed", "skipped"} : To(q, s)

-----------------------------------------------------------------------------
(* sandboxInstallSkill().                                                   *)

Moves(i, s) == install' = [install EXCEPT ![i] = s] /\ UNCHANGED <<acquireVars, loadVars>>

\* verifyQuarantineFiles(): a file outside the allowlist throws.
VerifyFiles(i) ==
  /\ install[i] = "idle"
  /\ Moves(i, IF i \in Allowed THEN "writing" ELSE "threw")
  /\ UNCHANGED <<quarantine, skillsDir>>

\* One writeFile() into the call's own quarantine folder.
WriteFile(i) ==
  /\ install[i] = "writing" /\ quarantine[i] < FilesPerSkill
  /\ Moves(i, "writing")
  /\ quarantine' = [quarantine EXCEPT ![i] = @ + 1] /\ UNCHANGED skillsDir

\* A mutant: a folder that is there already counts as promoted.
Promote_Ignores(i) ==
  /\ install[i] = "writing" /\ quarantine[i] > 0
  /\ Moves(i, "installed") /\ quarantine' = [quarantine EXCEPT ![i] = 0]
  /\ skillsDir' = [skillsDir EXCEPT ![Wanted[i]] = IF @ = 0 THEN quarantine[i] ELSE @]

\* rename() of the full quarantine folder fails on a folder that has files: the
\* call throws and its quarantine folder stays.
Promote(i) ==
  /\ install[i] = "writing" /\ quarantine[i] = FilesPerSkill
  /\ IF skillsDir[Wanted[i]] = 0
     THEN /\ Moves(i, "installed")
          /\ skillsDir' = [skillsDir EXCEPT ![Wanted[i]] = quarantine[i]]
          /\ quarantine' = [quarantine EXCEPT ![i] = 0]
     ELSE Moves(i, "threw") /\ UNCHANGED <<skillsDir, quarantine>>

\* Any of the file operations may throw.
InstallThrows(i) ==
  /\ install[i] = "writing" /\ Moves(i, "threw") /\ UNCHANGED <<quarantine, skillsDir>>

-----------------------------------------------------------------------------
(* loadConfiguredSkills(): <cwd>/skills, then ~/.otoclaw/skills.            *)

\* loadSkillFromDir() needs skill.json and SKILL.md, otherwise it skips the folder.
\* A folder is called as its skill: a manifest with another name is left out.
LoadSkill(n) ==
  /\ n \in toLoad /\ toLoad' = toLoad \ {n}
  /\ loaded' = IF loading = "project" \/ skillsDir[n] = FilesPerSkill
               THEN loaded \cup {n} ELSE loaded
  /\ UNCHANGED <<project, loading, registry, skillCrashes, acquireVars, installVars>>

\* loadSkillsFromDir() has returned: its skills are registered, over those of the
\* same names, and the next directory is listed.
RegisterLoaded ==
  /\ loading # "done" /\ toLoad = {}
  /\ registry' = [n \in Skill |-> IF n \in loaded THEN loading ELSE registry[n]]
  /\ loading' = IF loading = "project" THEN "managed" ELSE "done"
  /\ toLoad' = IF loading = "project" THEN InstalledSkills ELSE {}
  /\ loaded' = {}
  /\ UNCHANGED <<project, skillCrashes, acquireVars, installVars>>

\* The daemon dies and is started again, maybe in another directory.
CrashAndRestart ==
  /\ skillCrashes < MaxCrashes /\ skillCrashes' = skillCrashes + 1
  /\ step' = [q \in Acquisition |-> "idle"] /\ approved' = {}
  /\ install' = [i \in Installation |-> "idle"]
  /\ quarantine' = [i \in Installation |-> 0]
  /\ BeginLoad /\ UNCHANGED skillsDir

SkillNext ==
  \/ \E q \in Acquisition : \/ StartAcquire(q) \/ SearchReturns(q)
                            \/ AnswerSkill(q) \/ InstallerReturns(q)
  \/ \E i \in Installation : VerifyFiles(i) \/ WriteFile(i) \/ Promote(i) \/ InstallThrows(i)
  \/ \E n \in Skill : LoadSkill(n)
  \/ RegisterLoaded \/ CrashAndRestart

SkillSpec == SkillInit /\ [][SkillNext]_skillVars

-----------------------------------------------------------------------------
SkillTypeOK ==
  /\ step \in [Acquisition -> {"idle", "searching", "asking", "installing",
                               "installed", "skipped", "not_found"}]
  /\ approved \subseteq Acquisition
  /\ install \in [Installation -> {"idle", "writing", "installed", "threw"}]
  /\ quarantine \in [Installation -> 0 .. FilesPerSkill]
  /\ skillsDir \in [Skill -> 0 .. FilesPerSkill]
  /\ project \subseteq Skill /\ toLoad \subseteq Skill /\ loaded \subseteq Skill
  /\ loading \in {"project", "managed", "done"}
  /\ registry \in [Skill -> {"none", "project", "managed"}] /\ skillCrashes \in 0 .. MaxCrashes

\* Whatever overlaps, fails or crashes, a folder of ~/.otoclaw/skills that
\* sandboxInstallSkill() has made holds every file of a skill whose files were all
\* of an allowed kind, and a skill is registered from there only if it is such a
\* folder.  What the project's own directory has is registered as it is.
ManagedSkillsAreWhole ==
  /\ \A n \in InstalledSkills : /\ skillsDir[n] = FilesPerSkill
                                /\ \E i \in Allowed : Wanted[i] = n
  /\ \A n \in Skill : registry[n] = "managed" => n \in InstalledSkills

\* An installation returns only if its skill is on disk, and of two of one skill
\* one at most: the other's folder stays in quarantine.
InstalledIsOnDisk ==
  \A i \in Installation : install[i] = "installed" =>
    /\ Wanted[i] \in InstalledSkills
    /\ \A j \in Installation : install[j] = "installed" /\ Wanted[j] = Wanted[i] => j = i

\* An acquisition calls its installer on the user's word only, and says
\* "installed" of what was approved or is registered.  It does not say that the
\* skill is on disk: that is the installer's matter.
AcquiredOnRequest ==
  \A q \in Acquisition :
    /\ step[q] = "installing" => q \in approved
    /\ step[q] = "installed" => q \in approved \/ Wanted[q] \in Registered

\* Installing is all or nothing and once, and acquiring is never silent.
SkillsSound == ManagedSkillsAreWhole /\ InstalledIsOnDisk /\ AcquiredOnRequest
=============================================================================
