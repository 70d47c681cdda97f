-------------------------- MODULE DaemonDiscovery --------------------------
(***************************************************************************)
(* How a CLI finds the daemon: ~/.otoclaw/daemon.json holds the port and   *)
(* the token of the last daemon that started; a CLI tries that one, and    *)
(* otherwise starts a daemon and waits for the file to be readable         *)
(* (packages/cli/src/index.tsx, packages/daemon/src/main.ts, the end of    *)
(* startServer in packages/daemon/src/server.ts).  Every process reads and *)
(* writes the file on its own; any daemon may be killed at any moment.     *)
(***************************************************************************)
EXTENDS Naturals, FiniteSets

CONSTANTS Daemon,   \* the daemon processes that may ever be started
          Cli,      \* the CLI processes
          NoFile,   \* daemon.json does not exist
          Torn      \* daemon.json is being written: empty or cut short

ASSUME DaemonDiscoveryAssumption == {NoFile, Torn} \cap Daemon = {} /\ NoFile # Torn

VARIABLES daemon,    \* the phase of each daemon process
          daemonFile,\* what daemon.json holds: NoFile, Torn, or whose port and token
          cli,       \* the phase of each CLI in ensureConnectedClient()
          info,      \* the daemon named by the info a CLI has read, or NoFile
          own,       \* the daemon a CLI has spawned, or NoFile
          late,      \* the CLIs whose waitForDaemon() ran into its 5 s
          unlinked,  \* the daemons whose daemon.json was removed as they wrote it
          alone,     \* no CLI has looked while a daemon came up, or started one
                     \* while another one was shutting down
          killed     \* some daemon was killed without shutdown()

discoveryVars == <<daemon, daemonFile, cli, info, own, late, unlinked, alone, killed>>

Coming == {"starting", "listening", "writing"}
Accepts(d) == daemon[d] \in {"listening", "writing", "up"}
Serves(d) == daemon[d] \in Coming \cup {"up"}
DiscoveryAlive(d) == Serves(d) \/ daemon[d] = "stopping"

\* readDaemonInfo(): a missing, unparsable or incomplete file is null.
ReadDaemonInfo == IF daemonFile \in Daemon THEN daemonFile ELSE NoFile

DiscoveryInit ==
  /\ daemon = [d \in Daemon |-> "unborn"] /\ daemonFile = NoFile
  /\ cli = [c \in Cli |-> "idle"]
  /\ info = [c \in Cli |-> NoFile] /\ own = [c \in Cli |-> NoFile]
  /\ late = {} /\ unlinked = {} /\ alone = TRUE /\ killed = FALSE

-----------------------------------------------------------------------------
(* The daemon: main.ts calls startServer(), which listens first and writes  *)
(* the file last; SIGINT and SIGTERM run stop() once both are done.         *)

Listen(d) ==
  /\ daemon[d] = "starting"
  /\ daemon' = [daemon EXCEPT ![d] = "listening"]
  /\ UNCHANGED <<daemonFile, cli, info, own, late, unlinked, alone, killed>>

\* writeFileSync() truncates whatever daemon.json held ...
OpenFile(d) ==
  /\ daemon[d] = "listening"
  /\ daemon' = [daemon EXCEPT ![d] = "writing"] /\ daemonFile' = Torn
  /\ UNCHANGED <<cli, info, own, late, unlinked, alone, killed>>

\* ... and then fills what it has opened, which may have been removed since.
FillFile(d) ==
  /\ daemon[d] = "writing"
  /\ daemon' = [daemon EXCEPT ![d] = "up"]
  /\ daemonFile' = IF d \in unlinked THEN daemonFile ELSE d
  /\ UNCHANGED <<cli, info, own, late, unlinked, alone, killed>>

\* shutdown(), on SIGINT and SIGTERM: server.stop(true) closes every connection
\* and accepts no more ...
StopServer(d) ==
  /\ daemon[d] = "up"
  /\ daemon' = [daemon EXCEPT ![d] = "stopping"]
  /\ UNCHANGED <<daemonFile, cli, info, own, late, unlinked, alone, killed>>

\* A mutant: shutdown() leaves the file behind.
RemoveDaemonFile_KeepsFile(d) ==
  /\ daemon[d] = "stopping"
  /\ daemon' = [daemon EXCEPT ![d] = "stopped"]
  /\ UNCHANGED <<daemonFile, cli, info, own, late, unlinked, alone, killed>>

\* ... then daemon.json is removed, whoever wrote or writes it, and the process ends.
RemoveDaemonFile(d) ==
  /\ daemon[d] = "stopping"
  /\ daemon' = [daemon EXCEPT ![d] = "stopped"] /\ daemonFile' = NoFile
  /\ unlinked' = unlinked \cup {e \in Daemon : daemon[e] = "writing"}
  /\ UNCHANGED <<cli, info, own, late, alone, killed>>

\* The process dies at any point; the file stays as it is.
KillDaemon(d) ==
  /\ DiscoveryAlive(d)
  /\ daemon' = [daemon EXCEPT ![d] = "killed"] /\ killed' = TRUE
  /\ UNCHANGED <<daemonFile, cli, info, own, late, unlinked, alone>>

-----------------------------------------------------------------------------
(* The CLI: ensureConnectedClient().                                        *)

StartCli(c) ==
  /\ cli[c] = "idle"
  /\ info' = [info EXCEPT ![c] = ReadDaemonInfo]
  /\ cli' = [cli EXCEPT ![c] = IF ReadDaemonInfo = NoFile THEN "spawning" ELSE "trying"]
  /\ alone' = /\ alone
              /\ \A d \in Daemon : daemon[d] \notin Coming
              /\ \A b \in Cli : cli[b] \notin {"trying", "spawning", "waiting", "connecting"}
  /\ UNCHANGED <<daemon, daemonFile, own, late, unlinked, killed>>

TryExisting(c) ==
  /\ cli[c] = "trying"
  /\ cli' = [cli EXCEPT ![c] = IF Accepts(info[c]) THEN "connected" ELSE "spawning"]
  /\ UNCHANGED <<daemon, daemonFile, info, own, late, unlinked, alone, killed>>

SpawnDaemon(c, d) ==
  /\ cli[c] = "spawning" /\ daemon[d] = "unborn"
  /\ daemon' = [daemon EXCEPT ![d] = "starting"]
  /\ cli' = [cli EXCEPT ![c] = "waiting"] /\ own' = [own EXCEPT ![c] = d]
  /\ alone' = (alone /\ \A e \in Daemon : daemon[e] # "stopping")
  /\ UNCHANGED <<daemonFile, info, late, unlinked, killed>>

\* waitForDaemon(): the first readable file, by whomever it was written.
FindDaemon(c) ==
  /\ cli[c] = "waiting" /\ ReadDaemonInfo # NoFile
  /\ info' = [info EXCEPT ![c] = ReadDaemonInfo]
  /\ cli' = [cli EXCEPT ![c] = "connecting"]
  /\ UNCHANGED <<daemon, daemonFile, own, late, unlinked, alone, killed>>

\* 5 s of 100 ms polls without a readable file.
WaitTimesOut(c) ==
  /\ cli[c] = "waiting" /\ ReadDaemonInfo = NoFile
  /\ cli' = [cli EXCEPT ![c] = "failed"] /\ late' = late \cup {c}
  /\ UNCHANGED <<daemon, daemonFile, info, own, unlinked, alone, killed>>

ConnectCli(c) ==
  /\ cli[c] = "connecting"
  /\ cli' = [cli EXCEPT ![c] = IF Accepts(info[c]) THEN "connected" ELSE "failed"]
  /\ UNCHANGED <<daemon, daemonFile, info, own, late, unlinked, alone, killed>>

\* The process ends, and may be run again.
QuitCli(c) ==
  /\ cli[c] \in {"connected", "failed"}
  /\ cli' = [cli EXCEPT ![c] = "idle"] /\ late' = late \ {c}
  /\ info' = [info EXCEPT ![c] = NoFile] /\ own' = [own EXCEPT ![c] = NoFile]
  /\ UNCHANGED <<daemon, daemonFile, unlinked, alone, killed>>

CliStep(c) ==
  \/ TryExisting(c) \/ FindDaemon(c) \/ WaitTimesOut(c) \/ ConnectCli(c)
  \/ \E d \in Daemon : SpawnDaemon(c, d)

DiscoveryNext ==
  \/ \E d \in Daemon : \/ Listen(d) \/ OpenFile(d) \/ FillFile(d)
                        \/ StopServer(d) \/ RemoveDaemonFile(d) \/ KillDaemon(d)
  \/ \E c \in Cli : StartCli(c) \/ CliStep(c) \/ QuitCli(c)

DiscoverySpec == DiscoveryInit /\ [][DiscoveryNext]_discoveryVars

-----------------------------------------------------------------------------
DiscoveryTypeOK ==
  /\ daemon \in [Daemon -> Coming \cup {"unborn", "up", "stopping", "stopped", "killed"}]
  /\ daemonFile \in Daemon \cup {NoFile, Torn}
  /\ cli \in [Cli -> {"idle", "trying", "spawning", "waiting", "connecting", "connected", "failed"}]
  /\ info \in [Cli -> Daemon \cup {NoFile}] /\ own \in [Cli -> Daemon \cup {NoFile}]
  /\ late \subseteq Cli /\ unlinked \subseteq Daemon /\ alone \in BOOLEAN /\ killed \in BOOLEAN

\* While no CLI looks for a daemon as another one comes up, or starts one as
\* another shuts down, at most one daemon lives at a time, whatever was killed,
\* and one that is up is the one that daemon.json names: every later CLI finds it.
CalmDaemonIsTheOne ==
  alone => /\ Cardinality({d \in Daemon : DiscoveryAlive(d)}) <= 1
           /\ \A d \in Daemon : daemon[d] = "up" => daemonFile = d

\* A CLI gives up although the daemon it started goes on and it did not run
\* out of time.
GivesUpOnALiveDaemon(c) ==
  cli[c] = "failed" /\ c \notin late /\ own[c] \in Daemon /\ Serves(own[c])

\* That does not happen as long as no daemon was killed and no two daemons came
\* and went at once: what stop() leaves behind never misleads a CLI.
CalmCliConnects == alone /\ ~killed => \A c \in Cli : ~GivesUpOnALiveDaemon(c)

\* CLIs and daemons that start and stop one after the other find each other.
CalmDiscovery == CalmDaemonIsTheOne /\ CalmCliConnects
=============================================================================
