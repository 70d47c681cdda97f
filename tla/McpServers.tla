----------------------------- MODULE McpServers -----------------------------
(***************************************************************************)
(* MCP servers of the daemon: the handle of a server with its restarts     *)
(* (packages/mcp/src/client.ts), the registry of handles (registry.ts),    *)
(* and how the daemon connects and disconnects them and registers their    *)
(* tools (server.ts).                                                      *)
(*                                                                         *)
(* Every connect() of a handle has a transport of its own, with a server   *)
(* process behind it, and a handle knows the last one only.  The SDK and   *)
(* the processes are external: a connect that fails closes its transport,  *)
(* which may or may not call onclose, and closing a client ends a connect  *)
(* that is under way.                                                      *)
(***************************************************************************)
EXTENDS Naturals, FiniteSets

CONSTANTS
  Handle,               \* the handles that may be made
  Server,               \* names in config.mcpServers
  ServerOf,             \* ServerOf[h]: the server h is a handle of
  Broken,               \* handles whose server never answers
  AtStartup,            \* handles the startup makes; mcp.connect makes the others
  NoHandle,
  MaxRestartAttempts,   \* MAX_RESTART_ATTEMPTS
  MaxConnects,          \* bound: connects of one handle
  MaxClosing            \* bound: disconnects of one name under way at once

ASSUME McpAssumption ==
  /\ ServerOf \in [Handle -> Server]
  /\ Broken \subseteq Handle /\ AtStartup \subseteq Handle
  /\ NoHandle \notin Handle
  /\ MaxRestartAttempts \in Nat /\ MaxConnects \in Nat \ {0}
  /\ MaxClosing \in Nat \ {0}

VARIABLES
  made,         \* connectOne(): "no", "connecting", "held" or "rejected"
  status,       \* handle.status
  closed,       \* handle.closed
  attempts,     \* handle.restartAttempts
  waiting,      \* restarts of the handle that wait for their delay
  transport,    \* the transports of a handle, oldest first
  last,         \* handle.client and handle.transport: the last one made
  handles,      \* McpRegistry.handles
  closing,      \* how many disconnectOne() of the server await a close()
  tools,        \* the handle the registered tools of a server are bound to
  forked,       \* history: a restart was scheduled while another one ran
  raced         \* history: a server was connected while it was in use

mcpVars == <<made, status, closed, attempts, waiting, transport, last,
             handles, closing, tools, forked, raced>>

Slot == 1..MaxConnects
Dialing(h) == {i \in Slot : transport[h][i] = "dialing"}
Up(h) == {i \in Slot : transport[h][i] = "up"}
Processes(h) == Dialing(h) \cup Up(h)
Idle(h) == waiting[h] = 0 /\ Dialing(h) = {}

McpInit ==
  /\ made = [h \in Handle |-> "no"]
  /\ status = [h \in Handle |-> "connecting"]
  /\ closed = [h \in Handle |-> FALSE]
  /\ attempts = [h \in Handle |-> 0]
  /\ waiting = [h \in Handle |-> 0]
  /\ transport = [h \in Handle |-> [i \in Slot |-> "none"]]
  /\ last = [h \in Handle |-> 0]
  /\ handles = [s \in Server |-> NoHandle]
  /\ closing = [s \in Server |-> 0]
  /\ tools = [s \in Server |-> NoHandle]
  /\ forked = FALSE
  /\ raced = FALSE

-----------------------------------------------------------------------------
(* The handle. *)

(* connect(): a new client and transport take the place of the last ones. *)
Dial(h) ==
  /\ last[h] < MaxConnects
  /\ last' = [last EXCEPT ![h] = @ + 1]
  /\ transport' = [transport EXCEPT ![h][last[h] + 1] = "dialing"]

(* Mutant: the attempts are not counted. *)
ScheduleRestarts_Uncounted(h, onclose, again) ==
  IF closed[h] \/ onclose + again = 0
  THEN UNCHANGED <<attempts, waiting, status, forked>>
  ELSE /\ waiting' = [waiting EXCEPT ![h] = @ + onclose + again]
       /\ forked' = (forked \/ onclose + again > 1 \/ ~Idle(h))
       /\ UNCHANGED <<attempts, status>>

(* Mutant: one restart more than the limit says. *)
ScheduleRestarts_OneMore(h, onclose, again) ==
  IF closed[h] \/ onclose + again = 0 \/ attempts[h] > MaxRestartAttempts
  THEN UNCHANGED <<attempts, waiting, status, forked>>
  ELSE /\ attempts' = [attempts EXCEPT ![h] = @ + 1]
       /\ waiting' = [waiting EXCEPT ![h] = @ + 1]
       /\ UNCHANGED <<status, forked>>

(* scheduleRestart() from onclose, which says "disconnected" first, and     *)
(* again from the catch block; a call beyond the limit says "failed".       *)
ScheduleRestarts(h, onclose, again) ==
  IF closed[h] \/ onclose + again = 0
  THEN UNCHANGED <<attempts, waiting, status, forked>>
  ELSE LET room == MaxRestartAttempts - attempts[h]
           started == IF onclose + again <= room THEN onclose + again ELSE room
       IN  /\ attempts' = [attempts EXCEPT ![h] = @ + started]
           /\ waiting' = [waiting EXCEPT ![h] = @ + started]
           /\ status' = [status EXCEPT ![h] =
                CASE onclose + again > room -> "failed"
                  [] onclose + again <= room /\ onclose = 1 -> "disconnected"
                  [] OTHER -> @]
           /\ forked' = (forked \/ started > 1 \/ (started > 0 /\ waiting[h] > 0))

(* The delay of scheduleRestart() is over. *)
Restart(h) ==
  /\ waiting[h] > 0
  /\ waiting' = [waiting EXCEPT ![h] = @ - 1]
  /\ IF closed[h] THEN UNCHANGED <<transport, last, forked>>
     ELSE Dial(h) /\ forked' = (forked \/ Processes(h) # {})
  /\ UNCHANGED <<made, status, closed, attempts, handles, closing, tools, raced>>

(* connectOne() of the server is done: the handle takes the name's place.   *)
Register(h) ==
  IF made[h] = "connecting"
  THEN /\ made' = [made EXCEPT ![h] = "held"]
       /\ handles' = [handles EXCEPT ![ServerOf[h]] = h]
  ELSE UNCHANGED <<made, handles>>

(* connect() comes back. *)
Connected(h, i) ==
  /\ i \in Dialing(h) /\ h \notin Broken
  /\ transport' = [transport EXCEPT ![h][i] = "up"]
  /\ status' = [status EXCEPT ![h] = "connected"]
  /\ attempts' = [attempts EXCEPT ![h] = 0]
  /\ Register(h)
  /\ UNCHANGED <<closed, waiting, last, closing, tools, forked, raced>>

(* connect() throws.  onclose schedules a restart, if it is called, and the *)
(* catch block of a restart schedules one too; the first connect reports.   *)
ConnectFails(h, i) ==
  /\ i \in Dialing(h)
  /\ transport' = [transport EXCEPT ![h][i] = "down"]
  /\ made' = [made EXCEPT ![h] = IF @ = "connecting" THEN "rejected" ELSE @]
  /\ \E onclose \in {0, 1} :
       ScheduleRestarts(h, onclose, IF made[h] = "connecting" THEN 0 ELSE 1)
  /\ UNCHANGED <<closed, last, handles, closing, tools, raced>>

(* The server process dies: handleUnexpectedClose(). *)
ServerCrash(h, i) ==
  /\ i \in Up(h)
  /\ transport' = [transport EXCEPT ![h][i] = "down"]
  /\ ScheduleRestarts(h, 1, 0)
  /\ UNCHANGED <<made, closed, last, handles, closing, tools, raced>>

-----------------------------------------------------------------------------
(* The registry and the daemon's handlers. *)

(* The name is free: no handle of it is held, on its way in or out. *)
Free(s) ==
  /\ handles[s] = NoHandle /\ closing[s] = 0
  /\ \A g \in Handle : ServerOf[g] = s => made[g] # "connecting"

(* connectOne(), by the daemon's startup or by mcp.connect: nothing looks   *)
(* whether the server is connected.                                         *)
ConnectOne(h) ==
  /\ made[h] = "no"
  /\ made' = [made EXCEPT ![h] = "connecting"]
  /\ Dial(h)
  /\ raced' = (raced \/ ~Free(ServerOf[h]))
  /\ UNCHANGED <<status, closed, attempts, waiting, handles, closing, tools, forked>>

(* connectConfiguredMcpServers() registers the tools the server lists, each *)
(* bound to its handle; mcp.connect registers none, and mcp.disconnect      *)
(* leaves them.                                                             *)
RegisterTools(h) ==
  /\ h \in AtStartup /\ made[h] = "held" /\ tools[ServerOf[h]] = NoHandle
  /\ last[h] \in Up(h)
  /\ tools' = [tools EXCEPT ![ServerOf[h]] = h]
  /\ UNCHANGED <<made, status, closed, attempts, waiting, transport, last,
                 handles, closing, forked, raced>>

(* Mutant: the restarts do not get to know of close(). *)
Close_KeepsRestarting(h) ==
  /\ UNCHANGED closed
  /\ status' = [status EXCEPT ![h] = "disconnected"]
  /\ transport' = [transport EXCEPT ![h][last[h]] = "down"]

(* close() ends the last client's transport, whatever its state. *)
Close(h) ==
  /\ closed' = [closed EXCEPT ![h] = TRUE]
  /\ status' = [status EXCEPT ![h] = "disconnected"]
  /\ transport' = [transport EXCEPT ![h][last[h]] = "down"]

(* disconnectOne() closes the handle it finds, closed already or not, *)
DisconnectOne(s) ==
  /\ handles[s] # NoHandle /\ closing[s] < MaxClosing
  /\ closing' = [closing EXCEPT ![s] = @ + 1]
  /\ Close(handles[s])
  /\ UNCHANGED <<made, attempts, waiting, last, handles, tools, forked, raced>>

(* and then deletes the entry of the NAME. *)
Forget(s) == handles' = [handles EXCEPT ![s] = NoHandle]

Disconnected(s) ==
  /\ closing[s] > 0
  /\ closing' = [closing EXCEPT ![s] = @ - 1]
  /\ Forget(s)
  /\ UNCHANGED <<made, status, closed, attempts, waiting, transport, last,
                 tools, forked, raced>>

McpNext ==
  \/ \E h \in Handle : ConnectOne(h) \/ RegisterTools(h) \/ Restart(h)
  \/ \E h \in Handle, i \in Slot : Connected(h, i) \/ ConnectFails(h, i) \/ ServerCrash(h, i)
  \/ \E s \in Server : DisconnectOne(s) \/ Disconnected(s)

(* Delays end, and a connect comes back one way or the other. *)
McpFairness ==
  \A h \in Handle :
    /\ WF_mcpVars(Restart(h))
    /\ \A i \in Slot : WF_mcpVars(Connected(h, i) \/ ConnectFails(h, i))

McpSpec == McpInit /\ [][McpNext]_mcpVars /\ McpFairness

-----------------------------------------------------------------------------
McpTypeOK ==
  /\ made \in [Handle -> {"no", "connecting", "held", "rejected"}]
  /\ status \in [Handle -> {"connecting", "connected", "disconnected", "failed"}]
  /\ closed \in [Handle -> BOOLEAN]
  /\ attempts \in [Handle -> 0..MaxRestartAttempts]
  /\ waiting \in [Handle -> Nat]
  /\ transport \in [Handle -> [Slot -> {"none", "dialing", "up", "down"}]]
  /\ last \in [Handle -> 0..MaxConnects]
  /\ handles \in [Server -> Handle \cup {NoHandle}]
  /\ closing \in [Server -> 0..MaxClosing]
  /\ tools \in [Server -> Handle \cup {NoHandle}]
  /\ forked \in BOOLEAN /\ raced \in BOOLEAN

(* One process per handle, and none once it is closed, unless a restart was *)
(* scheduled while another one ran (client.ts:74: onclose and the catch     *)
(* block schedule one each).                                                *)
OneProcessPerHandle ==
  ~forked => \A h \in Handle :
    /\ Cardinality(Processes(h)) + waiting[h] <= 1
    /\ closed[h] => Processes(h) = {}

(* Every process belongs to a handle the registry holds or is about to      *)
(* hold, unless restarts forked, operations on one name overlapped, or the  *)
(* first connect had been reported as failed.                               *)
ProcessesAreHeld ==
  ~forked /\ ~raced => \A h \in Handle :
    Processes(h) # {} =>
      made[h] \in {"connecting", "rejected"} \/ handles[ServerOf[h]] = h

(* A connected process that no restart of its own replaced is the one its   *)
(* handle speaks to, and the handle says so.                                *)
StatusIsTrue ==
  ~forked => \A h \in Handle :
    Up(h) # {} => last[h] \in Up(h) /\ status[h] = "connected"

(* Handles and processes belong together, through closes during restarts    *)
(* and restarts of what was closed (client.ts, registry.ts).                *)
HandlesSound == OneProcessPerHandle /\ ProcessesAreHeld /\ StatusIsTrue

(* A server that never comes up is given up in the end: its restarts are    *)
(* bounded although each failure may schedule two.                          *)
BrokenIsGivenUp == \A h \in Broken : <>[]Idle(h)
=============================================================================
