---------------------------- MODULE BrowserBridge ----------------------------
(***************************************************************************)
(* Browser requests on their way from a client through the daemon          *)
(* (bridgeRequest() and the socket handlers of server.ts) to a native      *)
(* messaging host, and the life of the hosts: the extension's port starts  *)
(* one, and starts another a second after it lost the one before           *)
(* (apps/extension).                                                       *)
(*                                                                         *)
(* A host registers as a bridge and does nothing more yet: it drops what   *)
(* the daemon and the extension send it.  Hosts that do answer stand for   *)
(* the bridges of the daemon's tests and for the forwarding the comments   *)
(* of main.ts announce.                                                    *)
(***************************************************************************)
EXTENDS Naturals, SequencesExt

CONSTANTS
  BrowserCall,  \* the browser.* requests the clients make
  Checked,      \* the browser.act calls, which the permission engine decides on
  Extension,    \* browsers with the extension; each has one native port
  Host,         \* host processes that may be started
  Answering,    \* the hosts that forward and answer
  NoHost

ASSUME BridgeAssumption ==
  /\ Checked \subseteq BrowserCall
  /\ Answering \subseteq Host
  /\ NoHost \notin Host

VARIABLES
  call,         \* how far a request is; the reply it got at the end
  carrier,      \* the bridge a request was sent to
  bridges,      \* bridgeClients: a Set, in the order they registered
  process,      \* the host processes
  port,         \* NativePort.port: the host at its other end
  overlapped    \* history: two bridges were registered at once

bridgeVars == <<call, carrier, bridges, process, port, overlapped>>

Registered == {bridges[i] : i \in DOMAIN bridges}
Pending == {r \in BrowserCall : call[r] = "pending"}
Reply == {"result", "error", "denied", "no bridge", "disconnected"}
Alive(h) == process[h] \in {"starting", "attached", "stray"}

BridgeInit ==
  /\ call = [r \in BrowserCall |-> "idle"]
  /\ carrier = [r \in BrowserCall |-> NoHost]
  /\ bridges = <<>>
  /\ process = [h \in Host |-> "none"]
  /\ port = [e \in Extension |-> NoHost]
  /\ overlapped = FALSE

-----------------------------------------------------------------------------
(* The daemon. *)

(* bridgeRequest(): to the bridge that registered first, with no timeout. *)
BridgeRequest(r) ==
  IF bridges = <<>>
  THEN /\ call' = [call EXCEPT ![r] = "no bridge"]
       /\ UNCHANGED carrier
  ELSE /\ call' = [call EXCEPT ![r] = "pending"]
       /\ carrier' = [carrier EXCEPT ![r] = Head(bridges)]

(* browser.navigate and browser.screenshot go out at once, browser.act if   *)
(* the engine allows it; the engine may also deny it, or ask the user first.*)
BrowserRequest(r) ==
  /\ call[r] = "idle"
  /\ \/ BridgeRequest(r)
     \/ /\ r \in Checked
        /\ \E next \in {"asking", "denied"} : call' = [call EXCEPT ![r] = next]
        /\ UNCHANGED carrier
  /\ UNCHANGED <<bridges, process, port, overlapped>>

(* The user's answer; the bridge is looked up only now. *)
PermissionAnswer(r) ==
  /\ call[r] = "asking"
  /\ \/ BridgeRequest(r)
     \/ call' = [call EXCEPT ![r] = "denied"] /\ UNCHANGED carrier
  /\ UNCHANGED <<bridges, process, port, overlapped>>

(* A frame without a method: the response to the request with its id. *)
BridgeResponse(h, r) ==
  /\ h \in Registered \cap Answering
  /\ call[r] = "pending" /\ carrier[r] = h
  /\ \E outcome \in {"result", "error"} : call' = [call EXCEPT ![r] = outcome]
  /\ UNCHANGED <<carrier, bridges, process, port, overlapped>>

(* bridge.register adds the socket to the Set. *)
BridgeRegister(h) ==
  /\ bridges' = Append(bridges, h)
  /\ overlapped' = (overlapped \/ bridges # <<>>)

(* Mutant: nobody rejects what is pending. *)
SocketClose_KeepsPending(h) ==
  /\ bridges' = RemoveFirst(bridges, h)
  /\ UNCHANGED call

(* Mutant: the rejection is left out when the socket was the only bridge's. *)
SocketClose_WhenOthersRemain(h) ==
  /\ bridges' = RemoveFirst(bridges, h)
  /\ call' = IF h \in Registered /\ bridges' # <<>>
             THEN [r \in BrowserCall |-> IF r \in Pending THEN "disconnected" ELSE call[r]]
             ELSE call

(* The close handler of a socket: when the last bridge is gone, every       *)
(* request that waits is rejected, whichever bridge it was sent to.         *)
SocketClose(h) ==
  /\ bridges' = RemoveFirst(bridges, h)
  /\ call' = IF h \in Registered /\ bridges' = <<>>
             THEN [r \in BrowserCall |-> IF r \in Pending THEN "disconnected" ELSE call[r]]
             ELSE call

-----------------------------------------------------------------------------
(* The extension and its native host. *)

(* connect(), at startup or a second after a disconnect: Chrome starts a    *)
(* new host, whatever became of the one before.                             *)
PortConnect(e, h) ==
  /\ port[e] = NoHost
  /\ process[h] = "none"
  /\ port' = [port EXCEPT ![e] = h]
  /\ process' = [process EXCEPT ![h] = "starting"]
  /\ UNCHANGED <<call, carrier, bridges, overlapped>>

(* main(): one attempt to read daemon.json, connect and register. *)
HostAttach(h) ==
  /\ process[h] = "starting"
  /\ process' = [process EXCEPT ![h] = "attached"]
  /\ BridgeRegister(h)
  /\ UNCHANGED <<call, carrier, port>>

(* The attempt fails, no daemon runs: the host goes on without one. *)
HostStray(h) ==
  /\ process[h] = "starting"
  /\ process' = [process EXCEPT ![h] = "stray"]
  /\ UNCHANGED <<call, carrier, bridges, port, overlapped>>

(* The service worker is stopped: the port closes, and the host lives until *)
(* Chrome ends it.                                                          *)
PortClose(e) ==
  /\ port[e] # NoHost
  /\ port' = [port EXCEPT ![e] = NoHost]
  /\ UNCHANGED <<call, carrier, bridges, process, overlapped>>

(* A host ends, by Chrome or by itself: its socket and its port close. *)
HostExit(h) ==
  /\ Alive(h)
  /\ process' = [process EXCEPT ![h] = "dead"]
  /\ port' = [e \in Extension |-> IF port[e] = h THEN NoHost ELSE port[e]]
  /\ SocketClose(h)
  /\ UNCHANGED <<carrier, overlapped>>

BridgeNext ==
  \/ \E r \in BrowserCall : BrowserRequest(r) \/ PermissionAnswer(r)
  \/ \E h \in Host, r \in BrowserCall : BridgeResponse(h, r)
  \/ \E e \in Extension, h \in Host : PortConnect(e, h)
  \/ \E e \in Extension : PortClose(e)
  \/ \E h \in Host : HostAttach(h) \/ HostStray(h) \/ HostExit(h)

(* A host that answers does so, and Chrome ends a host whose port is gone. *)
BridgeFairness ==
  /\ \A r \in BrowserCall : WF_bridgeVars(\E h \in Host : BridgeResponse(h, r))
  /\ \A h \in Host :
       WF_bridgeVars(HostExit(h) /\ \A e \in Extension : port[e] # h)

BridgeSpec == BridgeInit /\ [][BridgeNext]_bridgeVars /\ BridgeFairness

-----------------------------------------------------------------------------
BridgeTypeOK ==
  /\ call \in [BrowserCall -> {"idle", "asking", "pending"} \cup Reply]
  /\ carrier \in [BrowserCall -> Host \cup {NoHost}]
  /\ bridges \in Seq(Host)
  /\ process \in [Host -> {"none", "starting", "attached", "stray", "dead"}]
  /\ port \in [Extension -> Host \cup {NoHost}]
  /\ overlapped \in BOOLEAN

(* No request waits when no bridge is left to answer it (server.ts:289).    *)
NoBridgeNothingPending == bridges = <<>> => Pending = {}

(* A request waits for a bridge that is still there, as long as there never *)
(* were two: the daemon forgets which bridge it sent a request to, and      *)
(* rejects only when the last one leaves.                                   *)
PendingHasItsBridge ==
  ~overlapped => \A r \in Pending : carrier[r] \in Registered

(* The daemon's bridges are the live hosts that attached, each once, so     *)
(* that browser.status says "connected" iff there is one.                   *)
BridgesAreLiveHosts ==
  /\ Registered = {h \in Host : process[h] = "attached"}
  /\ Cardinality(Registered) = Len(bridges)

(* What the daemon keeps of its bridges is true of the hosts and of the     *)
(* requests, however hosts attach, overlap and die (server.ts:289-300).     *)
BridgesSound == NoBridgeNothingPending /\ PendingHasItsBridge /\ BridgesAreLiveHosts

(* A request to a host that answers is replied to, unless two bridges were  *)
(* there at once: its answer comes, or its bridge leaves as the last one.   *)
BridgeCallsEnd ==
  \A r \in BrowserCall :
    call[r] = "pending" /\ carrier[r] \in Answering ~> call[r] \in Reply \/ overlapped
=============================================================================
