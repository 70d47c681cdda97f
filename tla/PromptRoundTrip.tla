--------------------------- MODULE PromptRoundTrip ---------------------------
(***************************************************************************)
(* The way of a prompt from a run to the user and back: the channels of    *)
(* the daemon (packages/daemon/src/channels.ts), the broadcast, the        *)
(* connection of a terminal client (packages/cli/src/wsClient.ts) and the  *)
(* two places of its screen a prompt is drawn in (App.tsx, components/).   *)
(*                                                                         *)
(* A screen has ONE place for a permission and ONE for a question; a newer *)
(* prompt takes the place of an older one.  Ink calls the key handler of   *)
(* the last drawing, so a handler lags one update behind the state.  What  *)
(* an answer teaches the session is in module SessionPermissions.          *)
(***************************************************************************)
EXTENDS Naturals, Sequences

CONSTANTS
  Prompt,       \* the prompts the runs will ask
  Screen,       \* terminal clients; each made a session of its own at startup
  KindOf,       \* KindOf[p]: "permission" or "question"
  SessionOf,    \* SessionOf[p]: the screen whose session the run belongs to
  Serial,       \* screens whose session asks one prompt at a time
  Answer,       \* the options of a prompt
  NoPrompt,     \* an empty place of a screen
  NoAnswer,
  MaxRequests   \* bound: responses one client sends

Kind == {"permission", "question"}

ASSUME PromptAssumption ==
  /\ KindOf \in [Prompt -> Kind]
  /\ SessionOf \in [Prompt -> Screen]
  /\ Serial \subseteq Screen
  /\ NoPrompt \notin Prompt
  /\ NoAnswer \notin Answer
  /\ MaxRequests \in Nat

VARIABLES
  stage,        \* "pending": an entry of pendingPermissions or pendingQuestions
  answer,       \* what the waiting run was resumed with
  wire,         \* frames from the daemon to a client, in order
  up,           \* permission.respond and question.respond frames, in order
  slot,         \* pendingPermission and pendingQuestion of a screen
  handler,      \* the prompts the key handlers of the last drawing close over
  linked,       \* the socket is open at both ends
  inflight,     \* WsClient.pending: ids whose reply is awaited
  nextId,       \* WsClient.nextId
  said          \* history: what the users answered to what was drawn for them

promptVars == <<stage, answer, wire, up, slot, handler, linked, inflight, nextId, said>>

Nothing == [k \in Kind |-> NoPrompt]
Ask(p) == [type |-> "ask", prompt |-> p]
Ok(n) == [type |-> "ok", id |-> n]
Response(n, p, a) == [id |-> n, prompt |-> p, answer |-> a]

PromptInit ==
  /\ stage = [p \in Prompt |-> "unasked"]
  /\ answer = [p \in Prompt |-> NoAnswer]
  /\ wire = [c \in Screen |-> <<>>]
  /\ up = [c \in Screen |-> <<>>]
  /\ slot = [c \in Screen |-> Nothing]
  /\ handler = [c \in Screen |-> Nothing]
  /\ linked = [c \in Screen |-> TRUE]
  /\ inflight = [c \in Screen |-> {}]
  /\ nextId = [c \in Screen |-> 1]
  /\ said = {}

-----------------------------------------------------------------------------
(* The daemon. *)

(* broadcast(): every open client gets every notification. *)
Broadcast(p) ==
  wire' = [c \in Screen |-> IF linked[c] THEN Append(wire[c], Ask(p)) ELSE wire[c]]

(* request() and ask(): the entry is made before the prompt is sent out. *)
Request(p) ==
  /\ stage[p] = "unasked"
  /\ SessionOf[p] \in Serial =>
       \A q \in Prompt : SessionOf[q] = SessionOf[p] => stage[q] # "pending"
  /\ stage' = [stage EXCEPT ![p] = "pending"]
  /\ Broadcast(p)
  /\ UNCHANGED <<answer, up, slot, handler, linked, inflight, nextId, said>>

(* Mutant: every response is looked up among the questions. *)
Resolves_OneMap(p) == stage[p] = "pending" /\ KindOf[p] = "question"

(* An answer resolves the entry it names, if that is still there. *)
Resolves(p) == stage[p] = "pending"

(* permission.respond and question.respond reply ok in either case. *)
Respond(c) ==
  /\ up[c] # <<>>
  /\ LET r == Head(up[c]) IN
     /\ IF Resolves(r.prompt)
        THEN /\ stage' = [stage EXCEPT ![r.prompt] = "settled"]
             /\ answer' = [answer EXCEPT ![r.prompt] = r.answer]
        ELSE UNCHANGED <<stage, answer>>
     /\ wire' = [wire EXCEPT ![c] = Append(@, Ok(r.id))]
  /\ up' = [up EXCEPT ![c] = Tail(@)]
  /\ UNCHANGED <<slot, handler, linked, inflight, nextId, said>>

-----------------------------------------------------------------------------
(* A terminal client. *)

(* A new state is drawn after the handlers of the drawing before it were    *)
(* put in place.                                                            *)
SetState(c, s) ==
  /\ slot' = [slot EXCEPT ![c] = s]
  /\ handler' = [handler EXCEPT ![c] = slot[c]]

(* Mutant: prompts are not filtered by the session. *)
OnPrompt_AnySession(c, p) == SetState(c, [slot[c] EXCEPT ![KindOf[p]] = p])

(* The listeners of permission.request and question.ask. *)
OnPrompt(c, p) ==
  IF SessionOf[p] = c THEN SetState(c, [slot[c] EXCEPT ![KindOf[p]] = p])
                      ELSE UNCHANGED <<slot, handler>>

(* handleMessage(): a frame with an id settles a request, another one goes  *)
(* to its listeners.                                                        *)
HandleMessage(c) ==
  /\ wire[c] # <<>>
  /\ LET m == Head(wire[c]) IN
     \/ /\ m.type = "ask"
        /\ OnPrompt(c, m.prompt)
        /\ UNCHANGED inflight
     \/ /\ m.type = "ok"
        /\ inflight' = [inflight EXCEPT ![c] = @ \ {m.id}]
        /\ UNCHANGED <<slot, handler>>
  /\ wire' = [wire EXCEPT ![c] = Tail(@)]
  /\ UNCHANGED <<stage, answer, up, linked, nextId, said>>

(* The effects of the last drawing run: its key handlers take over. *)
Redraw(c) ==
  /\ handler[c] # slot[c]
  /\ handler' = [handler EXCEPT ![c] = slot[c]]
  /\ UNCHANGED <<stage, answer, wire, up, slot, linked, inflight, nextId, said>>

(* request(): refused on a closed connection, otherwise sent under a new id. *)
SendRequest(c, p, a) ==
  IF linked[c]
  THEN /\ up' = [up EXCEPT ![c] = Append(@, Response(nextId[c], p, a))]
       /\ inflight' = [inflight EXCEPT ![c] = @ \cup {nextId[c]}]
       /\ nextId' = [nextId EXCEPT ![c] = @ + 1]
  ELSE UNCHANGED <<up, inflight, nextId>>

(* A key picks option a: the prompt the handler closes over is answered and *)
(* the place cleared, whatever has come into it.  Enter answers a           *)
(* permission and a question drawn together: two of these steps.            *)
OnRespond(c, k, a) ==
  /\ handler[c][k] # NoPrompt
  /\ nextId[c] <= MaxRequests
  /\ SendRequest(c, handler[c][k], a)
  /\ SetState(c, [slot[c] EXCEPT ![k] = NoPrompt])
  /\ said' = said \cup {<<c, handler[c][k], a>>}
  /\ UNCHANGED <<stage, answer, wire, linked>>

(* handleClose(): every request that waits is rejected. *)
HandleClose(c) == inflight' = [inflight EXCEPT ![c] = {}]

(* The connection is lost with what is on its way.  There is no reconnect,  *)
(* and the prompts stay on the screen.                                      *)
Disconnect(c) ==
  /\ linked[c]
  /\ linked' = [linked EXCEPT ![c] = FALSE]
  /\ wire' = [wire EXCEPT ![c] = <<>>]
  /\ up' = [up EXCEPT ![c] = <<>>]
  /\ HandleClose(c)
  /\ UNCHANGED <<stage, answer, slot, handler, nextId, said>>

PromptNext ==
  \/ \E p \in Prompt : Request(p)
  \/ \E c \in Screen : \/ Respond(c) \/ HandleMessage(c) \/ Redraw(c) \/ Disconnect(c)
                       \/ \E k \in Kind, a \in Answer : OnRespond(c, k, a)

(* Sockets deliver, React runs its effects, and the user answers what is    *)
(* drawn.                                                                   *)
PromptFairness ==
  \A c \in Screen :
    /\ WF_promptVars(Respond(c))
    /\ WF_promptVars(HandleMessage(c))
    /\ WF_promptVars(Redraw(c))
    /\ WF_promptVars(\E k \in Kind, a \in Answer : OnRespond(c, k, a))

PromptSpec == PromptInit /\ [][PromptNext]_promptVars /\ PromptFairness

-----------------------------------------------------------------------------
PromptTypeOK ==
  /\ stage \in [Prompt -> {"unasked", "pending", "settled"}]
  /\ answer \in [Prompt -> Answer \cup {NoAnswer}]
  /\ wire \in [Screen -> Seq([type : {"ask"}, prompt : Prompt] \cup [type : {"ok"}, id : Nat])]
  /\ up \in [Screen -> Seq([id : Nat, prompt : Prompt, answer : Answer])]
  /\ slot \in [Screen -> [Kind -> Prompt \cup {NoPrompt}]]
  /\ handler \in [Screen -> [Kind -> Prompt \cup {NoPrompt}]]
  /\ linked \in [Screen -> BOOLEAN]
  /\ inflight \in [Screen -> SUBSET Nat]
  /\ nextId \in [Screen -> Nat]
  /\ said \subseteq Screen \X Prompt \X Answer

Elements(s) == {s[i] : i \in DOMAIN s}
Asks(c) == {m.prompt : m \in {f \in Elements(wire[c]) : f.type = "ask"}}
Acks(c) == {m.id : m \in {f \in Elements(wire[c]) : f.type = "ok"}}

(* A run is resumed with an answer the user of its own session gave to that *)
(* very prompt while it was drawn, however answers, prompts and redraws     *)
(* interleave (channels.ts:39, server.ts:554).                              *)
AnswerIsTheUsers ==
  \A p \in Prompt :
    stage[p] = "settled" => <<SessionOf[p], p, answer[p]>> \in said

(* The requests a client waits for are those whose frame or reply is on its *)
(* way, and none on a connection that is gone: no request is forgotten and  *)
(* none waits for ever (wsClient.ts:48, 67 and 95).                         *)
WaitingIsInFlight ==
  \A c \in Screen : inflight[c] = {r.id : r \in Elements(up[c])} \cup Acks(c)

(* In a session that asks one prompt at a time, a pending prompt is on its  *)
(* way to the screen, on it, or its answer is on its way back: neither a    *)
(* second key press nor a late redraw loses it.                             *)
SerialPromptNotLost ==
  \A p \in Prompt : LET c == SessionOf[p] IN
    c \in Serial /\ linked[c] /\ stage[p] = "pending" =>
      \/ p \in Asks(c)
      \/ slot[c][KindOf[p]] = p
      \/ \E r \in Elements(up[c]) : r.prompt = p

(* No answer goes astray: it is the user's own to that prompt, no request   *)
(* waits for a reply that cannot come, and a serial session loses no prompt.*)
PromptsSound == AnswerIsTheUsers /\ WaitingIsInFlight /\ SerialPromptNotLost

(* There a prompt is answered in the end if the connection holds: the run   *)
(* that waits in request() or ask() goes on.                                *)
SerialPromptAnswered ==
  \A p \in Prompt :
    SessionOf[p] \in Serial /\ stage[p] = "pending"
      ~> stage[p] = "settled" \/ ~linked[SessionOf[p]]
=============================================================================
