----------------------------- MODULE RunScreen -----------------------------
(***************************************************************************)
(* What a CLI shows of the runs it hears of: the events of a run           *)
(* (packages/agent/src/loop.ts), wireEvents() and runMessage() of          *)
(* packages/daemon/src/server.ts, which broadcast them to every client     *)
(* with their session's id, and the listeners of App in                    *)
(* packages/cli/src/App.tsx, which gather the streamed text of their       *)
(* session and make it an entry of the transcript when the run delivers.   *)
(* Only events the screen reacts to are there; /clear is left out.         *)
(***************************************************************************)
EXTENDS Naturals, Sequences

CONSTANTS
  ScreenRun,  \* the runs of the daemon
  Mine,       \* those of the screen's session; the others are of other sessions
  MaxText,    \* bound: pieces of text of a run
  MaxTools,   \* bound: tool calls of a run
  MaxWire     \* bound: messages under way to the screen

ASSUME ScreenAssumption == Mine \subseteq ScreenRun /\ {MaxText, MaxTools, MaxWire} \subseteq Nat

VARIABLES
  stage,       \* where each run is
  spoken,      \* the pieces of text each run has streamed
  called,      \* the tool calls each run has made
  wire,        \* the messages on the socket, in order
  streamText,  \* the text shown below the transcript
  streaming,   \* whether it is shown as growing
  transcript,  \* the entries that events have made
  overlapped   \* history: two runs of the screen's session were live at once

screenVars == <<stage, spoken, called, wire, streamText, streaming, transcript,
                overlapped>>

LiveRun(r) == stage[r] \in {"streaming", "tool"}
TextOf(r) == [k \in 1..spoken[r] |-> <<r, k>>]

ScreenInit ==
  /\ stage = [r \in ScreenRun |-> "idle"]
  /\ spoken = [r \in ScreenRun |-> 0]
  /\ called = [r \in ScreenRun |-> 0]
  /\ wire = <<>>
  /\ streamText = <<>> /\ streaming = FALSE /\ transcript = <<>>
  /\ overlapped = FALSE

-----------------------------------------------------------------------------
(* The run. *)

(* wireEvents(): an event goes to every client, with the session's id. *)
Emit(r, kind) ==
  /\ Len(wire) < MaxWire
  /\ wire' = Append(wire, [kind |-> kind, run |-> r, piece |-> <<r, spoken'[r]>>])
  /\ UNCHANGED <<streamText, streaming, transcript>>

(* runTask(): its first event is the stage "intake". *)
RunBegins(r) ==
  /\ stage[r] = "idle"
  /\ stage' = [stage EXCEPT ![r] = "streaming"]
  /\ overlapped' = (overlapped \/ (r \in Mine /\ \E q \in Mine : LiveRun(q)))
  /\ UNCHANGED <<spoken, called>>
  /\ Emit(r, "intake")

(* consumeStream(): a piece of text of the model. *)
RunSpeaks(r) ==
  /\ stage[r] = "streaming" /\ spoken[r] < MaxText
  /\ spoken' = [spoken EXCEPT ![r] = @ + 1]
  /\ UNCHANGED <<stage, called, overlapped>>
  /\ Emit(r, "delta")

(* tool.start, and tool.end unless the tool throws. *)
RunTool(r) ==
  /\ UNCHANGED <<spoken, overlapped>>
  /\ \/ /\ stage[r] = "streaming" /\ called[r] < MaxTools
        /\ stage' = [stage EXCEPT ![r] = "tool"]
        /\ called' = [called EXCEPT ![r] = @ + 1]
        /\ Emit(r, "start")
     \/ /\ stage[r] = "tool"
        /\ stage' = [stage EXCEPT ![r] = "streaming"]
        /\ UNCHANGED called
        /\ Emit(r, "end")

RunDelivers(r) ==
  /\ stage[r] = "streaming"
  /\ stage' = [stage EXCEPT ![r] = "delivered"]
  /\ UNCHANGED <<spoken, called, overlapped>>
  /\ Emit(r, "deliver")

(* runMessage(): whatever throws, a cancel too, becomes an error event. *)
RunFails(r) ==
  /\ LiveRun(r)
  /\ stage' = [stage EXCEPT ![r] = "failed"]
  /\ UNCHANGED <<spoken, called, overlapped>>
  /\ Emit(r, "error")

-----------------------------------------------------------------------------
(* The screen: one listener per kind of event. *)

(* Mutant: the session of an event is not looked at. *)
Concerns_Everyone(event) == TRUE

(* p.sessionId === sessionIdRef.current *)
Concerns(event) == event.run \in Mine

Push(entry) == transcript' = Append(transcript, entry)

OnDelta(event) ==
  /\ event.kind = "delta"
  /\ streaming' = TRUE
  /\ streamText' = Append(streamText, event.piece)
  /\ UNCHANGED transcript

(* A run that begins wipes what an earlier one has left, and one that       *)
(* delivers turns it into an entry; the other stages change nothing.        *)
OnStage(event) ==
  /\ event.kind \in {"intake", "deliver"}
  /\ streaming' = (event.kind = "intake")
  /\ streamText' = <<>>
  /\ IF event.kind = "deliver" /\ streamText # <<>>
     THEN Push([kind |-> "assistant", text |-> streamText])
     ELSE UNCHANGED transcript

OnTool(event) ==
  /\ event.kind \in {"start", "end"}
  /\ Push([kind |-> "tool", text |-> <<>>])
  /\ UNCHANGED <<streaming, streamText>>

(* An error leaves the text and the cursor as they are. *)
OnError(event) ==
  /\ event.kind = "error"
  /\ Push([kind |-> "system", text |-> <<>>])
  /\ UNCHANGED <<streaming, streamText>>

ScreenHears ==
  /\ wire # <<>>
  /\ wire' = Tail(wire)
  /\ LET event == Head(wire) IN
     \/ ~Concerns(event) /\ UNCHANGED <<streamText, streaming, transcript>>
     \/ Concerns(event) /\ (OnDelta(event) \/ OnStage(event) \/ OnTool(event) \/ OnError(event))
  /\ UNCHANGED <<stage, spoken, called, overlapped>>

ScreenNext ==
  \/ \E r \in ScreenRun : \/ RunBegins(r) \/ RunSpeaks(r) \/ RunTool(r)
                          \/ RunDelivers(r) \/ RunFails(r)
  \/ ScreenHears

ScreenSpec == ScreenInit /\ [][ScreenNext]_screenVars

-----------------------------------------------------------------------------
(* The places of the answers in the transcript. *)
Answers == {n \in DOMAIN transcript : transcript[n].kind = "assistant"}
Delivered(r) == r \in Mine /\ stage[r] = "delivered" /\ spoken[r] > 0

(* As long as the runs of a session follow one another, an answer in the    *)
(* transcript is the whole text of one delivered run, and when all messages *)
(* have arrived every delivered run that spoke has its answer, once: no     *)
(* text of another session, of a failed run or of an earlier one gets in.   *)
AnswersAreWhole ==
  ~overlapped =>
    /\ \A n \in Answers : \E r \in ScreenRun :
         Delivered(r) /\ transcript[n].text = TextOf(r)
    /\ wire = <<>> => \A r \in ScreenRun : Delivered(r) =>
         \E n \in Answers : /\ transcript[n].text = TextOf(r)
                            /\ \A k \in Answers :
                                 transcript[k].text = TextOf(r) => k = n
=============================================================================
