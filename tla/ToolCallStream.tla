--------------------------- MODULE ToolCallStream ---------------------------
(***************************************************************************)
(* One model turn with tool calls, from the provider's event stream to the *)
(* next request: chat() of packages/providers/src/anthropic.ts and of      *)
(* openai-compat.ts, which give the pieces of a call its id and name, and  *)
(* consumeStream() and the tool loop of packages/agent/src/loop.ts, which  *)
(* put the calls together, run them and keep the history.                  *)
(*                                                                         *)
(* A call is known by its index in the stream; its arguments arrive in     *)
(* pieces.  They parse if all of them did and the model wrote JSON, which  *)
(* it may fail to do.  The stream may end early: both providers take that  *)
(* for its end.  Text and usage are left out.                              *)
(***************************************************************************)
EXTENDS Naturals, Sequences, FiniteSets

CONSTANTS
  Call,       \* the calls the model makes, by index
  MaxPieces,  \* bound: pieces of a call's arguments
  NoId        \* the id of a call whose server sends none

ASSUME StreamAssumption ==
  /\ Call \subseteq Nat /\ IsFiniteSet(Call)
  /\ NoId \notin Call
  /\ MaxPieces \in Nat

Provider == {"anthropic", "openai-compat"}

VARIABLES
  provider,   \* which of the two providers the run uses
  pieces,     \* the number of pieces of each call
  named,      \* the calls whose server sends an id with the first piece
  malformed,  \* the calls whose arguments, as the model wrote them, are no JSON
  arrived,    \* the events of a call that have arrived; the first starts it
  toolIds,    \* toolIds or toolCallIds: Map<index, id>
  assembled,  \* consumeStream(): the calls in order, with their pieces
  turn,       \* "streaming", "last", "tools", "requesting", "sent" or "thrown"
  cut,        \* history: the stream ended before its calls were complete
  next,       \* the place in assembled of the call that is up
  results,    \* the tool messages of the turn: the ids they answer
  ran         \* history: the calls that ran, and whether with their arguments

streamVars == <<provider, pieces, named, malformed, arrived, toolIds, assembled, turn,
                cut, next, results, ran>>

Id(c) == IF c \in named THEN c ELSE NoId
Whole(c) == arrived[c] = pieces[c] + 1

StreamInit ==
  /\ provider \in Provider
  /\ pieces \in [Call -> 0..MaxPieces]
  /\ named \in SUBSET Call
  /\ malformed \in SUBSET {c \in Call : pieces[c] > 0}
  /\ arrived = [c \in Call |-> 0]
  /\ toolIds = [c \in Call |-> NoId]
  /\ assembled = <<>>
  /\ turn = "streaming"
  /\ cut = FALSE
  /\ next = 1
  /\ results = <<>>
  /\ ran = {}

-----------------------------------------------------------------------------
(* consumeStream() knows a call by its id. *)
SameCall(entry, id) == entry.id = id

(* One chunk {toolCall: {id, argsDelta}}: appended to the call of that id,  *)
(* or the first of a new one.  A start has no arguments to add.             *)
Accumulate(id, part) ==
  IF \E n \in DOMAIN assembled : SameCall(assembled[n], id)
  THEN assembled' = [n \in DOMAIN assembled |->
         IF SameCall(assembled[n], id)
         THEN [assembled[n] EXCEPT !.args = @ \o part] ELSE assembled[n]]
  ELSE assembled' = Append(assembled, [id |-> id, args |-> part])

(* content_block_start: the id is kept for the deltas, nothing is yielded.  *)
BlockStart(c) ==
  /\ toolIds' = [toolIds EXCEPT ![c] = Id(c)]
  /\ UNCHANGED assembled

(* Mutant: the ids of earlier chunks are not remembered. *)
DeltaId_NoMemory(c) == IF arrived[c] = 0 THEN Id(c) ELSE NoId

(* The id a chunk of tool_calls is yielded with: the one its index had. *)
DeltaId(c) == IF arrived[c] = 0 THEN Id(c) ELSE toolIds[c]

(* A chunk of tool_calls, the first one with the id: yielded as it comes.   *)
ToolCallsDelta(c, part) ==
  /\ toolIds' = [toolIds EXCEPT ![c] = IF arrived[c] = 0 THEN Id(c) ELSE @]
  /\ Accumulate(DeltaId(c), part)

(* content_block_delta with input_json_delta. *)
InputJsonDelta(c, part) ==
  /\ Accumulate(toolIds[c], part)
  /\ UNCHANGED toolIds

(* The next event of call c; events of different calls may interleave. *)
StreamEvent(c) ==
  /\ turn = "streaming" /\ ~Whole(c)
  /\ LET part == IF arrived[c] = 0 THEN <<>> ELSE << <<c, arrived[c]>> >> IN
     \/ provider = "anthropic" /\ arrived[c] = 0 /\ BlockStart(c)
     \/ provider = "anthropic" /\ arrived[c] > 0 /\ InputJsonDelta(c, part)
     \/ provider = "openai-compat" /\ ToolCallsDelta(c, part)
  /\ arrived' = [arrived EXCEPT ![c] = @ + 1]
  /\ UNCHANGED <<provider, pieces, named, malformed, turn, cut, next, results, ran>>

(* parseSSE() ends, at the end of the stream or with the connection; a turn *)
(* without a call is the last one.                                          *)
StreamEnd ==
  /\ turn = "streaming"
  /\ cut' = \E c \in Call : ~Whole(c)
  /\ turn' = IF assembled = <<>> THEN "last" ELSE "tools"
  /\ UNCHANGED <<provider, pieces, named, malformed, arrived, toolIds, assembled, next,
                 results, ran>>

-----------------------------------------------------------------------------
(* runModelToolTurn(): the calls one after the other. *)

Current == assembled[next]
ArgsOf(c) == [k \in 1..pieces[c] |-> <<c, k>>]

(* The arguments parse when they are all the pieces of one call, in order,  *)
(* and the model wrote JSON.                                                *)
Parses(entry) == \E c \in Call \ malformed : entry.args = ArgsOf(c)

AnswerTo(entry) == <<entry.id>>

(* Not registered, or denied: the model is told so. *)
CallRefused ==
  /\ turn = "tools" /\ next <= Len(assembled)
  /\ results' = results \o AnswerTo(Current)
  /\ next' = next + 1
  /\ UNCHANGED <<provider, pieces, named, malformed, arrived, toolIds, assembled, turn, cut,
                 ran>>

(* parseArgs() makes {} of arguments that do not parse, and the tool runs.  *)
CallRuns ==
  /\ turn = "tools" /\ next <= Len(assembled)
  /\ ran' = ran \cup {<<Current.id, IF Parses(Current) THEN "args" ELSE "{}">>}
  /\ results' = Append(results, Current.id)
  /\ next' = next + 1
  /\ UNCHANGED <<provider, pieces, named, malformed, arrived, toolIds, assembled, turn, cut>>

(* A tool that throws ends the run. *)
CallThrows ==
  /\ turn = "tools" /\ next <= Len(assembled)
  /\ turn' = "thrown"
  /\ UNCHANGED <<provider, pieces, named, malformed, arrived, toolIds, assembled, cut, next,
                 results, ran>>

ToolsDone ==
  /\ turn = "tools" /\ next > Len(assembled)
  /\ turn' = "requesting"
  /\ UNCHANGED <<provider, pieces, named, malformed, arrived, toolIds, assembled, cut, next,
                 results, ran>>

(* anthropic.ts parses the arguments of the calls in the history, and       *)
(* throws when one does not parse.  No arguments are {}.                    *)
HistoryRefused ==
  /\ provider = "anthropic"
  /\ \E n \in DOMAIN assembled : assembled[n].args # <<>> /\ ~Parses(assembled[n])

(* The history goes back as it is. *)
NextRequest ==
  /\ turn = "requesting"
  /\ turn' = IF HistoryRefused THEN "thrown" ELSE "sent"
  /\ UNCHANGED <<provider, pieces, named, malformed, arrived, toolIds, assembled, cut, next,
                 results, ran>>

StreamNext ==
  \/ \E c \in Call : StreamEvent(c)
  \/ StreamEnd \/ CallRefused \/ CallRuns \/ CallThrows \/ ToolsDone \/ NextRequest

StreamSpec == StreamInit /\ [][StreamNext]_streamVars

-----------------------------------------------------------------------------
(* The server kept to its part: ids that tell the calls apart, and for      *)
(* anthropic.ts at least one delta per call, as it yields nothing before.   *)
Told(c) == \/ c \in named
           \/ Call = {c}
Yielded(c) == provider = "openai-compat" \/ pieces[c] > 0

(* However the pieces of the calls interleave, a stream that was not cut    *)
(* short gives back the calls of the model, each once and with its          *)
(* arguments in order (loop.ts:57).                                         *)
CallsAreReassembled ==
  turn # "streaming" /\ ~cut /\ (\A c \in Call : Told(c) /\ Yielded(c)) =>
    /\ Len(assembled) = Cardinality(Call)
    /\ \A c \in Call :
         \E n \in DOMAIN assembled : assembled[n] = [id |-> Id(c), args |-> ArgsOf(c)]

(* A request that goes out answers every call of the history before it, in  *)
(* order and once, whether the call ran, was denied or is unknown: both     *)
(* APIs refuse a history with a call left open.                             *)
HistoryIsPaired ==
  turn \in {"requesting", "sent"} =>
    results = [n \in DOMAIN assembled |-> assembled[n].id]

(* A tool runs with {} in place of its arguments only if the model wrote no *)
(* JSON for a call of that id, the stream was cut short, or two calls came  *)
(* under one id.                                                            *)
ArgumentsAreTheModels ==
  \A r \in ran : r[2] = "{}" =>
    \/ \E c \in malformed : Id(c) = r[1]
    \/ cut
    \/ r[1] = NoId /\ Cardinality(Call) > 1

(* The calls of the model survive their way through the stream, the tools   *)
(* and the next request: whole, answered, and not taken for other ones.     *)
CallsSurvive == CallsAreReassembled /\ HistoryIsPaired /\ ArgumentsAreTheModels
=============================================================================
