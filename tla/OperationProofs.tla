--------------------------- MODULE OperationProofs ---------------------------
(***************************************************************************)
(* Proofs about what is under way: the shell's process, the tool calls of  *)
(* a stream, the drafts in Gmail's windows and the runs on a screen; and   *)
(* about all operations together, of which one at a time is followed.      *)
(*                                                                         *)
(* A shell call is back in time because the clock does not tick while      *)
(* something is due.  The other three say what the pieces that have come   *)
(* so far make up: the prefix of a call, a window filled in order, the     *)
(* text a run has spoken, to which the wire still adds.                    *)
(***************************************************************************)
EXTENDS MCOperations, StoredStateProofs, SequenceTheorems, NaturalsInduction,
        WellFoundedInduction

(* ------------------------------ a shell call ----------------------------- *)

(* Where the clock can stand, by where the call is. *)
ClockBounds ==
  /\ shell = "checking" => now = 0
  /\ shell = "reading" => now <= ReadDeadline
  /\ shell = "exiting" => now <= exitFrom + Grace /\ exitFrom <= ReadDeadline
  /\ shell = "returned" \/ timedOut \/ now <= Timeout

(* There is a process exactly after the spawn; streams that have been read  *)
(* to their end, or to a deadline at which the timer had fired.             *)
ReadOrKilled ==
  /\ shell = "checking" => proc = "none" /\ ~timedOut
  /\ shell \in {"reading", "exiting"} => proc # "none"
  /\ shell = "exiting" => eof \/ timedOut

(* What a returned call says.                                               *)
ResultIsTrue ==
  shell = "returned" =>
    \/ proc = "none" /\ ~result.ok
    \/ eof /\ ~timedOut /\ (result.ok => proc = "0")
    \/ timedOut /\ ~result.ok

ShellInv ==
  /\ ShellTypeOK
  /\ ClockBounds
  /\ ReadOrKilled
  /\ ResultIsTrue

LEMMA ShellInitially == ShellInit => ShellInv
<1> SUFFICES ASSUME ShellInit PROVE ShellInv
  OBVIOUS
<1>1. result \in [ok : BOOLEAN, code : {"none", "error", "-1", "0", "1"}, timedOut : BOOLEAN]
  BY DEF ShellInit, Pending
<1>2. ShellTypeOK
  <2>1. 0 \in 0 .. Timeout + 4 * Grace
    BY ShellAssumption DEF Grace
  <2> QED
    BY <1>1, <2>1 DEF ShellInit, ShellTypeOK
<1>3. ClockBounds /\ ReadOrKilled /\ ResultIsTrue
  BY ShellAssumption DEF ShellInit, ClockBounds, ReadOrKilled, ResultIsTrue
<1> QED
  BY <1>2, <1>3 DEF ShellInv

LEMMA ShellStep == ShellInv /\ [ShellNext]_shellVars => ShellInv'
<1> SUFFICES ASSUME ShellInv, [ShellNext]_shellVars PROVE ShellInv'
  OBVIOUS
<1> USE ShellAssumption DEF ShellInv, Grace
<1>1. CASE ShellRefused
  <2>1. /\ shell = "checking" /\ shell' = "returned"
        /\ result' = [ok |-> FALSE, code |-> "error", timedOut |-> FALSE]
        /\ UNCHANGED <<now, proc, writers, eof, timedOut, exitFrom>>
    BY <1>1 DEF ShellRefused, Pending
  <2>2. result' \in [ok : BOOLEAN, code : {"none", "error", "-1", "0", "1"},
                     timedOut : BOOLEAN]
    BY <2>1
  <2>3. ShellTypeOK'
    BY <2>1, <2>2 DEF ShellTypeOK
  <2>4. ClockBounds' /\ ReadOrKilled' /\ ResultIsTrue'
    BY <2>1 DEF ShellTypeOK, ClockBounds, ReadOrKilled, ResultIsTrue
  <2> QED
    BY <2>3, <2>4
<1>2. CASE Spawn
  BY <1>2 DEF Spawn, ShellTypeOK, ClockBounds, ReadOrKilled, ResultIsTrue, ReadDeadline
<1>3. CASE ProcExits
  BY <1>3 DEF ProcExits, ShellTypeOK, ClockBounds, ReadOrKilled, ResultIsTrue, ReadDeadline
<1>4. CASE ClosePipe
  BY <1>4 DEF ClosePipe, ShellTypeOK, ClockBounds, ReadOrKilled, ResultIsTrue, ReadDeadline
<1>5. CASE TimerFires
  BY <1>5 DEF TimerFires, TimerDue, ShellTypeOK, ClockBounds, ReadOrKilled, ResultIsTrue,
              ReadDeadline
<1>6. CASE StopReading
  <2>1. /\ shell = "reading" /\ shell' = "exiting" /\ exitFrom' = now
        /\ writers = {} \/ now >= ReadDeadline
        /\ timedOut \/ now < Timeout
        /\ eof' = (writers = {})
        /\ UNCHANGED <<now, proc, writers, timedOut, result>>
    <3>1. now >= Timeout \/ now < Timeout
      BY DEF ShellTypeOK
    <3> QED
      BY <1>6, <3>1 DEF StopReading, ReadEnds, TimerDue
  <2>2. eof' \/ timedOut'
    <3>1. CASE writers = {}
      BY <2>1, <3>1, Zenon
    <3>2. CASE now >= ReadDeadline
      BY <2>1, <3>2 DEF ReadDeadline, ShellTypeOK
    <3> QED
      BY <2>1, <3>1, <3>2
  <2>3. eof' \in BOOLEAN
    BY <2>1
  <2>4. ShellTypeOK'
    BY <2>1, <2>3 DEF ShellTypeOK
  <2>5. ClockBounds'
    BY <2>1 DEF ShellTypeOK, ClockBounds, ReadDeadline
  <2>6. ReadOrKilled' /\ ResultIsTrue'
    BY <2>1, <2>2 DEF ReadOrKilled, ResultIsTrue
  <2> QED
    BY <2>4, <2>5, <2>6
<1>7. CASE ShellReturns
  <2>1. /\ shell = "exiting" /\ shell' = "returned" /\ result' = ResultOf
        /\ UNCHANGED <<now, proc, writers, eof, timedOut, exitFrom>>
    BY <1>7 DEF ShellReturns, ExitKnown
  <2>2. /\ ResultOf.ok \in BOOLEAN /\ ResultOf.timedOut = timedOut
        /\ ResultOf.code \in {"-1", "0", "1"}
        /\ ResultOf.ok => ~timedOut /\ proc = "0"
    BY <2>1 DEF ResultOf, ShellTypeOK, ReadOrKilled
  <2>3. ResultOf \in [ok : BOOLEAN, code : {"none", "error", "-1", "0", "1"},
                      timedOut : BOOLEAN]
    BY <2>2 DEF ResultOf, ShellTypeOK
  <2> QED
    BY <2>1, <2>2, <2>3 DEF ShellTypeOK, ClockBounds, ReadOrKilled, ResultIsTrue
<1>8. CASE TickShell
  <2>1. /\ shell \in {"reading", "exiting"} /\ ~TimerDue /\ ~ReadEnds /\ ~ExitKnown
        /\ now <= Timeout + 3 * Grace /\ now' = now + 1
        /\ UNCHANGED <<proc, writers, eof, timedOut, shell, exitFrom, result>>
    BY <1>8 DEF TickShell
  <2>2. ClockBounds'
    BY <2>1 DEF ShellTypeOK, ClockBounds, TimerDue, ReadEnds, ExitKnown, ReadDeadline
  <2>3. ShellTypeOK' /\ ReadOrKilled' /\ ResultIsTrue'
    BY <2>1 DEF ShellTypeOK, ReadOrKilled, ResultIsTrue
  <2> QED
    BY <2>2, <2>3
<1>9. CASE UNCHANGED shellVars
  BY <1>9 DEF shellVars, ShellTypeOK, ClockBounds, ReadOrKilled, ResultIsTrue, ReadDeadline
<1> QED
  BY <1>1, <1>2, <1>3, <1>4, <1>5, <1>6, <1>7, <1>8, <1>9 DEF ShellNext

LEMMA ShellInvariant == ShellSpec => []ShellInv
BY ShellInitially, ShellStep, PTL DEF ShellSpec

-----------------------------------------------------------------------------
(* The call of the tool is back two grace periods after its timeout,        *)
(* whoever holds the pipes and whatever ignores the signal (shell.ts).      *)
THEOREM BackInTime == ShellSpec => []ShellReturnsInTime
<1>1. ShellInv => ShellReturnsInTime
  BY ShellAssumption
     DEF ShellInv, ShellTypeOK, ClockBounds, ShellReturnsInTime, ReadDeadline, Grace
<1> QED
  BY <1>1, ShellInvariant, PTL

(* A result that is ok is the whole output of a process that ended with 0. *)
THEOREM OkMeansWhole == ShellSpec => []OkIsWholeOutput
<1>1. ShellInv => OkIsWholeOutput
  BY DEF ShellInv, ResultIsTrue, OkIsWholeOutput
<1> QED
  BY <1>1, ShellInvariant, PTL

(* A process that is left running was sent the signal or looked finished. *)
THEOREM LeftBehindKilled == ShellSpec => []LeftBehindWasSignalled
<1>1. ShellInv => LeftBehindWasSignalled
  BY DEF ShellInv, ResultIsTrue, LeftBehindWasSignalled
<1> QED
  BY <1>1, ShellInvariant, PTL

(* Together: a shell call is back in time and tells the truth. *)
THEOREM ShellCallsAreSound == ShellSpec => []ShellSound
BY BackInTime, OkMeansWhole, LeftBehindKilled, PTL DEF ShellSound

(* ----------------------- the tool calls of a stream ---------------------- *)

(* The pieces of a call that have arrived: a start has none. *)
Got(c) == [k \in 1..(arrived[c] - 1) |-> <<c, k>>]

(* The first event after which a call is known to consumeStream(). *)
Begun(c) == arrived[c] >= (IF provider = "anthropic" THEN 2 ELSE 1)

Entry == [id : {Id(c) : c \in Call}, args : Seq(Call \X Nat)]

StreamTypes ==
  /\ provider \in Provider
  /\ pieces \in [Call -> 0..MaxPieces]
  /\ named \in SUBSET Call
  /\ arrived \in [Call -> Nat]
  /\ \A c \in Call : arrived[c] <= pieces[c] + 1
  /\ toolIds \in [Call -> Call \cup {NoId}]
  /\ assembled \in Seq(Entry)
  /\ turn \in {"streaming", "last", "tools", "requesting", "sent", "thrown"}
  /\ cut \in BOOLEAN
  /\ next \in Nat

(* A call has one entry under its id from its first chunk on, and unless    *)
(* another call comes under that id too, the entry has its pieces in order. *)
CallsInOrder ==
  /\ \A c \in Call : arrived[c] > 0 => toolIds[c] = Id(c)
  /\ \A m, n \in DOMAIN assembled : assembled[m].id = assembled[n].id => m = n
  /\ \A c \in Call : Begun(c) => \E n \in DOMAIN assembled : assembled[n].id = Id(c)
  /\ \A n \in DOMAIN assembled : \A c \in Call :
       Told(c) /\ assembled[n].id = Id(c) => Begun(c) /\ assembled[n].args = Got(c)

AnswersInOrder ==
  /\ next \in 1..(Len(assembled) + 1)
  /\ results = [n \in 1..(next - 1) |-> assembled[n].id]
  /\ turn = "streaming" => next = 1 /\ ran = {}
  /\ turn \in {"requesting", "sent"} => next = Len(assembled) + 1
  /\ turn # "streaming" /\ ~cut => \A c \in Call : Whole(c)

StreamInv == StreamTypes /\ CallsInOrder /\ AnswersInOrder /\ ArgumentsAreTheModels

(* Calls that can be told apart have ids of their own.                      *)
LEMMA OwnId ==
  ASSUME NEW c \in Call, NEW d \in Call, Told(c), Id(c) = Id(d)
  PROVE  c = d
BY StreamAssumption DEF Told, Id

(* The next piece of a call goes to the end of those it has.                *)
LEMMA NextPiece ==
  ASSUME NEW c \in Call, NEW k \in Nat \ {0}
  PROVE  /\ [i \in 1..(k - 1) |-> <<c, i>>] \in Seq(Call \X Nat)
         /\ << <<c, k>> >> \in Seq(Call \X Nat)
         /\ [i \in 1..(k - 1) |-> <<c, i>>] \o << <<c, k>> >> = [i \in 1..k |-> <<c, i>>]
         /\ [i \in 1..(k - 1) |-> <<c, i>>] \o <<>> = [i \in 1..(k - 1) |-> <<c, i>>]
<1> DEFINE s == [i \in 1..(k - 1) |-> <<c, i>>]
           t == [i \in 1..k |-> <<c, i>>]
<1>1. /\ s \in Seq(Call \X Nat) /\ Len(s) = k - 1
      /\ t \in Seq(Call \X Nat) /\ Len(t) = k
      /\ << <<c, k>> >> \in Seq(Call \X Nat) /\ <<c, k>> \in Call \X Nat
  OBVIOUS
<1>2. /\ \A i \in 1..(k - 1) : s[i] = <<c, i>>
      /\ \A i \in 1..k : t[i] = <<c, i>>
  OBVIOUS
<1> HIDE DEF s, t
<1>3. s \o << <<c, k>> >> = Append(s, <<c, k>>)
  BY <1>1, AppendIsConcat
<1>4. /\ Append(s, <<c, k>>) \in Seq(Call \X Nat) /\ Len(Append(s, <<c, k>>)) = k
      /\ \A i \in 1..(k - 1) : Append(s, <<c, k>>)[i] = s[i]
      /\ Append(s, <<c, k>>)[k] = <<c, k>>
  BY <1>1, AppendProperties
<1>5. \A i \in 1..k : Append(s, <<c, k>>)[i] = t[i]
  <2>1. \A i \in 1..k : i \in 1..(k - 1) \/ i = k
    OBVIOUS
  <2> QED
    BY <1>2, <1>4, <2>1
<1>6. s \o << <<c, k>> >> = t
  BY <1>1, <1>3, <1>4, <1>5, SeqEqual
<1>7. s \o <<>> = s
  BY <1>1, ConcatEmptySeq
<1> QED
  BY <1>1, <1>6, <1>7 DEF s, t

(* What a chunk of call c changes: the entry under its id, or a new one.    *)
Grown(c, part) ==
  /\ assembled' \in Seq(Entry)
  /\ \A m, n \in DOMAIN assembled' : assembled'[m].id = assembled'[n].id => m = n
  /\ \A n \in DOMAIN assembled : \E m \in DOMAIN assembled' : assembled'[m].id = assembled[n].id
  /\ \E m \in DOMAIN assembled' : assembled'[m].id = Id(c)
  /\ \A m \in DOMAIN assembled' :
       IF assembled'[m].id # Id(c) THEN m \in DOMAIN assembled /\ assembled'[m] = assembled[m]
       ELSE \/ /\ m \in DOMAIN assembled /\ assembled[m].id = Id(c)
               /\ assembled'[m].args = assembled[m].args \o part
            \/ /\ \A n \in DOMAIN assembled : assembled[n].id # Id(c)
               /\ assembled'[m].args = part

(* What an event does to the entries: one of them grows, or one is added.   *)
LEMMA Accumulated ==
  ASSUME StreamTypes, CallsInOrder, NEW c \in Call, NEW part \in Seq(Call \X Nat),
         Accumulate(Id(c), part)
  PROVE  Grown(c, part)
<1>1. /\ assembled \in Seq(Entry) /\ DOMAIN assembled = 1..Len(assembled) /\ Len(assembled) \in Nat
      /\ \A n \in DOMAIN assembled : assembled[n] \in Entry
  BY DEF StreamTypes
<1>2. \A e \in Entry : e.id \in {Id(d) : d \in Call} /\ e.args \in Seq(Call \X Nat)
  BY DEF Entry
<1>3. CASE \E n \in DOMAIN assembled : assembled[n].id = Id(c)
  <2>1. assembled' = [n \in DOMAIN assembled |->
          IF assembled[n].id = Id(c) THEN [assembled[n] EXCEPT !.args = assembled[n].args \o part]
          ELSE assembled[n]]
    BY <1>3 DEF Accumulate, SameCall
  <2>2. \A n \in DOMAIN assembled : assembled[n].id = Id(c) =>
          /\ assembled'[n] \in Entry /\ assembled'[n].id = Id(c)
          /\ assembled'[n].args = assembled[n].args \o part
    <3> SUFFICES ASSUME NEW n \in DOMAIN assembled, assembled[n].id = Id(c)
                 PROVE  /\ assembled'[n] \in Entry /\ assembled'[n].id = Id(c)
                        /\ assembled'[n].args = assembled[n].args \o part
      OBVIOUS
    <3>1. assembled'[n] = [assembled[n] EXCEPT !.args = assembled[n].args \o part]
      BY <2>1
    <3>2. assembled[n] \in Entry /\ assembled[n].args \in Seq(Call \X Nat)
      BY <1>1, <1>2
    <3>3. assembled[n].args \o part \in Seq(Call \X Nat)
      BY <3>2, ConcatProperties
    <3> QED
      BY <3>1, <3>2, <3>3 DEF Entry
  <2>3. \A n \in DOMAIN assembled : assembled[n].id # Id(c) => assembled'[n] = assembled[n]
    BY <2>1
  <2>4. DOMAIN assembled' = DOMAIN assembled /\ assembled' = [n \in 1..Len(assembled) |-> assembled'[n]]
    BY <1>1, <2>1
  <2>5. \A n \in DOMAIN assembled : assembled'[n] \in Entry /\ assembled'[n].id = assembled[n].id
    BY <1>1, <2>2, <2>3
  <2>6. assembled' \in Seq(Entry)
    <3>1. assembled' \in [1..Len(assembled) -> Entry]
      BY <1>1, <2>4, <2>5
    <3> QED
      BY <1>1, <3>1
  <2>7. \A m, n \in DOMAIN assembled' : assembled'[m].id = assembled'[n].id => m = n
    BY <2>4, <2>5 DEF CallsInOrder
  <2>8. /\ \A n \in DOMAIN assembled : \E m \in DOMAIN assembled' : assembled'[m].id = assembled[n].id
        /\ \E m \in DOMAIN assembled' : assembled'[m].id = Id(c)
    BY <1>3, <2>4, <2>5
  <2>9. \A m \in DOMAIN assembled' :
          IF assembled'[m].id # Id(c) THEN m \in DOMAIN assembled /\ assembled'[m] = assembled[m]
          ELSE /\ m \in DOMAIN assembled /\ assembled[m].id = Id(c)
               /\ assembled'[m].args = assembled[m].args \o part
    BY <2>2, <2>3, <2>4, <2>5
  <2> QED
    BY <2>6, <2>7, <2>8, <2>9 DEF Grown
<1>4. CASE ~\E n \in DOMAIN assembled : assembled[n].id = Id(c)
  <2> DEFINE e == [id |-> Id(c), args |-> part]
  <2>1. assembled' = Append(assembled, e) /\ e \in Entry
    BY <1>4 DEF Accumulate, SameCall, Entry
  <2>2. /\ assembled' \in Seq(Entry) /\ DOMAIN assembled' = 1..(Len(assembled) + 1)
        /\ \A n \in 1..Len(assembled) : assembled'[n] = assembled[n]
        /\ assembled'[Len(assembled) + 1] = e
    BY <1>1, <2>1, AppendProperties
  <2>3. \A m \in DOMAIN assembled' : m \in DOMAIN assembled \/ m = Len(assembled) + 1
    BY <1>1, <2>2
  <2>4. e.id = Id(c) /\ e.args = part
    OBVIOUS
  <2> HIDE DEF e
  <2>5. /\ \A n \in DOMAIN assembled : n \in DOMAIN assembled' /\ assembled'[n] = assembled[n]
        /\ Len(assembled) + 1 \in DOMAIN assembled'
    BY <1>1, <2>2
  <2>6. \A m, n \in DOMAIN assembled' : assembled'[m].id = assembled'[n].id => m = n
    BY <1>4, <2>2, <2>3, <2>4, <2>5 DEF CallsInOrder
  <2> QED
    BY <1>4, <2>2, <2>3, <2>4, <2>5, <2>6 DEF Grown
<1> QED
  BY <1>3, <1>4

(* An event of the stream keeps the calls in order.                         *)
LEMMA EventStep ==
  ASSUME StreamInv, NEW c \in Call, StreamEvent(c)
  PROVE  StreamInv'
<1> USE DEF StreamInv
<1>1. /\ turn = "streaming" /\ ~Whole(c) /\ arrived' = [arrived EXCEPT ![c] = arrived[c] + 1]
      /\ UNCHANGED <<provider, pieces, named, malformed, turn, cut, next, results, ran>>
  BY DEF StreamEvent
<1>2. /\ arrived'[c] = arrived[c] + 1 /\ \A d \in Call \ {c} : arrived'[d] = arrived[d]
      /\ arrived' \in [Call -> Nat] /\ arrived[c] \in Nat
      /\ \A d \in Call : arrived'[d] <= pieces[d] + 1
  BY <1>1 DEF StreamTypes, Whole
<1>3. \A d \in Call : Id(d)' = Id(d) /\ (Told(d)' <=> Told(d)) /\ Id(d) \in Call \cup {NoId}
  BY <1>1 DEF Id, Told
<1>4. Entry' = Entry
  BY <1>1 DEF Entry, Id
<1> DEFINE part == IF arrived[c] = 0 THEN <<>> ELSE << <<c, arrived[c]>> >>
<1>6. part \in Seq(Call \X Nat)
  BY <1>2, NextPiece, EmptySeq
<1>7. \/ provider = "anthropic" /\ arrived[c] = 0 /\ toolIds' = [toolIds EXCEPT ![c] = Id(c)] /\ UNCHANGED assembled
      \/ provider = "anthropic" /\ arrived[c] > 0 /\ Accumulate(Id(c), part) /\ UNCHANGED toolIds
      \/ provider = "openai-compat" /\ Accumulate(Id(c), part)
           /\ toolIds' = [toolIds EXCEPT ![c] = IF arrived[c] = 0 THEN Id(c) ELSE toolIds[c]]
  <2>1. arrived[c] > 0 => toolIds[c] = Id(c)
    BY DEF CallsInOrder
  <2>2. arrived[c] = 0 \/ arrived[c] > 0
    BY <1>2
  <2> QED
    BY <2>1, <2>2 DEF StreamEvent, BlockStart, InputJsonDelta, ToolCallsDelta, DeltaId
<1> HIDE DEF part
<1>8. /\ toolIds' \in [Call -> Call \cup {NoId}]
      /\ \A d \in Call : arrived'[d] > 0 => toolIds'[d] = Id(d)
  <2>1. toolIds \in [Call -> Call \cup {NoId}] /\ \A d \in Call : arrived[d] > 0 => toolIds[d] = Id(d)
    BY DEF StreamTypes, CallsInOrder
  <2>2. arrived[c] = 0 \/ arrived[c] > 0
    BY <1>2
  <2> QED
    BY <1>2, <1>3, <1>7, <2>1, <2>2
<1>9. CASE provider = "anthropic" /\ arrived[c] = 0 /\ UNCHANGED assembled
  <2>1. \A d \in Call : Begun(d)' <=> Begun(d)
    BY <1>1, <1>2, <1>9 DEF Begun, StreamTypes
  <2>2. \A d \in Call : Begun(d) => Got(d)' = Got(d)
    BY <1>2, <1>9 DEF Begun, Got
  <2>3. CallsInOrder'
    BY <1>3, <1>8, <1>9, <2>1, <2>2 DEF CallsInOrder
  <2>4. StreamTypes'
    BY <1>1, <1>2, <1>4, <1>8, <1>9 DEF StreamTypes
  <2> QED
    BY <1>1, <1>9, <2>3, <2>4 DEF AnswersInOrder, ArgumentsAreTheModels, Id
<1>10. CASE /\ Accumulate(Id(c), part)
            /\ provider = "openai-compat" \/ (provider = "anthropic" /\ arrived[c] > 0)
  <2>1. Grown(c, part)
    BY <1>6, <1>10, Accumulated
  <2>2. Begun(c)' /\ \A d \in Call : (Begun(d)' <=> Begun(d) \/ d = c)
    BY <1>1, <1>2, <1>10 DEF Begun, StreamTypes
  <2>3. \A d \in Call \ {c} : Got(d)' = Got(d)
    BY <1>2 DEF Got
  <2>4. \A d \in Call : Begun(d)' => \E n \in DOMAIN assembled' : assembled'[n].id = Id(d)
    BY <2>1, <2>2 DEF Grown, CallsInOrder
  <2>5. ASSUME NEW n \in DOMAIN assembled', NEW d \in Call, Told(d), assembled'[n].id = Id(d)
        PROVE  Begun(d)' /\ assembled'[n].args = Got(d)'
    <3>1. CASE d # c
      <4>1. assembled'[n].id # Id(c)
        BY <2>5, <3>1, OwnId
      <4>2. n \in DOMAIN assembled /\ assembled'[n] = assembled[n]
        BY <2>1, <4>1 DEF Grown
      <4>3. Begun(d) /\ assembled[n].args = Got(d)
        BY <2>5, <4>2 DEF CallsInOrder
      <4> QED
        BY <2>2, <2>3, <3>1, <4>2, <4>3
    <3>2. CASE d = c
      <4>1. CASE n \in DOMAIN assembled /\ assembled[n].id = Id(c)
                 /\ assembled'[n].args = assembled[n].args \o part
        <5>1. Begun(c) /\ assembled[n].args = Got(c)
          BY <2>5, <3>2, <4>1 DEF CallsInOrder
        <5>2. arrived[c] \in Nat \ {0} /\ part = << <<c, arrived[c]>> >>
          BY <1>2, <5>1 DEF Begun, part
        <5>3. Got(c) \o part = Got(c)'
          <6>1. Got(c)' = [i \in 1..arrived[c] |-> <<c, i>>]
            BY <1>2 DEF Got
          <6> QED
            BY <5>2, <6>1, NextPiece DEF Got
        <5> QED
          BY <2>2, <3>2, <4>1, <5>1, <5>3
      <4>2. CASE /\ \A m \in DOMAIN assembled : assembled[m].id # Id(c)
                 /\ assembled'[n].args = part
        <5>1. ~Begun(c)
          BY <4>2 DEF CallsInOrder
        <5>2. CASE arrived[c] = 0
          <6>1. part = <<>> /\ Got(c)' = <<>>
            <7>1. Got(c)' = [i \in 1..0 |-> <<c, i>>]
              BY <1>2, <5>2 DEF Got
            <7> QED
              BY <5>2, <7>1 DEF part
          <6> QED
            BY <2>2, <3>2, <4>2, <6>1
        <5>3. CASE arrived[c] # 0
          <6>1. arrived[c] = 1
            BY <1>2, <1>10, <5>1, <5>3 DEF Begun
          <6>2. part = << <<c, 1>> >> /\ Got(c)' = << <<c, 1>> >>
            <7>1. Got(c)' = [i \in 1..1 |-> <<c, i>>]
              BY <1>2, <6>1 DEF Got
            <7> QED
              BY <6>1, <7>1 DEF part
          <6> QED
            BY <2>2, <3>2, <4>2, <6>2
        <5> QED
          BY <5>2, <5>3
      <4> QED
        BY <2>1, <2>5, <3>2, <4>1, <4>2 DEF Grown
    <3> QED
      BY <3>1, <3>2
  <2>6. CallsInOrder'
    BY <1>3, <1>8, <2>1, <2>4, <2>5 DEF CallsInOrder, Grown
  <2>7. StreamTypes'
    BY <1>1, <1>2, <1>4, <1>8, <2>1 DEF StreamTypes, Grown
  <2>8. AnswersInOrder'
    <3>1. next = 1 /\ results = [n \in 1..(next - 1) |-> assembled[n].id] /\ ran = {}
      BY <1>1 DEF AnswersInOrder
    <3>2. results = <<>> /\ [n \in 1..(1 - 1) |-> assembled'[n].id] = <<>>
      BY <3>1
    <3>3. Len(assembled') \in Nat
      BY <2>7 DEF StreamTypes
    <3>4. next' \in 1..(Len(assembled') + 1)
      BY <1>1, <3>1, <3>3
    <3> QED
      BY <1>1, <3>1, <3>2, <3>4 DEF AnswersInOrder
  <2> QED
    BY <1>1, <2>6, <2>7, <2>8 DEF ArgumentsAreTheModels, Id
<1> QED
  BY <1>7, <1>9, <1>10

LEMMA StreamInitially == StreamInit => StreamInv
<1> SUFFICES ASSUME StreamInit PROVE StreamInv
  OBVIOUS
<1>1. StreamTypes
  <2>1. \A c \in Call : arrived[c] = 0 /\ pieces[c] \in Nat /\ 0 <= pieces[c] + 1
    BY StreamAssumption DEF StreamInit
  <2>2. assembled \in Seq(Entry) /\ next \in Nat /\ cut \in BOOLEAN
    BY EmptySeq DEF StreamInit
  <2> QED
    BY <2>1, <2>2 DEF StreamInit, StreamTypes
<1>2. assembled = <<>> /\ Len(assembled) = 0 /\ DOMAIN assembled = {}
  BY DEF StreamInit
<1>3. CallsInOrder
  BY <1>2 DEF StreamInit, CallsInOrder, Begun
<1>4. AnswersInOrder
  <2>1. results = [n \in 1..(1 - 1) |-> assembled[n].id]
    BY DEF StreamInit
  <2> QED
    BY <1>2, <2>1 DEF StreamInit, AnswersInOrder
<1> QED
  BY <1>1, <1>3, <1>4 DEF StreamInv, StreamInit, ArgumentsAreTheModels

(* The answer to the call that is up follows the answers before it.         *)
LEMMA Answered ==
  ASSUME StreamTypes, AnswersInOrder, next <= Len(assembled), next' = next + 1,
         UNCHANGED <<assembled, cut, turn, arrived, pieces>>, turn = "tools",
         results' = Append(results, assembled[next].id)
  PROVE  AnswersInOrder'
<1>1. /\ assembled \in Seq(Entry) /\ Len(assembled) \in Nat /\ DOMAIN assembled = 1..Len(assembled)
      /\ \A n \in 1..Len(assembled) : assembled[n] \in Entry
  BY DEF StreamTypes
<1>2. \A n \in 1..Len(assembled) : assembled[n].id \in {Id(c) : c \in Call}
  BY <1>1 DEF Entry
<1>3. next \in Nat \ {0} /\ next \in 1..Len(assembled)
  BY <1>1 DEF AnswersInOrder
<1> DEFINE ids == {Id(c) : c \in Call}
           s == [n \in 1..(next - 1) |-> assembled[n].id]
           t == [n \in 1..next |-> assembled[n].id]
<1>4. /\ s \in Seq(ids) /\ Len(s) = next - 1 /\ t \in Seq(ids) /\ Len(t) = next
      /\ assembled[next].id \in ids
  BY <1>1, <1>2, <1>3
<1>5. (\A n \in 1..(next - 1) : s[n] = assembled[n].id) /\ \A n \in 1..next : t[n] = assembled[n].id
  OBVIOUS
<1>6. results = s
  BY DEF AnswersInOrder
<1> HIDE DEF s, t, ids
<1>7. /\ results' \in Seq(ids) /\ Len(results') = next
      /\ \A n \in 1..(next - 1) : results'[n] = s[n]
      /\ results'[next] = assembled[next].id
  BY <1>3, <1>4, <1>6, AppendProperties
<1>8. \A n \in 1..next : results'[n] = t[n]
  <2>1. \A n \in 1..next : n \in 1..(next - 1) \/ n = next
    BY <1>3
  <2> QED
    BY <1>3, <1>5, <1>7, <2>1
<1>9. results' = t
  BY <1>4, <1>7, <1>8, SeqEqual
<1>10. results' = [n \in 1..(next' - 1) |-> assembled'[n].id]
  <2>1. next' - 1 = next
    BY <1>3
  <2> QED
    BY <1>9, <2>1 DEF t
<1> QED
  BY <1>1, <1>3, <1>10 DEF AnswersInOrder, Whole

(* An entry of a stream that was whole parses, unless the model wrote no    *)
(* JSON for it, or it has no id and there are several calls.                *)
LEMMA WholeParses ==
  ASSUME StreamInv, turn = "tools", ~cut, NEW n \in DOMAIN assembled, ~Parses(assembled[n])
  PROVE  \/ \E c \in malformed : Id(c) = assembled[n].id
         \/ assembled[n].id = NoId /\ Cardinality(Call) > 1
<1> USE DEF StreamInv
<1>1. PICK c \in Call : assembled[n].id = Id(c)
  <2>1. assembled[n] \in Entry
    BY DEF StreamTypes
  <2> QED
    BY <2>1 DEF Entry
<1>0. SUFFICES ASSUME c \notin malformed PROVE assembled[n].id = NoId /\ Cardinality(Call) > 1
  BY <1>1
<1>2. ~Told(c)
  <2>1. ASSUME Told(c) PROVE FALSE
    <3>1. assembled[n].args = Got(c)
      BY <1>1, <2>1 DEF CallsInOrder
    <3>2. arrived[c] = pieces[c] + 1 /\ pieces[c] \in Nat
      BY DEF AnswersInOrder, Whole, StreamTypes
    <3>3. arrived[c] - 1 = pieces[c]
      BY <3>2
    <3> QED
      BY <1>0, <3>1, <3>3 DEF Parses, ArgsOf, Got
  <2> QED
    BY <2>1
<1>3. Id(c) = NoId /\ Call # {c}
  BY <1>2 DEF Told, Id
<1>4. Cardinality(Call) \in Nat /\ Cardinality(Call) # 0 /\ Cardinality(Call) # 1
  BY <1>3, StreamAssumption, FS_CardinalityType, FS_EmptySet, FS_Singleton
<1> QED
  BY <1>1, <1>3, <1>4

LEMMA StreamStep == StreamInv /\ [StreamNext]_streamVars => StreamInv'
<1> SUFFICES ASSUME StreamInv, [StreamNext]_streamVars PROVE StreamInv'
  OBVIOUS
<1> USE DEF StreamInv
<1>1. ASSUME NEW c \in Call, StreamEvent(c) PROVE StreamInv'
  BY <1>1, EventStep
<1>2. ASSUME UNCHANGED <<provider, pieces, named, malformed, arrived, toolIds, assembled>>
      PROVE  /\ CallsInOrder' /\ Entry' = Entry
             /\ \A c \in Call : Whole(c)' <=> Whole(c)
  BY <1>2 DEF CallsInOrder, Entry, Id, Told, Begun, Got, Whole
<1>3. CASE StreamEnd
  <2>1. /\ turn = "streaming" /\ turn' \in {"last", "tools"}
        /\ cut' = (\E c \in Call : ~Whole(c))
        /\ UNCHANGED <<provider, pieces, named, malformed, arrived, toolIds, assembled, next, results, ran>>
    BY <1>3 DEF StreamEnd
  <2>2. cut' \in BOOLEAN /\ (~cut' => \A c \in Call : Whole(c))
    BY <2>1, Zenon
  <2>3. StreamTypes'
    BY <1>2, <2>1, <2>2 DEF StreamTypes
  <2>4. AnswersInOrder'
    BY <1>2, <2>1, <2>2 DEF AnswersInOrder
  <2> QED
    BY <1>2, <2>1, <2>3, <2>4 DEF AnswersInOrder, ArgumentsAreTheModels, Id
<1>4. CASE CallRefused \/ CallRuns
  <2>1. /\ turn = "tools" /\ next <= Len(assembled) /\ next' = next + 1
        /\ UNCHANGED <<provider, pieces, named, malformed, arrived, toolIds, assembled, turn, cut>>
    BY <1>4 DEF CallRefused, CallRuns
  <2>2. next \in DOMAIN assembled
    BY <2>1 DEF AnswersInOrder, StreamTypes
  <2>3. results' = Append(results, assembled[next].id)
    <3>1. CASE CallRuns
      BY <3>1 DEF CallRuns, Current
    <3>2. CASE CallRefused
      <4> DEFINE ids == {assembled[n].id : n \in DOMAIN assembled}
      <4>1. results \in Seq(ids) /\ assembled[next].id \in ids
        <5>1. results = [n \in 1..(next - 1) |-> assembled[n].id] /\ next - 1 \in Nat
          BY DEF AnswersInOrder, StreamTypes
        <5>2. DOMAIN assembled = 1..Len(assembled) /\ next - 1 <= Len(assembled)
          BY DEF AnswersInOrder, StreamTypes
        <5>3. \A n \in 1..(next - 1) : assembled[n].id \in ids
          BY <5>1, <5>2
        <5> HIDE DEF ids
        <5>4. results \in Seq(ids)
          BY <5>1, <5>3
        <5> QED
          BY <2>2, <5>4 DEF ids
      <4>2. results' = results \o <<assembled[next].id>>
        BY <3>2 DEF CallRefused, Current, AnswerTo
      <4> HIDE DEF ids
      <4> QED
        BY <4>1, <4>2, AppendIsConcat
    <3> QED
      BY <1>4, <3>1, <3>2
  <2>4. AnswersInOrder'
    BY <2>1, <2>3, Answered
  <2>5. StreamTypes'
    BY <1>2, <2>1 DEF StreamTypes
  <2>6. ArgumentsAreTheModels'
    <3>1. CASE CallRefused
      <4>1. ran' = ran
        BY <3>1 DEF CallRefused
      <4> QED
        BY <2>1, <4>1 DEF ArgumentsAreTheModels, Id
    <3>2. CASE CallRuns
      <4> SUFFICES ASSUME NEW r \in ran', r[2] = "{}"
                   PROVE  \/ \E c \in malformed : Id(c) = r[1]
                          \/ cut
                          \/ r[1] = NoId /\ Cardinality(Call) > 1
        BY <2>1 DEF ArgumentsAreTheModels, Id
      <4>1. r \in ran \/ r = <<assembled[next].id, IF Parses(assembled[next]) THEN "args" ELSE "{}">>
        BY <3>2 DEF CallRuns, Current
      <4>2. CASE r \in ran
        BY <4>2 DEF ArgumentsAreTheModels, Id
      <4>3. CASE r = <<assembled[next].id, IF Parses(assembled[next]) THEN "args" ELSE "{}">>
        <5>1. ~Parses(assembled[next]) /\ r[1] = assembled[next].id
          BY <4>3
        <5> QED
          BY <2>1, <2>2, <5>1, WholeParses
      <4> QED
        BY <4>1, <4>2, <4>3
    <3> QED
      BY <1>4, <3>1, <3>2
  <2> QED
    BY <1>2, <2>1, <2>4, <2>5, <2>6
<1>5. CASE CallThrows \/ ToolsDone \/ NextRequest
  <2>1. /\ turn \in {"tools", "requesting"}
        /\ turn' \in {"thrown", "requesting", "sent"}
        /\ turn' \in {"requesting", "sent"} => turn = "requesting" \/ next > Len(assembled)
        /\ UNCHANGED <<provider, pieces, named, malformed, arrived, toolIds, assembled, cut, next, results, ran>>
    BY <1>5 DEF CallThrows, ToolsDone, NextRequest
  <2>2. StreamTypes'
    BY <1>2, <2>1 DEF StreamTypes
  <2>3. AnswersInOrder'
    <3>1. Len(assembled) \in Nat /\ next \in 1..(Len(assembled) + 1)
      BY DEF StreamTypes, AnswersInOrder
    <3>2. next > Len(assembled) => next = Len(assembled) + 1
      BY <3>1
    <3> QED
      BY <1>2, <2>1, <3>1, <3>2 DEF AnswersInOrder
  <2> QED
    BY <1>2, <2>1, <2>2, <2>3 DEF ArgumentsAreTheModels, Id
<1>6. CASE UNCHANGED streamVars
  <2>1. UNCHANGED <<provider, pieces, named, malformed, arrived, toolIds, assembled, turn, cut, next, results, ran>>
    BY <1>6 DEF streamVars
  <2>2. StreamTypes'
    BY <1>2, <2>1 DEF StreamTypes
  <2>3. AnswersInOrder'
    BY <1>2, <2>1 DEF AnswersInOrder
  <2> QED
    BY <1>2, <2>1, <2>2, <2>3 DEF ArgumentsAreTheModels, Id
<1> QED
  BY <1>1, <1>3, <1>4, <1>5, <1>6 DEF StreamNext

(* When the stream was not cut, every call that can be told apart is whole. *)
LEMMA StreamIsWhole ==
  ASSUME StreamInv
  PROVE  CallsSurvive
<1> USE DEF StreamInv
<1>1. CallsAreReassembled
  <2> SUFFICES ASSUME turn # "streaming", ~cut, \A c \in Call : Told(c) /\ Yielded(c)
               PROVE  /\ Len(assembled) = Cardinality(Call)
                      /\ \A c \in Call : \E n \in DOMAIN assembled :
                           assembled[n] = [id |-> Id(c), args |-> ArgsOf(c)]
    BY DEF CallsAreReassembled
  <2>1. /\ Len(assembled) \in Nat /\ DOMAIN assembled = 1..Len(assembled)
        /\ \A n \in DOMAIN assembled : assembled[n] \in Entry
    BY DEF StreamTypes
  <2>2. \A c \in Call : Begun(c) /\ Got(c) = ArgsOf(c)
    <3> SUFFICES ASSUME NEW c \in Call PROVE Begun(c) /\ Got(c) = ArgsOf(c)
      OBVIOUS
    <3>1. arrived[c] = pieces[c] + 1 /\ pieces[c] \in Nat /\ Yielded(c)
      BY DEF AnswersInOrder, Whole, StreamTypes
    <3>2. arrived[c] - 1 = pieces[c]
      BY <3>1
    <3>3. Begun(c)
      BY <3>1 DEF Begun, Yielded
    <3> QED
      BY <3>2, <3>3 DEF Got, ArgsOf
  <2>3. ASSUME NEW c \in Call
        PROVE  \E n \in DOMAIN assembled : assembled[n] = [id |-> Id(c), args |-> ArgsOf(c)]
    <3>1. PICK n \in DOMAIN assembled : assembled[n].id = Id(c)
      BY <2>2 DEF CallsInOrder
    <3>2. assembled[n].args = ArgsOf(c)
      BY <2>2, <3>1 DEF CallsInOrder
    <3>3. assembled[n] = [id |-> assembled[n].id, args |-> assembled[n].args]
      BY <2>1 DEF Entry
    <3> QED
      BY <3>1, <3>2, <3>3
  <2>4. Len(assembled) = Cardinality(Call)
    <3> DEFINE f == [n \in 1..Len(assembled) |-> CHOOSE c \in Call : Id(c) = assembled[n].id]
    <3>1. \A n \in 1..Len(assembled) : \E c \in Call : Id(c) = assembled[n].id
      BY <2>1 DEF Entry
    <3>2. \A n \in 1..Len(assembled) : f[n] \in Call /\ Id(f[n]) = assembled[n].id
      BY <3>1
    <3> HIDE DEF f
    <3>3. f \in [1..Len(assembled) -> Call]
      BY <3>2 DEF f
    <3>4. f \in Injection(1..Len(assembled), Call)
      <4>1. \A m, n \in 1..Len(assembled) : f[m] = f[n] => m = n
        BY <2>1, <3>2 DEF CallsInOrder
      <4> QED
        BY <3>3, <4>1 DEF Injection, IsInjective
    <3>5. f \in Surjection(1..Len(assembled), Call)
      <4>1. ASSUME NEW c \in Call PROVE \E n \in 1..Len(assembled) : f[n] = c
        <5>1. PICK n \in 1..Len(assembled) : assembled[n].id = Id(c)
          BY <2>1, <2>2 DEF CallsInOrder
        <5> QED
          BY <3>2, <5>1, OwnId
      <4> QED
        BY <3>3, <4>1 DEF Surjection
    <3>6. IsFiniteSet(1..Len(assembled)) /\ Cardinality(1..Len(assembled)) = Len(assembled)
      <4>1. /\ 1 \in Int /\ Len(assembled) \in Int
            /\ (IF 1 > Len(assembled) THEN 0 ELSE Len(assembled) - 1 + 1) = Len(assembled)
        BY <2>1
      <4> QED
        BY <4>1, FS_Interval
    <3> QED
      BY <3>4, <3>5, <3>6, StreamAssumption, FS_Bijection DEF Bijection, ExistsBijection
  <2> QED
    BY <2>3, <2>4
<1>2. HistoryIsPaired
  <2> SUFFICES ASSUME turn \in {"requesting", "sent"}
               PROVE  results = [n \in DOMAIN assembled |-> assembled[n].id]
    BY DEF HistoryIsPaired
  <2>1. next - 1 = Len(assembled) /\ DOMAIN assembled = 1..Len(assembled)
    BY DEF StreamTypes, AnswersInOrder
  <2> QED
    BY <2>1 DEF AnswersInOrder
<1> QED
  BY <1>1, <1>2 DEF CallsSurvive

(* The calls of a stream that was not cut short come out whole, each once,  *)
(* every call of the history is answered in order, and a tool runs with {}  *)
(* only if the model wrote no JSON, the stream was cut or calls came        *)
(* without ids (loop.ts:57, loop.ts:73).                                    *)
THEOREM CallsComeThrough == StreamSpec => []CallsSurvive
<1> QED
  BY StreamInitially, StreamStep, StreamIsWhole, PTL DEF StreamSpec

(* --------------------------------- drafts -------------------------------- *)

(* A nonempty set of numbers has a least one. *)
LEMMA LeastNumber ==
  ASSUME NEW S \in SUBSET Nat, S # {}
  PROVE  \E n \in S : \A m \in S : n <= m
<1>1. IsWellFoundedOn({ss \in Nat \X Nat : ss[1] < ss[2]}, Nat)
  BY NatLessThanWellFounded, Zenon DEF OpToRel
<1>2. PICK n \in S : \A m \in S : <<m, n>> \notin {ss \in Nat \X Nat : ss[1] < ss[2]}
  BY <1>1, WFMin, Zenon
<1>3. \A m \in S : ~(m < n)
  BY <1>2
<1> QED
  BY <1>3

Resting == {"idle", "done", "failed"}

(* While every compose has the page to itself: one window at most, and what *)
(* is typed into it is what its compose has typed so far.                   *)
OneWindow == Len(page) + opening <= 1

OneComposes ==
  \A m, n \in Mail : compose[m] \notin Resting /\ compose[n] \notin Resting => m = n

(* The window of a compose under way, or of none, by what it has in it.     *)
Composing(m) ==
  /\ compose[m] \notin Resting => \A i \in DOMAIN page : page[i] \notin touched
  /\ compose[m] \in {"opening", "to"} => \A i \in DOMAIN page : fields[page[i]] = Blank
  /\ compose[m] \in Field => Len(page) = 1 /\ target[m] = page[1]
  /\ compose[m] = "subject" => fields[page[1]] = [Blank EXCEPT !["to"] = m]
  /\ compose[m] = "body" =>
       fields[page[1]] = [Blank EXCEPT !["to"] = m, !["subject"] = m]

AtRestWhole ==
  (\A m \in Mail : compose[m] \in Resting) =>
    \A i \in DOMAIN page :
      IF page[i] \in touched THEN \A m \in Mail : fields[page[i]] # Letter(m)
      ELSE fields[page[i]] = Blank \/ \E m \in Mail : fields[page[i]] = Letter(m)

DraftInv ==
  /\ DraftTypeOK
  /\ calm => /\ OneWindow /\ OneComposes /\ AtRestWhole
             /\ \A m \in Mail : Composing(m)
             /\ CalmMailIsWhole

(* The first match is in the page; of one window at most, it is that window.*)
LEMMA Found ==
  ASSUME DraftTypeOK, NEW f \in Field
  PROVE  /\ PlacesOf(f) # {} => Min(PlacesOf(f)) \in PlacesOf(f)
         /\ FirstWith(f) \in Window \cup {NoWindow}
         /\ FirstWith(f) # NoWindow /\ Len(page) <= 1 => Len(page) = 1 /\ FirstWith(f) = page[1]
<1>1. /\ page \in Seq(Window) /\ DOMAIN page = 1..Len(page) /\ Len(page) \in Nat
      /\ \A i \in DOMAIN page : page[i] \in Window
  BY DEF DraftTypeOK
<1>2. PlacesOf(f) \in SUBSET Nat /\ PlacesOf(f) \subseteq DOMAIN page
  BY <1>1 DEF PlacesOf
<1>3. PlacesOf(f) # {} => Min(PlacesOf(f)) \in PlacesOf(f)
  <2> SUFFICES ASSUME PlacesOf(f) # {} PROVE Min(PlacesOf(f)) \in PlacesOf(f)
    OBVIOUS
  <2>1. \E n \in PlacesOf(f) : \A m \in PlacesOf(f) : n <= m
    BY <1>2, LeastNumber
  <2> QED
    BY <2>1 DEF Min
<1>4. CASE PlacesOf(f) = {}
  BY <1>4 DEF FirstWith
<1>5. CASE PlacesOf(f) # {}
  <2>1. FirstWith(f) = page[Min(PlacesOf(f))] /\ Min(PlacesOf(f)) \in DOMAIN page
    BY <1>2, <1>3, <1>5 DEF FirstWith
  <2>2. Len(page) <= 1 => Len(page) = 1 /\ Min(PlacesOf(f)) = 1
    BY <1>1, <2>1
  <2> QED
    BY <1>1, <1>3, <2>1, <2>2
<1> QED
  BY <1>4, <1>5

(* A sequence without one of its places is shorter by one.                   *)
LEMMA WindowTaken ==
  ASSUME NEW S, NEW s \in Seq(S), NEW i \in 1..Len(s)
  PROVE  RemoveAt(s, i) \in Seq(S) /\ Len(RemoveAt(s, i)) = Len(s) - 1
<1>1. /\ SubSeq(s, 1, i - 1) \in Seq(S) /\ Len(SubSeq(s, 1, i - 1)) = i - 1
  <2>1. \A k \in 1..Len(s) : s[k] \in S
    OBVIOUS
  <2>2. /\ SubSeq(s, 1, i - 1) \in Seq(S)
        /\ Len(SubSeq(s, 1, i - 1)) = IF 1 <= i - 1 THEN (i - 1) - 1 + 1 ELSE 0
    BY <2>1, SubSeqProperties
  <2> QED
    BY <2>2
<1>2. /\ SubSeq(s, i + 1, Len(s)) \in Seq(S) /\ Len(SubSeq(s, i + 1, Len(s))) = Len(s) - i
  <2>1. \A k \in 1..Len(s) : s[k] \in S
    OBVIOUS
  <2>2. /\ SubSeq(s, i + 1, Len(s)) \in Seq(S)
        /\ Len(SubSeq(s, i + 1, Len(s))) = IF i + 1 <= Len(s) THEN Len(s) - (i + 1) + 1 ELSE 0
    BY <2>1, SubSeqProperties
  <2> QED
    BY <2>2
<1> DEFINE left == SubSeq(s, 1, i - 1)
           right == SubSeq(s, i + 1, Len(s))
<1>3. RemoveAt(s, i) = left \o right
  BY DEF RemoveAt
<1>4. left \in Seq(S) /\ right \in Seq(S) /\ Len(left) = i - 1 /\ Len(right) = Len(s) - i
  BY <1>1, <1>2
<1> HIDE DEF left, right
<1>5. left \o right \in Seq(S) /\ Len(left \o right) = Len(left) + Len(right)
  BY <1>4, ConcatProperties
<1> QED
  BY <1>3, <1>4, <1>5

LEMMA DraftInitially == DraftInit => DraftInv
<1> SUFFICES ASSUME DraftInit PROVE DraftInv
  OBVIOUS
<1>1. DraftTypeOK
  BY EmptySeq DEF DraftInit, DraftTypeOK, Blank
<1>2. /\ page = <<>> /\ Len(page) = 0 /\ DOMAIN page = {} /\ opening = 0 /\ sent = {}
      /\ \A m \in Mail : compose[m] = "idle"
  BY DEF DraftInit
<1>3. OneWindow /\ OneComposes /\ AtRestWhole
  BY <1>2 DEF OneWindow, OneComposes, AtRestWhole, Resting
<1>4. \A m \in Mail : Composing(m)
  BY <1>2 DEF Composing, Field
<1>5. CalmMailIsWhole
  BY <1>2 DEF CalmMailIsWhole, CalmDraftsAreWhole, CalmSendsAreWhole
<1> QED
  BY <1>1, <1>3, <1>4, <1>5 DEF DraftInv

(* A window that is not filled to the end holds nobody's letter.            *)
LEMMA Letters ==
  ASSUME NEW m \in Mail
  PROVE  /\ Letter(m) # Blank
         /\ \A n : [Blank EXCEPT !["to"] = n] # Letter(m)
         /\ \A n : [Blank EXCEPT !["to"] = n, !["subject"] = n] # Letter(m)
         /\ [[Blank EXCEPT !["to"] = m, !["subject"] = m] EXCEPT !["body"] = m] = Letter(m)
<1>1. "body" \in Field /\ Letter(m)["body"] = m /\ m # NoMail
  BY DraftAssumption DEF Field, Letter
<1>2. Blank["body"] = NoMail
  BY DEF Field, Blank
<1>3. /\ \A n : [Blank EXCEPT !["to"] = n]["body"] = NoMail
      /\ \A n : [Blank EXCEPT !["to"] = n, !["subject"] = n]["body"] = NoMail
  BY DEF Field, Blank
<1>4. [[Blank EXCEPT !["to"] = m, !["subject"] = m] EXCEPT !["body"] = m] = Letter(m)
  BY DEF Field, Blank, Letter
<1> QED
  BY <1>1, <1>2, <1>3, <1>4

(* A step that opens, draws or finds nothing: the state of one compose      *)
(* changes, from a rest to another or to its start.                         *)
LEMMA ClickStep ==
  ASSUME DraftInv, NEW m \in Mail, ClickCompose(m)
  PROVE  DraftInv'
<1>1. /\ compose[m] = "idle" /\ compose' = [compose EXCEPT ![m] = "opening"] /\ opening' = opening + 1
      /\ calm' = (calm /\ page = <<>> /\ opening = 0 /\ NoneComposes)
      /\ UNCHANGED <<page, whole, fields, target, sent, touched, handed>>
  BY DEF ClickCompose
<1>2. calm' \in BOOLEAN /\ (calm' => calm /\ page = <<>> /\ opening = 0 /\ \A n \in Mail : compose[n] \in Resting)
  BY <1>1, Zenon DEF Resting, NoneComposes
<1>3. compose'[m] = "opening" /\ \A n \in Mail \ {m} : compose'[n] = compose[n]
  BY <1>1 DEF DraftInv, DraftTypeOK
<1>4. DraftTypeOK'
  BY <1>1, <1>2 DEF DraftInv, DraftTypeOK
<1>5. CASE calm'
  <2>1. page' = <<>> /\ Len(page') = 0 /\ DOMAIN page' = {} /\ opening' = 1
    <3>1. page' = <<>> /\ opening = 0
      BY <1>1, <1>2, <1>5
    <3>2. Len(page') = 0
      BY <3>1
    <3>3. DOMAIN page' = {}
      BY <3>1
    <3> QED
      BY <1>1, <3>1, <3>2, <3>3
  <2>2. OneWindow' /\ OneComposes' /\ AtRestWhole'
    BY <1>2, <1>3, <1>5, <2>1 DEF OneWindow, OneComposes, AtRestWhole, Resting
  <2>3. \A n \in Mail : Composing(n)'
    BY <1>2, <1>3, <1>5, <2>1 DEF Composing, Resting, Field
  <2>4. CalmMailIsWhole'
    <3>1. CalmDraftsAreWhole /\ CalmSendsAreWhole
      BY <1>2, <1>5 DEF DraftInv, CalmMailIsWhole
    <3>2. \A n \in Mail : compose'[n] = "done" => compose[n] = "done"
      BY <1>3
    <3>3. CalmDraftsAreWhole'
      BY <1>1, <1>2, <1>5, <3>1, <3>2 DEF CalmDraftsAreWhole, Opened
    <3>4. CalmSendsAreWhole'
      BY <1>1, <1>2, <1>5, <3>1 DEF CalmSendsAreWhole
    <3> QED
      BY <3>3, <3>4 DEF CalmMailIsWhole
  <2> QED
    BY <1>4, <2>2, <2>3, <2>4 DEF DraftInv
<1> QED
  BY <1>4, <1>5 DEF DraftInv

(* The compose under way finds its next field in the window it has.         *)
LEMMA Finds ==
  ASSUME DraftInv, NEW m \in Mail, NEW f \in Field, Find(m, f)
  PROVE  /\ compose' \in [Mail -> {"idle", "opening", "done", "failed"} \cup Field]
         /\ target' \in [Mail -> Window \cup {NoWindow}] /\ calm' \in BOOLEAN
         /\ compose'[m] = f /\ \A n \in Mail \ {m} : compose'[n] = compose[n] /\ target'[n] = target[n]
         /\ calm' => calm /\ Len(page) = 1 /\ target'[m] = page[1]
<1>1. /\ target' = [target EXCEPT ![m] = FirstWith(f)] /\ compose' = [compose EXCEPT ![m] = f]
      /\ calm' = (calm /\ FirstWith(f) # NoWindow)
  BY DEF Find
<1>2. calm' \in BOOLEAN /\ (calm' => calm /\ FirstWith(f) # NoWindow)
  BY <1>1, Zenon
<1>3. /\ FirstWith(f) \in Window \cup {NoWindow}
      /\ FirstWith(f) # NoWindow /\ Len(page) <= 1 => Len(page) = 1 /\ FirstWith(f) = page[1]
  BY Found DEF DraftInv
<1>4. calm => Len(page) <= 1
  BY DEF DraftInv, OneWindow, DraftTypeOK
<1> QED
  BY <1>1, <1>2, <1>3, <1>4 DEF DraftInv, DraftTypeOK

(* The recipient field of the only window is found.                         *)
LEMMA FindRecipientStep ==
  ASSUME DraftInv, NEW m \in Mail, FindRecipient(m)
  PROVE  DraftInv'
<1>1. /\ compose[m] = "opening" /\ Find(m, "to") /\ "to" \in Field
      /\ UNCHANGED <<page, whole, fields, opening, sent, touched, handed>>
  BY DEF FindRecipient, Field
<1>2. /\ compose' \in [Mail -> {"idle", "opening", "done", "failed"} \cup Field]
      /\ target' \in [Mail -> Window \cup {NoWindow}] /\ calm' \in BOOLEAN
      /\ compose'[m] = "to" /\ \A n \in Mail \ {m} : compose'[n] = compose[n] /\ target'[n] = target[n]
      /\ calm' => calm /\ Len(page) = 1 /\ target'[m] = page[1]
  BY <1>1, Finds
<1>3. DraftTypeOK'
  BY <1>1, <1>2 DEF DraftInv, DraftTypeOK
<1>4. CASE calm'
  <2>1. OneWindow /\ OneComposes /\ CalmMailIsWhole /\ calm /\ \A n \in Mail : Composing(n)
    BY <1>2, <1>4 DEF DraftInv
  <2>2. \A n \in Mail \ {m} : compose[n] \in Resting
    BY <1>1, <2>1 DEF OneComposes, Resting
  <2>3. OneWindow' /\ OneComposes' /\ AtRestWhole'
    BY <1>1, <1>2, <2>1, <2>2 DEF OneWindow, OneComposes, AtRestWhole, Resting
  <2>4. \A n \in Mail : Composing(n)'
    BY <1>1, <1>2, <1>4, <2>1, <2>2 DEF Composing, Resting, Field
  <2>5. \A n \in Mail : compose'[n] = "done" => compose[n] = "done"
    BY <1>2
  <2>6. CalmDraftsAreWhole' /\ CalmSendsAreWhole'
    BY <1>1, <2>1, <2>5 DEF CalmMailIsWhole, CalmDraftsAreWhole, CalmSendsAreWhole, Opened
  <2> QED
    BY <1>3, <2>3, <2>4, <2>6 DEF DraftInv, CalmMailIsWhole
<1> QED
  BY <1>3, <1>4 DEF DraftInv

(* A compose that finds no window gives up.                                 *)
LEMMA TimeoutStep ==
  ASSUME DraftInv, NEW m \in Mail, RecipientTimeout(m)
  PROVE  DraftInv'
<1>1. /\ compose[m] = "opening" /\ page = <<>> /\ compose' = [compose EXCEPT ![m] = "failed"]
      /\ target' = [target EXCEPT ![m] = NoWindow]
      /\ UNCHANGED <<page, whole, fields, opening, sent, touched, handed, calm>>
  BY DEF RecipientTimeout, Ends
<1>2. compose'[m] = "failed" /\ \A n \in Mail \ {m} : compose'[n] = compose[n]
  BY <1>1 DEF DraftInv, DraftTypeOK
<1>3. DraftTypeOK'
  BY <1>1 DEF DraftInv, DraftTypeOK
<1>4. CASE calm
  <2>1. OneWindow /\ OneComposes /\ CalmMailIsWhole /\ \A n \in Mail : Composing(n)
    BY <1>4 DEF DraftInv
  <2>2. \A n \in Mail \ {m} : compose[n] \in Resting
    BY <1>1, <2>1 DEF OneComposes, Resting
  <2>3. DOMAIN page = {}
    BY <1>1
  <2>4. OneWindow' /\ OneComposes' /\ AtRestWhole'
    BY <1>1, <1>2, <2>1, <2>2, <2>3 DEF OneWindow, OneComposes, AtRestWhole, Resting
  <2>5. \A n \in Mail : Composing(n)'
    BY <1>2, <2>2 DEF Composing, Resting, Field
  <2>6. \A n \in Mail : compose'[n] = "done" => compose[n] = "done"
    BY <1>2
  <2>7. CalmDraftsAreWhole' /\ CalmSendsAreWhole'
    BY <1>1, <2>1, <2>6 DEF CalmMailIsWhole, CalmDraftsAreWhole, CalmSendsAreWhole, Opened
  <2> QED
    BY <1>3, <2>4, <2>5, <2>7 DEF DraftInv, CalmMailIsWhole
<1> QED
  BY <1>1, <1>3, <1>4 DEF DraftInv

(* A field is filled and the next one found; the last makes the letter whole.*)
LEMMA TypeStep ==
  ASSUME DraftInv, NEW m \in Mail, TypeField(m)
  PROVE  DraftInv'
<1> USE DEF DraftInv
<1>1. compose[m] \in Field /\ Fill(m) /\ UNCHANGED <<page, whole, opening, sent, touched, handed>>
  BY DEF TypeField
<1>2. /\ fields' \in [Window -> [Field -> Mail \cup {NoMail}]]
      /\ target[m] \in Opened =>
           fields'[target[m]] = [fields[target[m]] EXCEPT ![compose[m]] = m]
  <2>1. target[m] \in Opened => target[m] \in Window
    BY DEF DraftTypeOK, Opened
  <2>2. CASE target[m] \in Opened
    <3>1. fields' = [fields EXCEPT ![target[m]][compose[m]] = m]
      BY <1>1, <2>2 DEF Fill
    <3>2. target[m] \in Window /\ fields \in [Window -> [Field -> Mail \cup {NoMail}]]
      BY <2>1, <2>2 DEF DraftTypeOK
    <3> QED
      BY <1>1, <3>1, <3>2
  <2>3. CASE target[m] \notin Opened
    <3>1. fields' = fields
      BY <1>1, <2>3 DEF Fill
    <3> QED
      BY <2>3, <3>1 DEF DraftTypeOK
  <2> QED
    BY <2>2, <2>3
<1>3. /\ page \in Seq(Window) /\ DOMAIN page = 1..Len(page) /\ Len(page) \in Nat
      /\ \A i \in DOMAIN page : page[i] \in Window
  BY DEF DraftTypeOK
<1>4. CASE compose[m] \in {"to", "subject"}
  <2>1. PICK f \in Field : f = NextStep(compose[m])
    BY <1>4 DEF NextStep, Field
  <2>2. f = (IF compose[m] = "to" THEN "subject" ELSE "body") /\ f # "done"
    BY <1>4, <2>1 DEF NextStep
  <2>3. Find(m, f)
    BY <2>1, <2>2 DEF TypeField
  <2>4. /\ compose' \in [Mail -> {"idle", "opening", "done", "failed"} \cup Field]
        /\ target' \in [Mail -> Window \cup {NoWindow}] /\ calm' \in BOOLEAN
        /\ compose'[m] = f /\ \A n \in Mail \ {m} : compose'[n] = compose[n] /\ target'[n] = target[n]
        /\ calm' => calm /\ Len(page) = 1 /\ target'[m] = page[1]
    BY <2>3, Finds
  <2>5. DraftTypeOK'
    BY <1>1, <1>2, <2>4 DEF DraftTypeOK
  <2>6. CASE calm'
    <3>1. /\ OneWindow /\ OneComposes /\ CalmDraftsAreWhole /\ CalmSendsAreWhole /\ calm
          /\ \A n \in Mail : Composing(n)
      BY <2>4, <2>6 DEF CalmMailIsWhole
    <3>2. \A n \in Mail \ {m} : compose[n] \in Resting
      BY <1>4, <3>1 DEF OneComposes, Resting
    <3>3. /\ Len(page) = 1 /\ target[m] = page[1] /\ target'[m] = page[1]
          /\ DOMAIN page = {1} /\ Opened = {page[1]}
      <4>1. Len(page) = 1 /\ target[m] = page[1]
        BY <1>1, <3>1 DEF Composing
      <4>2. DOMAIN page = {1}
        BY <1>3, <4>1
      <4>3. Opened = {page[1]}
        BY <4>2 DEF Opened
      <4> QED
        BY <2>4, <2>6, <4>1, <4>2, <4>3
    <3>4. \/ compose[m] = "to" /\ fields[page[1]] = Blank /\ fields'[page[1]] = [Blank EXCEPT !["to"] = m]
          \/ /\ compose[m] = "subject" /\ fields[page[1]] = [Blank EXCEPT !["to"] = m]
             /\ fields'[page[1]] = [Blank EXCEPT !["to"] = m, !["subject"] = m]
      <4>1. fields'[page[1]] = [fields[page[1]] EXCEPT ![compose[m]] = m]
        BY <1>2, <3>3
      <4>2. CASE compose[m] = "to"
        <5>1. fields[page[1]] = Blank
          BY <3>1, <3>3, <4>2 DEF Composing
        <5> QED
          BY <4>1, <4>2, <5>1
      <4>3. CASE compose[m] = "subject"
        <5>1. fields[page[1]] = [Blank EXCEPT !["to"] = m]
          BY <3>1, <3>3, <4>3 DEF Composing
        <5> QED
          BY <4>1, <4>3, <5>1
      <4> QED
        BY <1>4, <4>2, <4>3
    <3>5. OneWindow' /\ OneComposes' /\ AtRestWhole'
      BY <1>1, <2>2, <2>4, <3>1, <3>2 DEF OneWindow, OneComposes, AtRestWhole, Resting
    <3>6. \A n \in Mail \ {m} : Composing(n)'
      BY <2>4, <3>2 DEF Composing, Resting, Field
    <3>7. Composing(m)'
      <4>1. \A i \in DOMAIN page : page[i] \notin touched
        BY <1>4, <3>1 DEF Composing, Resting
      <4>2. compose'[m] \in Field \ {"to"}
        BY <2>2, <2>4 DEF Field
      <4> QED
        BY <1>1, <2>2, <2>4, <3>3, <3>4, <4>1, <4>2 DEF Composing
    <3>8. CalmDraftsAreWhole'
      <4>1. \A n \in Mail : compose'[n] = "done" => Letter(n) \in sent \/ n \in handed
        <5> SUFFICES ASSUME NEW n \in Mail, compose'[n] = "done"
                     PROVE  Letter(n) \in sent \/ n \in handed
          OBVIOUS
        <5>1. compose[n] = "done"
          BY <2>2, <2>4
        <5>2. fields[page[1]] # Letter(n)
          BY <3>4, Letters
        <5> QED
          BY <3>1, <3>3, <5>1, <5>2 DEF CalmDraftsAreWhole
      <4> QED
        BY <1>1, <4>1 DEF CalmDraftsAreWhole
    <3>9. CalmSendsAreWhole'
      BY <1>1, <3>1 DEF CalmSendsAreWhole
    <3> QED
      BY <2>5, <3>5, <3>6, <3>7, <3>8, <3>9 DEF CalmMailIsWhole
  <2> QED
    BY <2>5, <2>6
<1>5. CASE compose[m] = "body"
  <2>1. NextStep(compose[m]) = "done" /\ "done" \notin Field
    BY <1>5 DEF NextStep, Field
  <2>2. /\ compose' = [compose EXCEPT ![m] = "done"] /\ target' = [target EXCEPT ![m] = NoWindow]
        /\ UNCHANGED calm
    BY <2>1 DEF TypeField, Ends
  <2>3. DraftTypeOK'
    BY <1>1, <1>2, <2>2 DEF DraftTypeOK
  <2>4. compose'[m] = "done" /\ \A n \in Mail \ {m} : compose'[n] = compose[n]
    BY <2>2 DEF DraftTypeOK
  <2>5. CASE calm
    <3>1. /\ OneWindow /\ OneComposes /\ CalmDraftsAreWhole /\ CalmSendsAreWhole
          /\ \A n \in Mail : Composing(n)
      BY <2>5 DEF CalmMailIsWhole
    <3>2. \A n \in Mail \ {m} : compose[n] \in Resting
      BY <1>5, <3>1 DEF OneComposes, Resting
    <3>3. /\ Len(page) = 1 /\ target[m] = page[1]
          /\ DOMAIN page = {1} /\ Opened = {page[1]}
          /\ fields[page[1]] = [Blank EXCEPT !["to"] = m, !["subject"] = m]
      <4>1. Len(page) = 1 /\ target[m] = page[1]
        BY <1>1, <3>1 DEF Composing
      <4>2. DOMAIN page = {1}
        BY <1>3, <4>1
      <4>3. Opened = {page[1]}
        BY <4>2 DEF Opened
      <4>4. fields[page[1]] = [Blank EXCEPT !["to"] = m, !["subject"] = m]
        BY <1>5, <3>1 DEF Composing
      <4> QED
        BY <4>1, <4>2, <4>3, <4>4
    <3>4. fields'[page[1]] = Letter(m)
      BY <1>2, <1>5, <3>3, Letters
    <3>5. OneWindow' /\ OneComposes' /\ AtRestWhole'
      <4>1. page[1] \notin touched
        BY <1>5, <3>1, <3>3 DEF Composing, Resting
      <4>2. AtRestWhole'
        BY <1>1, <3>3, <3>4, <4>1 DEF AtRestWhole
      <4> QED
        BY <1>1, <2>4, <3>1, <3>2, <4>2 DEF OneWindow, OneComposes, Resting
    <3>6. \A n \in Mail : Composing(n)'
      BY <2>4, <3>2 DEF Composing, Resting, Field
    <3>7. CalmDraftsAreWhole'
      <4>1. \A n \in Mail \ {m} : compose'[n] = "done" => Letter(n) \in sent \/ n \in handed
        <5> SUFFICES ASSUME NEW n \in Mail \ {m}, compose'[n] = "done"
                     PROVE  Letter(n) \in sent \/ n \in handed
          OBVIOUS
        <5>1. compose[n] = "done"
          BY <2>4
        <5>2. fields[page[1]] # Letter(n)
          BY <3>3, Letters
        <5> QED
          BY <2>5, <3>1, <3>3, <5>1, <5>2 DEF CalmDraftsAreWhole
      <4>2. page[1] \in Opened'
        BY <1>1, <3>3 DEF Opened
      <4> QED
        BY <1>1, <3>4, <4>1, <4>2 DEF CalmDraftsAreWhole
    <3>8. CalmSendsAreWhole'
      BY <1>1, <2>2, <3>1 DEF CalmSendsAreWhole
    <3> QED
      BY <2>3, <3>5, <3>6, <3>7, <3>8 DEF CalmMailIsWhole
  <2> QED
    BY <2>2, <2>3, <2>5
<1> QED
  BY <1>1, <1>4, <1>5 DEF Field

(* Sending takes the only window, with a whole letter or nothing in it.     *)
LEMMA SendStep ==
  ASSUME DraftInv, SendDraft
  PROVE  DraftInv'
<1> USE DEF DraftInv
<1>1. /\ PlacesOf("body") # {} /\ page' = RemoveAt(page, Min(PlacesOf("body")))
      /\ sent' = IF FirstWith("body") \in touched THEN sent ELSE sent \cup {fields[FirstWith("body")]}
      /\ calm' = (calm /\ NoneComposes)
      /\ UNCHANGED <<whole, fields, opening, compose, target, touched, handed>>
  BY DEF SendDraft, SendTarget
<1>2. calm' \in BOOLEAN /\ (calm' => calm /\ \A m \in Mail : compose[m] \in Resting)
  BY <1>1, Zenon DEF Resting, NoneComposes
<1>3. page \in Seq(Window) /\ Len(page) \in Nat /\ DOMAIN page = 1..Len(page)
  BY DEF DraftTypeOK
<1>4. "body" \in Field
  BY DEF Field
<1>5. Min(PlacesOf("body")) \in DOMAIN page
  BY <1>1, <1>4, Found DEF PlacesOf
<1>6. page' \in Seq(Window) /\ Len(page') = Len(page) - 1
  BY <1>1, <1>3, <1>5, WindowTaken
<1>7. FirstWith("body") = page[Min(PlacesOf("body"))] /\ FirstWith("body") \in Window
  BY <1>1, <1>3, <1>5 DEF FirstWith
<1>8. DraftTypeOK'
  BY <1>1, <1>2, <1>6, <1>7 DEF DraftTypeOK
<1>9. CASE calm'
  <2>1. /\ calm /\ OneWindow /\ OneComposes /\ AtRestWhole /\ CalmDraftsAreWhole /\ CalmSendsAreWhole
        /\ \A m \in Mail : compose[m] \in Resting
    BY <1>2, <1>9 DEF CalmMailIsWhole
  <2>2. Len(page) = 1 /\ Min(PlacesOf("body")) = 1 /\ Opened = {page[1]} /\ Len(page') = 0
    BY <1>3, <1>5, <1>6, <2>1 DEF OneWindow, Opened, DraftTypeOK
  <2>3. DOMAIN page' = {}
    BY <1>6, <2>2
  <2>4. OneWindow' /\ OneComposes' /\ AtRestWhole'
    BY <1>1, <2>1, <2>2, <2>3 DEF OneWindow, OneComposes, AtRestWhole, DraftTypeOK
  <2>5. \A m \in Mail : Composing(m)'
    BY <1>1, <2>1 DEF Composing, Resting, Field
  <2>8. IF page[1] \in touched THEN \A m \in Mail : fields[page[1]] # Letter(m)
        ELSE fields[page[1]] = Blank \/ \E m \in Mail : fields[page[1]] = Letter(m)
    BY <1>3, <2>1, <2>2 DEF AtRestWhole
  <2>6. CalmDraftsAreWhole'
    BY <1>1, <1>7, <2>1, <2>2, <2>8 DEF CalmDraftsAreWhole
  <2>7. CalmSendsAreWhole'
    BY <1>1, <1>7, <2>1, <2>2, <2>8 DEF CalmSendsAreWhole
  <2> QED
    BY <1>8, <2>4, <2>5, <2>6, <2>7 DEF CalmMailIsWhole
<1> QED
  BY <1>8, <1>9

(* A window opens, blank, in a page that had none.                          *)
LEMMA OpenStep ==
  ASSUME DraftInv, NEW w \in Window, OpenWindow(w)
  PROVE  DraftInv'
<1> USE DEF DraftInv
<1>1. /\ opening > 0 /\ fields[w] = Blank /\ w \notin touched /\ opening' = opening - 1
      /\ page' \in {Append(page, w), <<w>> \o page}
      /\ UNCHANGED <<whole, fields, compose, target, sent, touched, handed, calm>>
  BY DEF OpenWindow
<1>2. page \in Seq(Window) /\ Len(page) \in Nat /\ opening \in Nat /\ <<w>> \in Seq(Window) /\ Len(<<w>>) = 1
  BY DEF DraftTypeOK
<1>3. page' \in Seq(Window) /\ Len(page') = Len(page) + 1
  <2>1. CASE page' = Append(page, w)
    BY <1>2, <2>1, AppendProperties
  <2>2. CASE page' = <<w>> \o page
    BY <1>2, <2>2, ConcatProperties
  <2> QED
    BY <1>1, <2>1, <2>2
<1>4. DraftTypeOK'
  BY <1>1, <1>2, <1>3 DEF DraftTypeOK
<1>5. CASE calm
  <2>1. OneWindow /\ OneComposes /\ CalmDraftsAreWhole /\ CalmSendsAreWhole /\ \A m \in Mail : Composing(m)
    BY <1>5 DEF CalmMailIsWhole
  <2>2. Len(page) = 0 /\ page = <<>>
    BY <1>1, <1>2, <2>1, EmptySeq DEF OneWindow
  <2>3. Len(page') = 1 /\ DOMAIN page' = {1} /\ page'[1] = w
    <3>1. Append(<<>>, w) = <<w>> /\ <<w>> \o <<>> = <<w>>
      BY <1>2, ConcatEmptySeq
    <3> QED
      BY <1>1, <2>2, <3>1
  <2>4. OneWindow' /\ OneComposes' /\ AtRestWhole'
    BY <1>1, <1>2, <2>1, <2>2, <2>3 DEF OneWindow, OneComposes, AtRestWhole
  <2>5. \A m \in Mail : compose[m] \notin Field
    <3> SUFFICES ASSUME NEW m \in Mail, compose[m] \in Field PROVE FALSE
      OBVIOUS
    <3>1. Len(page) = 1
      BY <2>1 DEF Composing
    <3> QED
      BY <2>2, <3>1
  <2>6. \A m \in Mail : Composing(m)'
    BY <1>1, <2>3, <2>5 DEF Composing, Field
  <2>7. CalmDraftsAreWhole'
    BY <1>1, <2>1, <2>2 DEF CalmDraftsAreWhole, Opened
  <2>8. CalmSendsAreWhole'
    BY <1>1, <2>1 DEF CalmSendsAreWhole
  <2> QED
    BY <1>4, <2>4, <2>6, <2>7, <2>8 DEF CalmMailIsWhole
<1> QED
  BY <1>1, <1>4, <1>5

(* A hand opens a window in a page that has none.                           *)
LEMMA HandOpenStep ==
  ASSUME DraftInv, OpenByHand
  PROVE  DraftInv'
<1> USE DEF DraftInv
<1>1. /\ opening' = opening + 1 /\ calm' = (calm /\ page = <<>> /\ opening = 0 /\ NoneComposes)
      /\ UNCHANGED <<page, whole, fields, compose, target, sent, touched, handed>>
  BY DEF OpenByHand
<1>2. calm' \in BOOLEAN /\ (calm' => calm /\ page = <<>> /\ opening = 0 /\ \A n \in Mail : compose[n] \in Resting)
  BY <1>1, Zenon DEF Resting, NoneComposes
<1>3. DraftTypeOK'
  BY <1>1, <1>2 DEF DraftTypeOK
<1>4. CASE calm'
  <2>1. /\ page = <<>> /\ opening' = 1 /\ OneComposes /\ AtRestWhole /\ CalmDraftsAreWhole /\ CalmSendsAreWhole
        /\ \A m \in Mail : Composing(m)
    BY <1>1, <1>2, <1>4 DEF CalmMailIsWhole
  <2>2. Len(page') = 0
    BY <1>1, <2>1
  <2>3. OneWindow' /\ OneComposes' /\ AtRestWhole'
    BY <1>1, <2>1, <2>2 DEF OneWindow, OneComposes, AtRestWhole
  <2>4. \A m \in Mail : Composing(m)'
    BY <1>1, <2>1 DEF Composing
  <2>5. CalmDraftsAreWhole' /\ CalmSendsAreWhole'
    BY <1>1, <1>2, <1>4, <2>1 DEF CalmDraftsAreWhole, CalmSendsAreWhole, Opened
  <2> QED
    BY <1>3, <2>3, <2>4, <2>5 DEF CalmMailIsWhole
<1> QED
  BY <1>3, <1>4

(* A hand edits a window between two composes, and takes the letter in it.  *)
LEMMA HandEditStep ==
  ASSUME DraftInv, NEW w \in Window, NEW f \in Field, EditByHand(w, f)
  PROVE  DraftInv'
<1> USE DEF DraftInv
<1>1. /\ w \in Opened /\ fields' = [fields EXCEPT ![w][f] = NoMail] /\ touched' = touched \cup {w}
      /\ handed' = handed \cup LettersIn(w) /\ calm' = (calm /\ NoneComposes)
      /\ UNCHANGED <<page, whole, opening, compose, target, sent>>
  BY DEF EditByHand
<1>2. calm' \in BOOLEAN /\ (calm' => calm /\ \A n \in Mail : compose[n] \in Resting)
  BY <1>1, Zenon DEF Resting, NoneComposes
<1>3. /\ fields' \in [Window -> [Field -> Mail \cup {NoMail}]]
      /\ fields'[w][f] = NoMail /\ \A v \in Window \ {w} : fields'[v] = fields[v]
  BY <1>1 DEF DraftTypeOK
<1>4. DraftTypeOK'
  BY <1>1, <1>2, <1>3 DEF DraftTypeOK, LettersIn
<1>5. \A m \in Mail : fields'[w] # Letter(m)
  BY <1>3, DraftAssumption DEF Letter
<1>6. \A v \in Opened : v \in Window
  BY DEF Opened, DraftTypeOK
<1>7. CASE calm'
  <2>1. /\ OneWindow /\ OneComposes /\ AtRestWhole /\ CalmDraftsAreWhole /\ CalmSendsAreWhole
        /\ \A m \in Mail : Composing(m) /\ compose[m] \in Resting
    BY <1>2, <1>7 DEF CalmMailIsWhole
  <2>2. OneWindow' /\ OneComposes'
    BY <1>1, <2>1 DEF OneWindow, OneComposes
  <2>3. AtRestWhole'
    <3> SUFFICES ASSUME NEW i \in DOMAIN page
                 PROVE  IF page[i] \in touched' THEN \A m \in Mail : fields'[page[i]] # Letter(m)
                        ELSE fields'[page[i]] = Blank \/ \E m \in Mail : fields'[page[i]] = Letter(m)
      BY <1>1 DEF AtRestWhole
    <3>1. IF page[i] \in touched THEN \A m \in Mail : fields[page[i]] # Letter(m)
          ELSE fields[page[i]] = Blank \/ \E m \in Mail : fields[page[i]] = Letter(m)
      BY <2>1 DEF AtRestWhole
    <3>2. page[i] \in Window
      BY DEF DraftTypeOK
    <3> QED
      BY <1>1, <1>3, <1>5, <3>1, <3>2
  <2>4. \A m \in Mail : Composing(m)'
    BY <1>1, <2>1 DEF Composing, Resting, Field
  <2>5. CalmDraftsAreWhole'
    <3> SUFFICES ASSUME NEW m \in Mail, compose[m] = "done"
                 PROVE  (\/ \E v \in Opened : fields[v] = Letter(m)
                         \/ Letter(m) \in sent \/ m \in handed)'
      BY <1>1 DEF CalmDraftsAreWhole
    <3>1. CASE \E v \in Opened \ {w} : fields[v] = Letter(m)
      BY <1>1, <1>3, <1>6, <3>1 DEF Opened
    <3>2. CASE fields[w] = Letter(m)
      BY <1>1, <3>2 DEF LettersIn
    <3>3. CASE Letter(m) \in sent \/ m \in handed
      BY <1>1, <3>3
    <3> QED
      BY <1>2, <1>7, <2>1, <3>1, <3>2, <3>3 DEF CalmDraftsAreWhole
  <2>6. CalmSendsAreWhole'
    BY <1>1, <1>2, <1>7, <2>1 DEF CalmSendsAreWhole
  <2> QED
    BY <1>4, <2>2, <2>3, <2>4, <2>5, <2>6 DEF CalmMailIsWhole
<1> QED
  BY <1>4, <1>7

(* A hand closes or sends the only window, and takes the letter in it.      *)
LEMMA HandCloseStep ==
  ASSUME DraftInv, NEW i \in DOMAIN page, CloseByHand(i)
  PROVE  DraftInv'
<1> USE DEF DraftInv
<1>1. /\ page' = RemoveAt(page, i) /\ handed' = handed \cup LettersIn(page[i])
      /\ calm' = (calm /\ NoneComposes)
      /\ UNCHANGED <<whole, fields, opening, compose, target, sent, touched>>
  BY DEF CloseByHand
<1>2. calm' \in BOOLEAN /\ (calm' => calm /\ \A n \in Mail : compose[n] \in Resting)
  BY <1>1, Zenon DEF Resting, NoneComposes
<1>3. page \in Seq(Window) /\ Len(page) \in Nat /\ DOMAIN page = 1..Len(page)
  BY DEF DraftTypeOK
<1>4. page' \in Seq(Window) /\ Len(page') = Len(page) - 1
  BY <1>1, <1>3, WindowTaken
<1>5. DraftTypeOK'
  BY <1>1, <1>2, <1>4 DEF DraftTypeOK, LettersIn
<1>6. CASE calm'
  <2>1. /\ OneWindow /\ OneComposes /\ CalmDraftsAreWhole /\ CalmSendsAreWhole
        /\ calm /\ \A m \in Mail : compose[m] \in Resting
    BY <1>2, <1>6 DEF CalmMailIsWhole
  <2>2. Len(page) = 1 /\ i = 1 /\ Opened = {page[1]} /\ Len(page') = 0
    BY <1>3, <1>4, <2>1 DEF OneWindow, Opened, DraftTypeOK
  <2>3. DOMAIN page' = {}
    BY <1>4, <2>2
  <2>4. OneWindow' /\ OneComposes' /\ AtRestWhole'
    BY <1>1, <2>1, <2>2, <2>3 DEF OneWindow, OneComposes, AtRestWhole, DraftTypeOK
  <2>5. \A m \in Mail : Composing(m)'
    BY <1>1, <2>1 DEF Composing, Resting, Field
  <2>6. CalmDraftsAreWhole'
    BY <1>1, <2>1, <2>2 DEF CalmDraftsAreWhole, LettersIn
  <2>7. CalmSendsAreWhole'
    BY <1>1, <2>1 DEF CalmSendsAreWhole
  <2> QED
    BY <1>5, <2>4, <2>5, <2>6, <2>7 DEF CalmMailIsWhole
<1> QED
  BY <1>5, <1>6

LEMMA DraftStep == DraftInv /\ [DraftNext]_draftVars => DraftInv'
<1> SUFFICES ASSUME DraftInv, [DraftNext]_draftVars PROVE DraftInv'
  OBVIOUS
<1>1. ASSUME UNCHANGED <<page, fields, opening, compose, target, sent, touched, handed, calm>>, whole' \subseteq Window
      PROVE  DraftInv'
  <2>1. DraftTypeOK'
    BY <1>1 DEF DraftInv, DraftTypeOK
  <2>2. (OneWindow /\ OneComposes /\ AtRestWhole)' <=> OneWindow /\ OneComposes /\ AtRestWhole
    BY <1>1 DEF OneWindow, OneComposes, AtRestWhole
  <2>3. (\A m \in Mail : Composing(m))' <=> \A m \in Mail : Composing(m)
    BY <1>1 DEF Composing
  <2>4. CalmMailIsWhole' <=> CalmMailIsWhole
    BY <1>1 DEF CalmMailIsWhole, CalmDraftsAreWhole, CalmSendsAreWhole, Opened
  <2> QED
    BY <1>1, <2>1, <2>2, <2>3, <2>4 DEF DraftInv
<1>2. ASSUME NEW w \in Window, DrawWindow(w) PROVE DraftInv'
  BY <1>1, <1>2 DEF DrawWindow, DraftInv, DraftTypeOK
<1>3. CASE UNCHANGED draftVars
  BY <1>1, <1>3 DEF draftVars, DraftInv, DraftTypeOK
<1> QED
  BY <1>2, <1>3, ClickStep, FindRecipientStep, TimeoutStep, TypeStep, SendStep, OpenStep,
     HandOpenStep, HandEditStep, HandCloseStep DEF DraftNext

(* While every compose has the page to itself and finds its fields, a draft *)
(* reported prepared is whole, in a window or sent, until the user or a     *)
(* page action edits, closes or sends it, and of windows no hand touched    *)
(* nothing else is sent (google.ts:64).                                     *)
THEOREM CalmMail == DraftSpec => []CalmMailIsWhole
<1>1. DraftInv => CalmMailIsWhole
  BY DEF DraftInv, CalmMailIsWhole, CalmDraftsAreWhole, CalmSendsAreWhole
<1> QED
  BY <1>1, DraftInitially, DraftStep, PTL DEF DraftSpec

(* ---------------------------- runs on a screen --------------------------- *)

Piece == ScreenRun \X Nat
Kinds == {"intake", "delta", "start", "end", "deliver", "error"}
Event == [kind : Kinds, run : ScreenRun, piece : Piece]
Line == [kind : {"assistant", "tool", "system"}, text : Seq(Piece)]

ScreenTypes ==
  /\ stage \in [ScreenRun -> {"idle", "streaming", "tool", "delivered", "failed"}]
  /\ spoken \in [ScreenRun -> Nat]
  /\ wire \in Seq(Event)
  /\ streamText \in Seq(Piece)
  /\ transcript \in Seq(Line)
  /\ overlapped \in BOOLEAN

(* The text on the screen once an event of the wire has been heard.         *)
Heard(text, event) ==
  IF ~Concerns(event) THEN text
  ELSE IF event.kind = "delta" THEN Append(text, event.piece)
  ELSE IF event.kind \in {"intake", "deliver"} THEN <<>>
  ELSE text

DeliverAt(i, r) == wire[i].kind = "deliver" /\ wire[i].run = r

(* What the screen will show, event by event: the text of a run when its    *)
(* delivery comes, and in the end that of the run that is live.             *)
Foreseen(T) ==
  /\ T[0] = streamText
  /\ \A i \in DOMAIN wire : T[i] = Heard(T[i - 1], wire[i])
  /\ \A i \in DOMAIN wire : \A r \in Mine : DeliverAt(i, r) => T[i - 1] = TextOf(r)
  /\ \A r \in Mine : LiveRun(r) => T[Len(wire)] = TextOf(r)

OneLiveRun == \A q, r \in Mine : LiveRun(q) /\ LiveRun(r) => q = r

(* Every answer is that of a delivered run; a delivery that is still under  *)
(* way has none yet, and one that has come has one.                         *)
AnswersMatch ==
  /\ \A n \in Answers : \E r \in ScreenRun : Delivered(r) /\ transcript[n].text = TextOf(r)
  /\ \A k, n \in Answers : transcript[k].text = transcript[n].text => k = n
  /\ \A i \in DOMAIN wire : \A r \in Mine : DeliverAt(i, r) =>
       \A n \in Answers : transcript[n].text # TextOf(r)
  /\ \A r \in ScreenRun : Delivered(r) =>
       \/ \E i \in DOMAIN wire : DeliverAt(i, r)
       \/ \E n \in Answers : transcript[n].text = TextOf(r)

DeliversOnce ==
  /\ \A r \in ScreenRun : stage[r] = "idle" => spoken[r] = 0
  /\ \A i \in DOMAIN wire : \A r \in ScreenRun : DeliverAt(i, r) => stage[r] = "delivered"
  /\ \A i, j \in DOMAIN wire : \A r \in ScreenRun : DeliverAt(i, r) /\ DeliverAt(j, r) => i = j

ScreenInv ==
  /\ ScreenTypes
  /\ DeliversOnce
  /\ ~overlapped => /\ OneLiveRun
                    /\ AnswersMatch
                    /\ \E T \in [0..Len(wire) -> Seq(Piece)] : Foreseen(T)

Words(n, r) == [k \in 1..n |-> <<r, k>>]

(* The text of a run: its length, when it is empty, whose it is, how it grows.*)
LEMMA Texts ==
  ASSUME NEW n \in Nat, NEW r \in ScreenRun
  PROVE  /\ Words(n, r) \in Seq(Piece) /\ Len(Words(n, r)) = n
         /\ Words(n, r) = <<>> <=> n = 0
         /\ \A m \in Nat : \A q \in ScreenRun : Words(m, q) = Words(n, r) /\ n > 0 => q = r
         /\ Words(n + 1, r) = Append(Words(n, r), <<r, n + 1>>)
<1>1. \A m \in Nat : \A q \in ScreenRun : Words(m, q) \in [1..m -> Piece]
  BY DEF Words, Piece
<1>2. \A m \in Nat : \A q \in ScreenRun : Words(m, q) \in Seq(Piece) /\ Len(Words(m, q)) = m
  BY <1>1
<1>3. Words(n, r) = <<>> <=> n = 0
  BY <1>2, EmptySeq
<1>4. ASSUME NEW m \in Nat, NEW q \in ScreenRun, Words(m, q) = Words(n, r), n > 0
      PROVE  q = r
  <2>1. m = n
    BY <1>2, <1>4
  <2>2. 1 \in 1..n /\ Words(n, r)[1] = <<r, 1>> /\ Words(m, q)[1] = <<q, 1>>
    BY <1>4, <2>1 DEF Words
  <2> QED
    BY <1>4, <2>2
<1>5. Words(n + 1, r) = Append(Words(n, r), <<r, n + 1>>)
  BY DEF Words
<1> QED
  BY <1>2, <1>3, <1>4, <1>5

LEMMA ScreenInitially == ScreenInit => ScreenInv
<1> SUFFICES ASSUME ScreenInit PROVE ScreenInv
  OBVIOUS
<1>1. ScreenTypes
  BY EmptySeq DEF ScreenInit, ScreenTypes
<1>2. wire = <<>> /\ DOMAIN wire = {} /\ Len(wire) = 0 /\ Answers = {}
  BY DEF ScreenInit, Answers
<1>3. /\ \A r \in ScreenRun : stage[r] = "idle" /\ spoken[r] = 0
      /\ streamText = <<>>
  BY DEF ScreenInit
<1>4. DeliversOnce
  BY <1>2, <1>3 DEF DeliversOnce
<1>5. OneLiveRun
  BY <1>3, ScreenAssumption DEF OneLiveRun, LiveRun
<1>6. AnswersMatch
  BY <1>2, <1>3 DEF AnswersMatch, Delivered
<1>7. \E T \in [0..Len(wire) -> Seq(Piece)] : Foreseen(T)
  <2> DEFINE T == [i \in 0..0 |-> <<>>]
  <2>1. T \in [0..Len(wire) -> Seq(Piece)] /\ T[0] = <<>>
    BY <1>2, EmptySeq
  <2> HIDE DEF T
  <2>2. Foreseen(T)
    BY <1>2, <1>3, <2>1, ScreenAssumption DEF Foreseen, LiveRun
  <2> QED
    BY <2>1, <2>2
<1> QED
  BY <1>1, <1>4, <1>5, <1>6, <1>7 DEF ScreenInv

(* The five steps of a run, by the event each of them puts on the wire.     *)
LEMMA EmitStep ==
  ASSUME ScreenInv, NEW r \in ScreenRun, NEW kind \in Kinds, Emit(r, kind),
         stage' \in [ScreenRun -> {"idle", "streaming", "tool", "delivered", "failed"}],
         spoken' \in [ScreenRun -> Nat], overlapped' \in BOOLEAN, overlapped => overlapped',
         \A q \in ScreenRun \ {r} : stage'[q] = stage[q] /\ spoken'[q] = spoken[q],
         stage[r] # "delivered", stage'[r] # "idle",
         kind = "deliver" <=> stage'[r] = "delivered",
         kind = "error" => stage'[r] = "failed",
         kind = "intake" => spoken'[r] = 0,
         kind = "intake" /\ r \in Mine /\ ~overlapped' => \A q \in Mine : ~LiveRun(q),
         kind # "intake" => LiveRun(r),
         kind = "delta" => spoken'[r] = spoken[r] + 1,
         kind \notin {"intake", "delta"} => spoken'[r] = spoken[r]
  PROVE  ScreenInv'
<1>0. PICK N \in Nat : N = Len(wire)
  BY DEF ScreenInv, ScreenTypes
<1>1. PICK event \in Event :
        /\ wire' = Append(wire, event) /\ UNCHANGED <<streamText, streaming, transcript>>
        /\ event.kind = kind /\ event.run = r /\ event.piece = <<r, spoken'[r]>>
  <2>1. [kind |-> kind, run |-> r, piece |-> <<r, spoken'[r]>>] \in Event
    BY DEF Event, Piece
  <2> QED
    BY <2>1 DEF Emit
<1>2. event \in Event /\ event.kind = kind /\ event.run = r /\ event.piece = <<r, spoken'[r]>>
  BY <1>1
<1>3. /\ wire \in Seq(Event) /\ N \in Nat /\ Len(wire) = N /\ DOMAIN wire = 1..N
      /\ stage \in [ScreenRun -> {"idle", "streaming", "tool", "delivered", "failed"}]
      /\ spoken \in [ScreenRun -> Nat]
  BY <1>0 DEF ScreenInv, ScreenTypes
<1>4. /\ wire' \in Seq(Event) /\ Len(wire') = N + 1 /\ DOMAIN wire' = 1..N + 1
      /\ wire'[N + 1] = event /\ \A i \in 1..N : wire'[i] = wire[i]
  BY <1>1, <1>2, <1>3, AppendProperties
<1>5. \A q \in ScreenRun \ {r} : TextOf(q)' = TextOf(q)
  BY DEF TextOf
<1>6. ScreenTypes'
  BY <1>1, <1>4 DEF ScreenInv, ScreenTypes
<1>7. /\ \A i \in 1..N : \A q \in ScreenRun : DeliverAt(i, q)' <=> DeliverAt(i, q)
      /\ \A q \in ScreenRun : DeliverAt(N + 1, q)' <=> kind = "deliver" /\ q = r
  BY <1>2, <1>4 DEF DeliverAt
<1>8. \A i \in 1..N : \A q \in ScreenRun : DeliverAt(i, q) => stage[q] = "delivered" /\ q # r
  BY <1>3 DEF ScreenInv, DeliversOnce
<1>9. DeliversOnce'
  <2>1. \A q \in ScreenRun : stage'[q] = "idle" => spoken'[q] = 0
    BY DEF ScreenInv, DeliversOnce
  <2>2. \A i \in 1..N + 1 : i \in 1..N \/ i = N + 1
    BY <1>3
  <2>3. \A i \in DOMAIN wire' : \A q \in ScreenRun : DeliverAt(i, q)' => stage'[q] = "delivered"
    BY <1>4, <1>7, <1>8, <2>2
  <2>4. \A i, j \in DOMAIN wire' : \A q \in ScreenRun : DeliverAt(i, q)' /\ DeliverAt(j, q)' => i = j
    <3> SUFFICES ASSUME NEW i \in 1..N + 1, NEW j \in 1..N + 1, NEW q \in ScreenRun,
                        DeliverAt(i, q)', DeliverAt(j, q)'
                 PROVE  i = j
      BY <1>4
    <3>1. (i = N + 1 <=> q = r) /\ (j = N + 1 <=> q = r)
      BY <1>7, <1>8, <2>2
    <3>2. CASE q # r
      <4>1. i \in 1..N /\ j \in 1..N /\ DeliverAt(i, q) /\ DeliverAt(j, q)
        BY <1>7, <2>2, <3>1, <3>2
      <4> QED
        BY <1>3, <4>1 DEF ScreenInv, DeliversOnce
    <3> QED
      BY <3>1, <3>2
  <2> QED
    BY <2>1, <2>3, <2>4 DEF DeliversOnce
<1>10. CASE ~overlapped'
  <2>1. /\ OneLiveRun /\ AnswersMatch /\ ~overlapped
        /\ \E T \in [0..N -> Seq(Piece)] : Foreseen(T)
    BY <1>3, <1>10 DEF ScreenInv
  <2>2. \A q \in ScreenRun \ {r} : LiveRun(q)' <=> LiveRun(q)
    BY DEF LiveRun
  <2>3. Mine \subseteq ScreenRun
    BY ScreenAssumption
  <2>4. \A q \in Mine \ {r} : r \in Mine => ~LiveRun(q)
    BY <1>10, <2>1 DEF OneLiveRun
  <2>5. OneLiveRun'
    BY <2>1, <2>2, <2>3, <2>4 DEF OneLiveRun
  <2>6. AnswersMatch'
    <3>1. Answers' = Answers /\ transcript' = transcript
      BY <1>1 DEF Answers
    <3>2. /\ ~Delivered(r) /\ (Delivered(r)' => kind = "deliver")
          /\ \A q \in ScreenRun \ {r} : Delivered(q)' <=> Delivered(q)
      BY DEF Delivered
    <3>3. \A n \in Answers : \E q \in ScreenRun \ {r} : Delivered(q) /\ transcript[n].text = TextOf(q)
      BY <2>1, <3>2 DEF AnswersMatch
    <3>4. \A n \in Answers' : \E q \in ScreenRun : Delivered(q)' /\ transcript'[n].text = TextOf(q)'
      BY <1>5, <3>1, <3>2, <3>3
    <3>5. \A k, n \in Answers' : transcript'[k].text = transcript'[n].text => k = n
      BY <2>1, <3>1 DEF AnswersMatch
    <3>6. \A i \in DOMAIN wire' : \A q \in Mine : DeliverAt(i, q)' =>
            \A n \in Answers' : transcript'[n].text # TextOf(q)'
      <4> SUFFICES ASSUME NEW i \in 1..N + 1, NEW q \in Mine, DeliverAt(i, q)', NEW n \in Answers
                   PROVE  transcript[n].text # TextOf(q)'
        BY <1>4, <3>1
      <4>1. CASE i \in 1..N
        <5>1. DeliverAt(i, q) /\ q # r
          BY <1>7, <1>8, <2>3, <4>1
        <5>2. transcript[n].text # TextOf(q)
          BY <1>3, <2>1, <4>1, <5>1 DEF AnswersMatch
        <5> QED
          BY <1>5, <2>3, <5>1, <5>2
      <4>2. CASE i = N + 1
        <5>1. q = r
          BY <1>7, <2>3, <4>2
        <5>2. PICK p \in ScreenRun \ {r} : Delivered(p) /\ transcript[n].text = TextOf(p)
          BY <3>3
        <5>3. spoken[p] > 0 /\ spoken'[p] > 0
          BY <5>2 DEF Delivered
        <5>4. TextOf(p)' # TextOf(r)'
          <6>1. \A s \in ScreenRun : TextOf(s)' = TextOf(p)' /\ spoken'[p] > 0 => s = p
            <7>1. spoken'[p] \in Nat /\ \A s \in ScreenRun : spoken'[s] \in Nat /\ TextOf(s)' = Words(spoken'[s], s)
              BY DEF TextOf, Words
            <7> QED
              <8> SUFFICES ASSUME NEW s \in ScreenRun, TextOf(s)' = TextOf(p)', spoken'[p] > 0
                           PROVE  s = p
                OBVIOUS
              <8>1. Words(spoken'[s], s) = Words(spoken'[p], p)
                BY <7>1
              <8>2. PICK m \in Nat : m = spoken'[p]
                BY <7>1
              <8>3. PICK k \in Nat : k = spoken'[s]
                BY <7>1
              <8>4. Words(k, s) = Words(m, p) /\ m > 0
                BY <8>1, <8>2, <8>3
              <8>5. \A a \in Nat : \A c \in ScreenRun : Words(a, c) = Words(m, p) /\ m > 0 => c = p
                BY Texts
              <8> QED
                BY <8>4, <8>5
          <6> QED
            BY <5>2, <5>3, <6>1
        <5> QED
          BY <1>5, <5>1, <5>2, <5>4
      <4> QED
        BY <1>3, <4>1, <4>2
    <3>7. \A q \in ScreenRun : Delivered(q)' =>
            \/ \E i \in DOMAIN wire' : DeliverAt(i, q)'
            \/ \E n \in Answers' : transcript'[n].text = TextOf(q)'
      <4> SUFFICES ASSUME NEW q \in ScreenRun, Delivered(q)'
                   PROVE  \/ \E i \in 1..N + 1 : DeliverAt(i, q)'
                          \/ \E n \in Answers : transcript[n].text = TextOf(q)'
        BY <1>4, <3>1
      <4>1. CASE q = r
        <5>1. N + 1 \in 1..N + 1 /\ DeliverAt(N + 1, q)'
          BY <1>3, <1>7, <3>2, <4>1
        <5> QED
          BY <5>1
      <4>2. CASE q # r
        <5>1. \/ \E i \in 1..N : DeliverAt(i, q)
              \/ \E n \in Answers : transcript[n].text = TextOf(q)
          BY <1>3, <2>1, <3>2, <4>2 DEF AnswersMatch
        <5>2. \A i \in 1..N : i \in 1..N + 1
          BY <1>3
        <5> QED
          BY <1>5, <1>7, <4>2, <5>1, <5>2
      <4> QED
        BY <4>1, <4>2
    <3> QED
      BY <3>4, <3>5, <3>6, <3>7 DEF AnswersMatch
  <2>7. \E T \in [0..Len(wire') -> Seq(Piece)] : Foreseen(T)'
    <3>1. PICK T \in [0..N -> Seq(Piece)] : Foreseen(T)
      BY <2>1
    <3>0. /\ \A q \in Mine : LiveRun(q) => T[N] = TextOf(q)
          /\ \A i \in 1..N : \A q \in Mine : DeliverAt(i, q) => T[i - 1] = TextOf(q)
      BY <1>3, <3>1 DEF Foreseen
    <3>2. T[N] \in Seq(Piece) /\ T[0] = streamText
      BY <1>3, <3>1 DEF Foreseen
    <3>3. Heard(T[N], event) \in Seq(Piece)
      BY <1>2, <3>2, EmptySeq, AppendProperties DEF Heard, Event
    <3>4. PICK U \in [0..N + 1 -> Seq(Piece)] :
            U[N + 1] = Heard(T[N], event) /\ \A i \in 0..N : U[i] = T[i]
      <4> DEFINE V == [i \in 0..N + 1 |-> IF i <= N THEN T[i] ELSE Heard(T[N], event)]
      <4>1. V \in [0..N + 1 -> Seq(Piece)]
        BY <1>3, <3>1, <3>3
      <4>2. V[N + 1] = Heard(T[N], event) /\ \A i \in 0..N : V[i] = T[i]
        BY <1>3
      <4> HIDE DEF V
      <4> QED
        BY <4>1, <4>2
    <3>5. U[0] = streamText'
      BY <1>1, <1>3, <3>2, <3>4
    <3>6. \A i \in DOMAIN wire' : U[i] = Heard(U[i - 1], wire'[i])
      <4> SUFFICES ASSUME NEW i \in 1..N + 1 PROVE U[i] = Heard(U[i - 1], wire'[i])
        BY <1>4
      <4>1. CASE i \in 1..N
        <5>1. i - 1 \in 0..N /\ i \in 0..N
          BY <1>3, <4>1
        <5>2. T[i] = Heard(T[i - 1], wire[i])
          BY <1>3, <3>1, <4>1 DEF Foreseen
        <5> QED
          BY <1>4, <3>4, <4>1, <5>1, <5>2
      <4>2. CASE i = N + 1
        <5>1. U[i - 1] = T[N]
          BY <1>3, <3>4, <4>2
        <5> QED
          BY <1>4, <3>4, <4>2, <5>1
      <4> QED
        BY <1>3, <4>1, <4>2
    <3>7. \A i \in DOMAIN wire' : \A q \in Mine : DeliverAt(i, q)' => U[i - 1] = TextOf(q)'
      <4> SUFFICES ASSUME NEW i \in 1..N + 1, NEW q \in Mine, DeliverAt(i, q)'
                   PROVE  U[i - 1] = TextOf(q)'
        BY <1>4
      <4>1. CASE i \in 1..N
        <5>1. DeliverAt(i, q) /\ q # r
          BY <1>7, <1>8, <2>3, <4>1
        <5>2. T[i - 1] = TextOf(q) /\ i - 1 \in 0..N
          BY <1>3, <3>0, <4>1, <5>1
        <5> QED
          BY <1>5, <2>3, <3>4, <5>1, <5>2
      <4>2. CASE i = N + 1
        <5>1. q = r /\ kind = "deliver"
          BY <1>7, <2>3, <4>2
        <5>2. LiveRun(r) /\ TextOf(r)' = TextOf(r)
          BY <5>1 DEF TextOf
        <5>3. T[N] = TextOf(r)
          BY <3>0, <5>1, <5>2
        <5>4. U[i - 1] = T[N]
          BY <1>3, <3>4, <4>2
        <5> QED
          BY <5>1, <5>2, <5>3, <5>4
      <4> QED
        BY <1>3, <4>1, <4>2
    <3>8. \A q \in Mine : LiveRun(q)' => U[Len(wire')] = TextOf(q)'
      <4> SUFFICES ASSUME NEW q \in Mine, LiveRun(q)' PROVE U[N + 1] = TextOf(q)'
        BY <1>4
      <4>1. CASE q # r
        <5>1. LiveRun(q) /\ r \notin Mine /\ TextOf(q)' = TextOf(q)
          BY <1>5, <2>2, <2>3, <2>4, <4>1
        <5>2. T[N] = TextOf(q) /\ Heard(T[N], event) = T[N]
          BY <1>2, <3>0, <5>1 DEF Heard, Concerns
        <5> QED
          BY <3>4, <5>1, <5>2
      <4>2. CASE q = r
        <5>1. Concerns(event)
          BY <1>2, <4>2 DEF Concerns
        <5>2. kind \notin {"deliver", "error"}
          BY <4>2 DEF LiveRun
        <5>3. CASE kind = "intake"
          <6>1. Heard(T[N], event) = <<>>
            BY <1>2, <5>1, <5>3 DEF Heard
          <6>2. TextOf(r)' = <<>>
            <7>1. TextOf(r)' = Words(0, r)
              BY <5>3 DEF TextOf, Words
            <7> QED
              BY <7>1, Texts
          <6> QED
            BY <3>4, <4>2, <6>1, <6>2
        <5>4. CASE kind = "delta"
          <6>1. Heard(T[N], event) = Append(T[N], <<r, spoken[r] + 1>>)
            BY <1>2, <5>1, <5>4 DEF Heard
          <6>2. T[N] = TextOf(r)
            BY <3>0, <4>2, <5>4
          <6>3. spoken[r] \in Nat /\ spoken'[r] = spoken[r] + 1
            BY <1>3, <5>4
          <6>4. TextOf(r)' = Append(TextOf(r), <<r, spoken[r] + 1>>)
            <7>1. TextOf(r)' = Words(spoken[r] + 1, r) /\ TextOf(r) = Words(spoken[r], r)
              BY <6>3 DEF TextOf, Words
            <7> QED
              BY <6>3, <7>1, Texts
          <6> QED
            BY <3>4, <4>2, <6>1, <6>2, <6>4
        <5>5. CASE kind \notin {"intake", "delta"}
          <6>1. Heard(T[N], event) = T[N]
            BY <1>2, <5>2, <5>5 DEF Heard
          <6>2. T[N] = TextOf(r) /\ TextOf(r)' = TextOf(r)
            BY <3>0, <4>2, <5>5 DEF TextOf
          <6> QED
            BY <3>4, <4>2, <6>1, <6>2
        <5> QED
          BY <5>3, <5>4, <5>5
      <4> QED
        BY <4>1, <4>2
    <3>9. Foreseen(U)'
      BY <3>5, <3>6, <3>7, <3>8 DEF Foreseen, Heard, Concerns
    <3> QED
      BY <1>4, <3>4, <3>9
  <2> QED
    BY <1>6, <1>9, <2>5, <2>6, <2>7 DEF ScreenInv
<1> QED
  BY <1>6, <1>9, <1>10 DEF ScreenInv

(* The screen hears the first event of the wire.                            *)
LEMMA HearStep ==
  ASSUME ScreenInv, ScreenHears
  PROVE  ScreenInv'
<1>1. /\ wire # <<>> /\ wire' = Tail(wire)
      /\ UNCHANGED <<stage, spoken, called, overlapped>>
  BY DEF ScreenHears
<1>2. PICK N \in Nat : N = Len(wire)
  BY DEF ScreenInv, ScreenTypes
<1>3. /\ wire \in Seq(Event) /\ DOMAIN wire = 1..N /\ N # 0 /\ Len(wire) = N
      /\ stage \in [ScreenRun -> {"idle", "streaming", "tool", "delivered", "failed"}]
      /\ spoken \in [ScreenRun -> Nat] /\ streamText \in Seq(Piece) /\ transcript \in Seq(Line)
  BY <1>1, <1>2, EmptySeq DEF ScreenInv, ScreenTypes
<1>4. PICK event \in Event : event = wire[1]
  BY <1>3
<1>5. Head(wire) = event
  BY <1>1, <1>3, <1>4
<1>6. /\ wire' \in Seq(Event) /\ Len(wire') = N - 1 /\ DOMAIN wire' = 1..N - 1
      /\ \A i \in 1..N - 1 : wire'[i] = wire[i + 1]
  BY <1>1, <1>3, HeadTailProperties
<1>7. \A q \in ScreenRun : TextOf(q)' = TextOf(q) /\ (LiveRun(q)' <=> LiveRun(q)) /\ (Delivered(q)' <=> Delivered(q))
  BY <1>1 DEF TextOf, LiveRun, Delivered
<1>8. \A i \in 1..N - 1 : i + 1 \in 1..N /\ \A q \in ScreenRun : DeliverAt(i, q)' <=> DeliverAt(i + 1, q)
  BY <1>3, <1>6 DEF DeliverAt
<1>9. /\ streamText' = Heard(streamText, event)
      /\ IF Concerns(event) /\ event.kind = "deliver" /\ streamText # <<>>
         THEN transcript' = Append(transcript, [kind |-> "assistant", text |-> streamText])
         ELSE \/ transcript' = transcript
              \/ transcript' = Append(transcript, [kind |-> "tool", text |-> <<>>])
              \/ transcript' = Append(transcript, [kind |-> "system", text |-> <<>>])
  <2>1. CASE ~Concerns(event)
    <3>1. UNCHANGED <<streamText, transcript>>
      BY <1>5, <2>1 DEF ScreenHears
    <3> QED
      BY <2>1, <3>1 DEF Heard
  <2>2. CASE Concerns(event)
    <3>1. OnDelta(event) \/ OnStage(event) \/ OnTool(event) \/ OnError(event)
      BY <1>5, <2>2 DEF ScreenHears
    <3>2. CASE OnDelta(event)
      BY <2>2, <3>2 DEF Heard, OnDelta
    <3>3. CASE OnStage(event)
      BY <2>2, <3>3 DEF Heard, OnStage, Push
    <3>4. CASE OnTool(event)
      BY <2>2, <3>4 DEF Heard, OnTool, Push
    <3>5. CASE OnError(event)
      BY <2>2, <3>5 DEF Heard, OnError, Push
    <3> QED
      BY <3>1, <3>2, <3>3, <3>4, <3>5
  <2> QED
    BY <2>1, <2>2
<1>10. streamText' \in Seq(Piece)
  BY <1>3, <1>9, EmptySeq, AppendProperties DEF Heard, Event
<1>11. transcript' \in Seq(Line)
  <2>1. /\ [kind |-> "assistant", text |-> streamText] \in Line
        /\ [kind |-> "tool", text |-> <<>>] \in Line
        /\ [kind |-> "system", text |-> <<>>] \in Line
    BY <1>3, EmptySeq DEF Line
  <2>2. \A line \in Line : Append(transcript, line) \in Seq(Line)
    BY <1>3, AppendProperties
  <2> QED
    BY <1>3, <1>9, <2>1, <2>2
<1>12. ScreenTypes'
  BY <1>1, <1>3, <1>6, <1>10, <1>11 DEF ScreenInv, ScreenTypes
<1>13. DeliversOnce'
  <2>1. DeliversOnce
    BY DEF ScreenInv
  <2>2. \A q \in ScreenRun : stage'[q] = "idle" => spoken'[q] = 0
    BY <1>1, <2>1 DEF DeliversOnce
  <2>3. \A i \in DOMAIN wire' : \A q \in ScreenRun : DeliverAt(i, q)' => stage'[q] = "delivered"
    BY <1>1, <1>3, <1>6, <1>8, <2>1 DEF DeliversOnce
  <2>4. ASSUME NEW i \in 1..N - 1, NEW j \in 1..N - 1, NEW q \in ScreenRun, DeliverAt(i, q)', DeliverAt(j, q)'
        PROVE  i = j
    <3>1. i + 1 = j + 1
      <4>1. /\ i + 1 \in DOMAIN wire /\ j + 1 \in DOMAIN wire
            /\ DeliverAt(i + 1, q) /\ DeliverAt(j + 1, q)
        BY <1>3, <1>8, <2>4
      <4> QED
        BY <2>1, <4>1 DEF DeliversOnce
    <3> QED
      BY <3>1
  <2> QED
    BY <1>6, <2>2, <2>3, <2>4 DEF DeliversOnce
<1>14. CASE ~overlapped
  <2>1. /\ OneLiveRun /\ AnswersMatch /\ Mine \subseteq ScreenRun
        /\ \E T \in [0..N -> Seq(Piece)] : Foreseen(T)
    BY <1>2, <1>14, ScreenAssumption DEF ScreenInv
  <2>2. OneLiveRun'
    BY <1>7, <2>1 DEF OneLiveRun
  <2>3. PICK T \in [0..N -> Seq(Piece)] : Foreseen(T)
    BY <2>1
  <2>4. \E U \in [0..Len(wire') -> Seq(Piece)] : Foreseen(U)'
    <3>1. /\ T[0] = streamText /\ \A i \in 1..N : T[i] = Heard(T[i - 1], wire[i])
          /\ \A i \in 1..N : \A q \in Mine : DeliverAt(i, q) => T[i - 1] = TextOf(q)
          /\ \A q \in Mine : LiveRun(q) => T[N] = TextOf(q)
      BY <1>3, <2>3 DEF Foreseen
    <3>2. PICK U \in [0..N - 1 -> Seq(Piece)] : \A i \in 0..N - 1 : U[i] = T[i + 1]
      <4> DEFINE V == [i \in 0..N - 1 |-> T[i + 1]]
      <4>1. \A i \in 0..N - 1 : i + 1 \in 0..N
        BY <1>3
      <4>2. V \in [0..N - 1 -> Seq(Piece)] /\ \A i \in 0..N - 1 : V[i] = T[i + 1]
        BY <2>3, <4>1
      <4> HIDE DEF V
      <4> QED
        BY <4>2
    <3>3. U[0] = streamText'
      <4>1. U[0] = T[1] /\ T[1] = Heard(T[0], wire[1])
        BY <1>3, <3>1, <3>2
      <4> QED
        BY <1>4, <1>9, <3>1, <4>1
    <3>4. \A i \in 1..N - 1 : U[i] = Heard(U[i - 1], wire'[i])
      <4> SUFFICES ASSUME NEW i \in 1..N - 1 PROVE U[i] = Heard(U[i - 1], wire'[i])
        OBVIOUS
      <4>1. U[i] = T[i + 1] /\ U[i - 1] = T[i]
        BY <3>2
      <4>2. T[i + 1] = Heard(T[i], wire[i + 1])
        <5>1. i + 1 \in 1..N /\ (i + 1) - 1 = i
          OBVIOUS
        <5> QED
          BY <3>1, <5>1
      <4> QED
        BY <1>6, <4>1, <4>2
    <3>5. \A i \in 1..N - 1 : \A q \in Mine : DeliverAt(i, q)' => U[i - 1] = TextOf(q)'
      <4> SUFFICES ASSUME NEW i \in 1..N - 1, NEW q \in Mine, DeliverAt(i, q)'
                   PROVE  U[i - 1] = TextOf(q)'
        OBVIOUS
      <4>1. i + 1 \in 1..N /\ (i + 1) - 1 = i /\ DeliverAt(i + 1, q)
        BY <1>8, <2>1
      <4>2. T[i] = TextOf(q) /\ U[i - 1] = T[i]
        BY <3>1, <3>2, <4>1
      <4> QED
        BY <1>7, <2>1, <4>2
    <3>6. \A q \in Mine : LiveRun(q)' => U[N - 1] = TextOf(q)'
      <4>1. U[N - 1] = T[N]
        BY <1>3, <3>2
      <4> QED
        BY <1>7, <2>1, <3>1, <4>1
    <3>7. Foreseen(U)'
      BY <1>6, <3>3, <3>4, <3>5, <3>6 DEF Foreseen, Heard, Concerns
    <3> QED
      BY <1>6, <3>2, <3>7
  <2>5. AnswersMatch'
    <3>1. PICK L \in Nat : L = Len(transcript) /\ DOMAIN transcript = 1..L
      BY <1>3
    <3>2. \A q \in Mine : DeliverAt(1, q) => streamText = TextOf(q)
      <4>1. 1 \in DOMAIN wire /\ T[0] = streamText
        BY <1>3, <2>3 DEF Foreseen
      <4> QED
        BY <2>3, <4>1 DEF Foreseen
    <3>3. \A i \in 1..N - 1 : \A q \in ScreenRun : DeliverAt(1, q) => ~DeliverAt(i, q)'
      <4> SUFFICES ASSUME NEW i \in 1..N - 1, NEW q \in ScreenRun, DeliverAt(1, q), DeliverAt(i, q)'
                   PROVE  FALSE
        OBVIOUS
      <4>1. 1 \in DOMAIN wire /\ i + 1 \in DOMAIN wire /\ DeliverAt(i + 1, q)
        BY <1>3, <1>8
      <4>2. 1 = i + 1
        BY <4>1 DEF ScreenInv, DeliversOnce
      <4> QED
        BY <4>2
    <3>4. CASE Concerns(event) /\ event.kind = "deliver" /\ streamText # <<>>
      <4>1. PICK r \in Mine : event.run = r
        BY <3>4 DEF Concerns
      <4>2. r \in ScreenRun /\ DeliverAt(1, r) /\ streamText = TextOf(r)
        BY <1>4, <2>1, <3>2, <3>4, <4>1 DEF DeliverAt
      <4>3. Delivered(r)
        <5>1. stage[r] = "delivered"
          <6>1. 1 \in DOMAIN wire
            BY <1>3
          <6> QED
            BY <4>2, <6>1 DEF ScreenInv, DeliversOnce
        <5>2. spoken[r] \in Nat /\ TextOf(r) = Words(spoken[r], r)
          BY <1>3, <4>2 DEF TextOf, Words
        <5>3. spoken[r] # 0
          BY <3>4, <4>2, <5>2, Texts
        <5> QED
          BY <5>1, <5>2, <5>3 DEF Delivered
      <4>4. /\ DOMAIN transcript' = 1..L + 1 /\ \A n \in 1..L : transcript'[n] = transcript[n]
            /\ transcript'[L + 1] = [kind |-> "assistant", text |-> streamText]
        <5>1. [kind |-> "assistant", text |-> streamText] \in Line
          BY <1>3 DEF Line
        <5>2. transcript' = Append(transcript, [kind |-> "assistant", text |-> streamText])
          BY <1>9, <3>4
        <5> QED
          BY <1>3, <3>1, <5>1, <5>2, AppendProperties
      <4>5. /\ Answers \subseteq 1..L /\ Answers' = Answers \cup {L + 1}
            /\ \A n \in Answers : transcript'[n] = transcript[n]
            /\ transcript'[L + 1].text = TextOf(r)
        BY <3>1, <4>2, <4>4 DEF Answers
      <4>6. \A n \in Answers : transcript[n].text # TextOf(r)
        <5>1. 1 \in DOMAIN wire
          BY <1>3
        <5> QED
          BY <2>1, <4>2, <5>1 DEF AnswersMatch
      <4>7. \A n \in Answers' : \E q \in ScreenRun : Delivered(q)' /\ transcript'[n].text = TextOf(q)'
        BY <1>7, <2>1, <4>2, <4>3, <4>5 DEF AnswersMatch
      <4>8. \A k, n \in Answers' : transcript'[k].text = transcript'[n].text => k = n
        <5>1. \A k, n \in Answers : transcript[k].text = transcript[n].text => k = n
          BY <2>1 DEF AnswersMatch
        <5>2. L + 1 \notin Answers
          BY <3>1, <4>5
        <5>3. \A n \in Answers : transcript'[n].text # transcript'[L + 1].text
          BY <4>5, <4>6
        <5> SUFFICES ASSUME NEW k \in Answers', NEW n \in Answers', transcript'[k].text = transcript'[n].text
                     PROVE  k = n
          OBVIOUS
        <5>4. CASE k \in Answers /\ n \in Answers
          BY <4>5, <5>1, <5>4
        <5>5. CASE k = L + 1 \/ n = L + 1
          BY <4>5, <5>3, <5>5
        <5> QED
          BY <4>5, <5>4, <5>5
      <4>9. \A i \in 1..N - 1 : \A q \in Mine : DeliverAt(i, q)' =>
              \A n \in Answers' : transcript'[n].text # TextOf(q)'
        <5> SUFFICES ASSUME NEW i \in 1..N - 1, NEW q \in Mine, DeliverAt(i, q)', NEW n \in Answers'
                     PROVE  transcript'[n].text # TextOf(q)
          BY <1>7, <2>1
        <5>1. q \in ScreenRun /\ i + 1 \in DOMAIN wire /\ DeliverAt(i + 1, q) /\ q # r
          BY <1>3, <1>8, <2>1, <3>3, <4>2
        <5>2. CASE n \in Answers
          BY <2>1, <4>5, <5>1, <5>2 DEF AnswersMatch
        <5>3. CASE n = L + 1
          <6>1. TextOf(q) # TextOf(r)
            <7>1. PICK m \in Nat : m = spoken[r] /\ TextOf(r) = Words(m, r) /\ m > 0
              BY <1>3, <4>2, <4>3 DEF Delivered, TextOf, Words
            <7>2. PICK k \in Nat : k = spoken[q] /\ TextOf(q) = Words(k, q)
              BY <1>3, <5>1 DEF TextOf, Words
            <7>3. \A p \in ScreenRun : Words(k, p) = Words(m, r) => p = r
              BY <4>2, <7>1, <7>2, Texts
            <7> QED
              BY <5>1, <7>1, <7>2, <7>3
          <6> QED
            BY <4>5, <5>3, <6>1
        <5> QED
          BY <4>5, <5>2, <5>3
      <4>10. \A q \in ScreenRun : Delivered(q)' =>
               \/ \E i \in 1..N - 1 : DeliverAt(i, q)'
               \/ \E n \in Answers' : transcript'[n].text = TextOf(q)'
        <5> SUFFICES ASSUME NEW q \in ScreenRun, Delivered(q)
                     PROVE  \/ \E i \in 1..N - 1 : DeliverAt(i, q)'
                            \/ \E n \in Answers' : transcript'[n].text = TextOf(q)
          BY <1>7
        <5>1. CASE q = r
          BY <4>5, <5>1
        <5>2. CASE q # r
          <6>1. ~DeliverAt(1, q)
            BY <1>4, <4>1, <5>2 DEF DeliverAt
          <6>2. CASE \E i \in DOMAIN wire : DeliverAt(i, q)
            <7>1. PICK i \in 1..N : DeliverAt(i, q)
              BY <1>3, <6>2
            <7>2. i - 1 \in 1..N - 1 /\ (i - 1) + 1 = i
              BY <1>3, <6>1, <7>1
            <7> QED
              BY <1>8, <7>1, <7>2
          <6>3. CASE \E n \in Answers : transcript[n].text = TextOf(q)
            BY <4>5, <6>3
          <6> QED
            BY <2>1, <6>2, <6>3 DEF AnswersMatch
        <5> QED
          BY <5>1, <5>2
      <4> QED
        BY <1>6, <4>7, <4>8, <4>9, <4>10 DEF AnswersMatch
    <3>5. CASE ~(Concerns(event) /\ event.kind = "deliver" /\ streamText # <<>>)
      <4>1. /\ Answers' = Answers
            /\ \A n \in Answers : transcript'[n] = transcript[n]
        <5>1. CASE transcript' = transcript
          BY <5>1 DEF Answers
        <5>2. ASSUME NEW kind \in {"tool", "system"},
                     transcript' = Append(transcript, [kind |-> kind, text |-> <<>>])
              PROVE  Answers' = Answers /\ \A n \in Answers : transcript'[n] = transcript[n]
          <6>1. [kind |-> kind, text |-> <<>>] \in Line
            BY EmptySeq DEF Line
          <6>2. /\ DOMAIN transcript' = 1..L + 1 /\ \A n \in 1..L : transcript'[n] = transcript[n]
                /\ transcript'[L + 1] = [kind |-> kind, text |-> <<>>]
            BY <1>3, <3>1, <5>2, <6>1, AppendProperties
          <6>3. transcript'[L + 1].kind # "assistant"
            BY <6>2
          <6> QED
            BY <3>1, <6>2, <6>3 DEF Answers
        <5> QED
          BY <1>9, <3>5, <5>1, <5>2
      <4>2. \A n \in Answers' : \E q \in ScreenRun : Delivered(q)' /\ transcript'[n].text = TextOf(q)'
        BY <1>7, <2>1, <4>1 DEF AnswersMatch
      <4>3. \A k, n \in Answers' : transcript'[k].text = transcript'[n].text => k = n
        <5>1. \A k, n \in Answers : transcript[k].text = transcript[n].text => k = n
          BY <2>1 DEF AnswersMatch
        <5> QED
          BY <4>1, <5>1
      <4>4. \A i \in 1..N - 1 : \A q \in Mine : DeliverAt(i, q)' =>
              \A n \in Answers' : transcript'[n].text # TextOf(q)'
        <5> SUFFICES ASSUME NEW i \in 1..N - 1, NEW q \in Mine, DeliverAt(i, q)', NEW n \in Answers'
                     PROVE  transcript'[n].text # TextOf(q)'
          OBVIOUS
        <5>1. i + 1 \in DOMAIN wire /\ DeliverAt(i + 1, q)
          BY <1>3, <1>8, <2>1
        <5>2. n \in Answers /\ transcript'[n] = transcript[n] /\ TextOf(q)' = TextOf(q)
          BY <1>7, <2>1, <4>1
        <5>3. transcript[n].text # TextOf(q)
          BY <2>1, <5>1, <5>2 DEF AnswersMatch
        <5> QED
          BY <5>2, <5>3
      <4>5. \A q \in ScreenRun : Delivered(q)' =>
              \/ \E i \in 1..N - 1 : DeliverAt(i, q)'
              \/ \E n \in Answers' : transcript'[n].text = TextOf(q)'
        <5> SUFFICES ASSUME NEW q \in ScreenRun, Delivered(q)
                     PROVE  \/ \E i \in 1..N - 1 : DeliverAt(i, q)'
                            \/ \E n \in Answers : transcript[n].text = TextOf(q)
          BY <1>7, <4>1
        <5>1. ~DeliverAt(1, q)
          <6> SUFFICES ASSUME DeliverAt(1, q) PROVE FALSE
            OBVIOUS
          <6>1. q \in Mine /\ spoken[q] > 0
            BY DEF Delivered
          <6>2. streamText = <<>>
            BY <1>4, <3>5, <6>1 DEF DeliverAt, Concerns
          <6>3. spoken[q] \in Nat /\ TextOf(q) = Words(spoken[q], q)
            BY <1>3 DEF TextOf, Words
          <6>4. PICK k \in Nat : k = spoken[q] /\ TextOf(q) = Words(k, q) /\ k # 0
            BY <6>1, <6>3
          <6>5. Words(k, q) = <<>>
            BY <3>2, <6>1, <6>2, <6>4
          <6> QED
            BY <6>4, <6>5, Texts
        <5>2. CASE \E i \in DOMAIN wire : DeliverAt(i, q)
          <6>1. PICK i \in 1..N : DeliverAt(i, q)
            BY <1>3, <5>2
          <6>2. i - 1 \in 1..N - 1 /\ (i - 1) + 1 = i
            BY <1>3, <5>1, <6>1
          <6> QED
            BY <1>8, <6>1, <6>2
        <5> QED
          BY <2>1, <5>2 DEF AnswersMatch
      <4> QED
        BY <1>6, <4>2, <4>3, <4>4, <4>5 DEF AnswersMatch
    <3> QED
      BY <3>4, <3>5
  <2> QED
    BY <1>12, <1>13, <2>2, <2>4, <2>5 DEF ScreenInv
<1> QED
  BY <1>1, <1>12, <1>13, <1>14 DEF ScreenInv

LEMMA ScreenStep == ScreenInv /\ [ScreenNext]_screenVars => ScreenInv'
<1> SUFFICES ASSUME ScreenInv, [ScreenNext]_screenVars PROVE ScreenInv'
  OBVIOUS
<1>1. /\ stage \in [ScreenRun -> {"idle", "streaming", "tool", "delivered", "failed"}]
      /\ spoken \in [ScreenRun -> Nat] /\ overlapped \in BOOLEAN
      /\ \A r \in ScreenRun : stage[r] = "idle" => spoken[r] = 0
      /\ Mine \subseteq ScreenRun
  BY ScreenAssumption DEF ScreenInv, ScreenTypes, DeliversOnce
<1>2. ASSUME NEW r \in ScreenRun, RunBegins(r) PROVE ScreenInv'
  <2>1. /\ stage[r] = "idle" /\ stage' = [stage EXCEPT ![r] = "streaming"]
        /\ spoken' = spoken /\ Emit(r, "intake")
        /\ overlapped' = (overlapped \/ (r \in Mine /\ \E q \in Mine : LiveRun(q)))
    BY <1>2 DEF RunBegins
  <2>2. /\ overlapped' \in BOOLEAN /\ (overlapped => overlapped')
        /\ r \in Mine /\ ~overlapped' => \A q \in Mine : ~LiveRun(q)
    BY <2>1, Zenon
  <2> QED
    BY <1>1, <2>1, <2>2, EmitStep DEF Kinds
<1>3. ASSUME NEW r \in ScreenRun, RunSpeaks(r) PROVE ScreenInv'
  <2>1. /\ stage[r] = "streaming" /\ spoken' = [spoken EXCEPT ![r] = @ + 1]
        /\ stage' = stage /\ overlapped' = overlapped /\ Emit(r, "delta")
    BY <1>3 DEF RunSpeaks
  <2> QED
    BY <1>1, <2>1, EmitStep DEF Kinds, LiveRun
<1>4. ASSUME NEW r \in ScreenRun, RunTool(r) PROVE ScreenInv'
  <2>1. spoken' = spoken /\ overlapped' = overlapped
    BY <1>4 DEF RunTool
  <2>2. CASE stage[r] = "streaming" /\ stage' = [stage EXCEPT ![r] = "tool"] /\ Emit(r, "start")
    BY <1>1, <2>1, <2>2, EmitStep DEF Kinds, LiveRun
  <2>3. CASE stage[r] = "tool" /\ stage' = [stage EXCEPT ![r] = "streaming"] /\ Emit(r, "end")
    BY <1>1, <2>1, <2>3, EmitStep DEF Kinds, LiveRun
  <2> QED
    BY <1>4, <2>2, <2>3 DEF RunTool
<1>5. ASSUME NEW r \in ScreenRun, RunDelivers(r) PROVE ScreenInv'
  <2>1. /\ stage[r] = "streaming" /\ stage' = [stage EXCEPT ![r] = "delivered"]
        /\ spoken' = spoken /\ overlapped' = overlapped /\ Emit(r, "deliver")
    BY <1>5 DEF RunDelivers
  <2> QED
    BY <1>1, <2>1, EmitStep DEF Kinds, LiveRun
<1>6. ASSUME NEW r \in ScreenRun, RunFails(r) PROVE ScreenInv'
  <2>1. /\ LiveRun(r) /\ stage' = [stage EXCEPT ![r] = "failed"]
        /\ spoken' = spoken /\ overlapped' = overlapped /\ Emit(r, "error")
    BY <1>6 DEF RunFails
  <2> QED
    BY <1>1, <2>1, EmitStep DEF Kinds, LiveRun
<1>7. CASE UNCHANGED screenVars
  <2>1. UNCHANGED <<stage, spoken, called, wire, streamText, streaming, transcript, overlapped>>
    BY <1>7 DEF screenVars
  <2>2. ScreenTypes' /\ DeliversOnce'
    BY <2>1 DEF ScreenInv, ScreenTypes, DeliversOnce, DeliverAt
  <2>3. (OneLiveRun' <=> OneLiveRun) /\ (AnswersMatch' <=> AnswersMatch)
    BY <2>1 DEF OneLiveRun, AnswersMatch, DeliverAt, Answers, Delivered, TextOf, LiveRun
  <2>4. (\E T \in [0..Len(wire) -> Seq(Piece)] : Foreseen(T))' <=>
           \E T \in [0..Len(wire) -> Seq(Piece)] : Foreseen(T)
    BY <2>1 DEF Foreseen, Heard, Concerns, DeliverAt, TextOf, LiveRun
  <2> QED
    BY <2>1, <2>2, <2>3, <2>4 DEF ScreenInv
<1> QED
  BY <1>2, <1>3, <1>4, <1>5, <1>6, <1>7, HearStep DEF ScreenNext

(* An answer in the transcript is the whole text of one delivered run of    *)
(* the session, and every delivered run has its answer once all has come    *)
(* (App.tsx:147), for any number of runs, sessions, pieces and messages, as *)
(* long as the runs of the session follow one another.                      *)
THEOREM AnswersAreRuns == ScreenSpec => []AnswersAreWhole
<1>1. ScreenInv => AnswersAreWhole
  <2> SUFFICES ASSUME ScreenInv, ~overlapped
               PROVE  /\ \A n \in Answers : \E r \in ScreenRun : Delivered(r) /\ transcript[n].text = TextOf(r)
                      /\ wire = <<>> => \A r \in ScreenRun : Delivered(r) =>
                           \E n \in Answers : /\ transcript[n].text = TextOf(r)
                                              /\ \A k \in Answers : transcript[k].text = TextOf(r) => k = n
    BY DEF AnswersAreWhole
  <2>1. AnswersMatch
    BY DEF ScreenInv
  <2>2. wire = <<>> => DOMAIN wire = {}
    OBVIOUS
  <2>3. ASSUME wire = <<>>, NEW r \in ScreenRun, Delivered(r)
        PROVE  \E n \in Answers : /\ transcript[n].text = TextOf(r)
                                  /\ \A k \in Answers : transcript[k].text = TextOf(r) => k = n
    <3>1. PICK n \in Answers : transcript[n].text = TextOf(r)
      BY <2>1, <2>2, <2>3 DEF AnswersMatch
    <3> QED
      BY <2>1, <3>1 DEF AnswersMatch
  <2> QED
    BY <2>1, <2>3 DEF AnswersMatch
<1> QED
  BY <1>1, ScreenInitially, ScreenStep, PTL DEF ScreenSpec

(* ------------------------- one of them at a time ------------------------- *)

(* What is listed of the operations has its types whichever of them is     *)
(* followed: each keeps its invariant, by its own steps and by the others'. *)
THEOREM OperationsAreTyped == OperationsSpec => []OperationsTypeOK
<1> DEFINE IInv == /\ DraftInv /\ SkillInv /\ GoogleInv /\ ShellInv
                   /\ FileInv /\ WebInv /\ SetupInv /\ DiscoveryInv
<1>1. OperationsInit => IInv
  BY DraftInitially, SkillInitially, GoogleInitially, ShellInitially, FileInitially,
     WebInitially, SetupInitially, DiscoveryInitially DEF OperationsInit
<1>2. IInv /\ [OperationsNext]_<<focus, streamVars, draftVars, skillVars, googleVars, shellVars,
                                fileVars, webVars, setupVars, discoveryVars, screenVars>> => IInv'
  <2>1. [OperationsNext]_<<focus, streamVars, draftVars, skillVars, googleVars, shellVars,
                           fileVars, webVars, setupVars, discoveryVars, screenVars>> =>
          /\ [DraftNext]_draftVars /\ [SkillNext]_skillVars
          /\ [GoogleNext]_googleVars /\ [ShellNext]_shellVars
          /\ [FileNext]_fileVars /\ [WebNext]_webVars
          /\ [SetupNext]_setupVars /\ [DiscoveryNext]_discoveryVars
    BY DEF OperationsNext, Follows
  <2> QED
    BY <2>1, DraftStep, SkillStep, GoogleStep, ShellStep, FileStep, WebStep, SetupStep,
       DiscoveryStep
<1>3. IInv => OperationsTypeOK
  BY DEF DraftInv, SkillInv, GoogleInv, ShellInv, FileInv, WebInv, SetupInv, DiscoveryInv,
         OperationsTypeOK
<1> QED
  BY <1>1, <1>2, <1>3, PTL DEF OperationsSpec
=============================================================================
