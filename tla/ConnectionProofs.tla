-------------------------- MODULE ConnectionProofs --------------------------
(***************************************************************************)
(* Proofs about the modules in which somebody waits for an answer: the way *)
(* of a prompt (PromptRoundTrip), the browser bridges (BrowserBridge), the *)
(* MCP servers (McpServers) and the panel of judges (JudgePanel); each has *)
(* an inductive invariant of its own, and the instance that follows one of *)
(* them at a time keeps all four.                                          *)
(***************************************************************************)
EXTENDS MCConnections, FiniteSetTheorems, SequenceTheorems, NaturalsInduction,
        WellFoundedInduction, TLAPS

(* ------------------------ numbers and sequences -------------------------- *)

(* A nonempty set of numbers has a least one. *)
LEMMA LeastNumber ==
  ASSUME NEW S \in SUBSET Nat, S # {}
  PROVE  \E n \in S : \A m \in S : n <= m
<1>1. IsWellFoundedOn({ss \in Nat \X Nat : ss[1] < ss[2]}, Nat)
  BY NatLessThanWellFounded, Zenon DEF OpToRel
<1>2. PICK n \in S : \A m \in S : <<m, n>> \notin {ss \in Nat \X Nat : ss[1] < ss[2]}
  BY <1>1, WFMin, Zenon
<1>3. \A m \in S : ~(m < n)
  BY <1>2
<1> QED
  BY <1>3

Distinct(s) == \A i, j \in DOMAIN s : s[i] = s[j] => i = j

(* What Append does to a sequence: typing, length, elements, distinctness.  *)
LEMMA Appended ==
  ASSUME NEW S, NEW s \in Seq(S), NEW e \in S
  PROVE  /\ Append(s, e) \in Seq(S)
         /\ Elements(Append(s, e)) = Elements(s) \cup {e}
         /\ Distinct(s) /\ e \notin Elements(s) => Distinct(Append(s, e))
<1>1. /\ DOMAIN s = 1 .. Len(s) /\ Len(s) \in Nat
      /\ DOMAIN Append(s, e) = 1 .. Len(s) + 1
  BY AppendProperties
<1> QED
  BY <1>1, AppendProperties DEF Elements, Distinct

(* What taking the head of a sequence does to its elements.                 *)
LEMMA HeadTaken ==
  ASSUME NEW S, NEW s \in Seq(S), s # <<>>
  PROVE  /\ Head(s) \in Elements(s) /\ Head(s) \in S /\ Tail(s) \in Seq(S)
         /\ Elements(s) = Elements(Tail(s)) \cup {Head(s)}
         /\ Distinct(s) => Distinct(Tail(s)) /\ Head(s) \notin Elements(Tail(s))
<1>1. /\ DOMAIN s = 1 .. Len(s) /\ Len(s) \in Nat \ {0} /\ Head(s) = s[1]
      /\ Tail(s) \in Seq(S) /\ DOMAIN Tail(s) = 1 .. Len(s) - 1
      /\ \A i \in 1 .. Len(s) - 1 : Tail(s)[i] = s[i + 1]
  BY HeadTailProperties, EmptySeq
<1>2. \A i \in 1 .. Len(s) : i = 1 \/ i - 1 \in 1 .. Len(s) - 1
  BY <1>1
<1>3. \A i \in 1 .. Len(s) - 1 : i + 1 \in 1 .. Len(s) /\ i + 1 # 1
  BY <1>1
<1>4. ASSUME NEW e \in Elements(s), e # Head(s) PROVE e \in Elements(Tail(s))
  <2>1. PICK i \in 1 .. Len(s) : e = s[i]
    BY <1>1 DEF Elements
  <2>2. i - 1 \in 1 .. Len(s) - 1 /\ Tail(s)[i - 1] = s[i]
    BY <1>1, <1>2, <1>4, <2>1
  <2> QED
    BY <1>1, <2>1, <2>2 DEF Elements
<1>5. Elements(Tail(s)) \subseteq Elements(s) /\ Head(s) \in Elements(s) /\ Head(s) \in S
  BY <1>1, <1>3, HeadTailProperties DEF Elements
<1>6. Distinct(s) => Distinct(Tail(s)) /\ Head(s) \notin Elements(Tail(s))
  BY <1>1, <1>3 DEF Distinct, Elements
<1> QED
  BY <1>1, <1>4, <1>5, <1>6

(* The position a search stops at is the first one where the element is.    *)
LEMMA FirstPlace ==
  ASSUME NEW S, NEW s \in Seq(S), NEW e, e \in Elements(s)
  PROVE  LET at == Min({i \in 1 .. Len(s) : s[i] = e})
         IN  at \in 1 .. Len(s) /\ s[at] = e /\ \A j \in 1 .. Len(s) : s[j] = e => at <= j
<1> DEFINE I == {i \in 1 .. Len(s) : s[i] = e}
<1>1. I # {} /\ I \subseteq Nat
  BY DEF Elements
<1>2. PICK m \in I : \A j \in I : m <= j
  BY <1>1, LeastNumber
<1> QED
  BY <1>2 DEF Min

(* A sequence without its i-th element.                                     *)
LEMMA RemovedAt ==
  ASSUME NEW S, NEW s \in Seq(S), NEW i \in 1 .. Len(s)
  PROVE  /\ RemoveAt(s, i) \in Seq(S)
         /\ Len(RemoveAt(s, i)) = Len(s) - 1
         /\ \A k \in 1 .. Len(s) - 1 : RemoveAt(s, i)[k] = IF k < i THEN s[k] ELSE s[k + 1]
<1> DEFINE p == SubSeq(s, 1, i - 1)
           q == SubSeq(s, i + 1, Len(s))
<1>0. \A k \in 1 .. Len(s) : s[k] \in S
  OBVIOUS
<1>1. p \in Seq(S) /\ Len(p) = i - 1 /\ \A k \in 1 .. i - 1 : p[k] = s[k]
  <2>1. /\ SubSeq(s, 1, i - 1) \in Seq(S)
        /\ Len(SubSeq(s, 1, i - 1)) = IF 1 <= i - 1 THEN (i - 1) - 1 + 1 ELSE 0
        /\ \A k \in 1 .. (i - 1) - 1 + 1 : SubSeq(s, 1, i - 1)[k] = s[1 + k - 1]
    BY <1>0, SubSeqProperties
  <2> QED
    BY <2>1
<1>2. q \in Seq(S) /\ Len(q) = Len(s) - i /\ \A k \in 1 .. Len(s) - i : q[k] = s[i + k]
  <2>1. /\ SubSeq(s, i + 1, Len(s)) \in Seq(S)
        /\ Len(SubSeq(s, i + 1, Len(s))) = IF i + 1 <= Len(s) THEN Len(s) - (i + 1) + 1 ELSE 0
        /\ \A k \in 1 .. Len(s) - (i + 1) + 1 : SubSeq(s, i + 1, Len(s))[k] = s[i + 1 + k - 1]
    BY <1>0, SubSeqProperties
  <2>2. Len(s) - (i + 1) + 1 = Len(s) - i /\ (Len(s) - i >= 1 <=> i + 1 <= Len(s))
    OBVIOUS
  <2>3. ASSUME NEW k \in 1 .. Len(s) - i PROVE q[k] = s[i + k]
    <3>1. i + 1 + k - 1 = i + k /\ k \in 1 .. Len(s) - (i + 1) + 1
      BY <2>2
    <3>2. q[k] = s[i + 1 + k - 1]
      BY <2>1, <3>1
    <3> QED
      BY <3>1, <3>2
  <2>4. q \in Seq(S)
    BY <2>1
  <2>5. Len(q) = Len(s) - i
    <3>1. Len(q) = IF i + 1 <= Len(s) THEN Len(s) - i ELSE 0
      BY <2>1, <2>2
    <3>2. Len(s) \in Nat /\ i \in 1 .. Len(s)
      OBVIOUS
    <3> QED
      BY <3>1, <3>2
  <2> QED
    BY <2>3, <2>4, <2>5
<1> HIDE DEF p, q
<1>3. /\ p \o q \in Seq(S) /\ Len(p \o q) = Len(p) + Len(q)
      /\ \A k \in 1 .. Len(p) + Len(q) : (p \o q)[k] = IF k <= Len(p) THEN p[k] ELSE q[k - Len(p)]
  BY <1>1, <1>2, ConcatProperties
<1>4. \A k \in 1 .. Len(s) - 1 : (p \o q)[k] = IF k < i THEN s[k] ELSE s[k + 1]
  <2> SUFFICES ASSUME NEW k \in 1 .. Len(s) - 1 PROVE (p \o q)[k] = IF k < i THEN s[k] ELSE s[k + 1]
    OBVIOUS
  <2>0. k \in 1 .. Len(p) + Len(q) /\ Len(p) = i - 1 /\ k \in Nat /\ i \in Nat
    BY <1>1, <1>2
  <2>1. CASE k < i
    <3>1. k <= Len(p) /\ k \in 1 .. i - 1
      BY <2>0, <2>1
    <3> QED
      BY <1>1, <1>3, <2>0, <2>1, <3>1
  <2>2. CASE k >= i
    <3>1. /\ ~(k <= Len(p)) /\ k - Len(p) = k - (i - 1)
          /\ k - (i - 1) \in 1 .. Len(s) - i /\ i + (k - (i - 1)) = k + 1
      BY <2>0, <2>2
    <3>2. (p \o q)[k] = q[k - (i - 1)]
      BY <1>3, <2>0, <3>1
    <3>3. q[k - (i - 1)] = s[i + (k - (i - 1))]
      BY <1>2, <3>1
    <3> QED
      BY <2>2, <3>1, <3>2, <3>3
  <2> QED
    BY <2>0, <2>1, <2>2
<1>5. RemoveAt(s, i) = p \o q
  BY DEF RemoveAt, p, q
<1>6. Len(p) + Len(q) = Len(s) - 1
  BY <1>1, <1>2
<1> QED
  BY <1>3, <1>4, <1>5, <1>6

(* Taking an element out of a sequence without repetitions.                 *)
LEMMA RemovedFirst ==
  ASSUME NEW S, NEW s \in Seq(S), NEW e, Distinct(s)
  PROVE  /\ RemoveFirst(s, e) \in Seq(S) /\ Distinct(RemoveFirst(s, e))
         /\ Elements(RemoveFirst(s, e)) = Elements(s) \ {e}
         /\ Len(RemoveFirst(s, e)) <= Len(s)
<1>1. CASE e \notin Elements(s)
  <2>1. RemoveFirst(s, e) = s
    BY <1>1 DEF RemoveFirst, Elements
  <2> QED
    BY <1>1, <2>1
<1>2. CASE e \in Elements(s)
  <2> DEFINE at == Min({i \in 1 .. Len(s) : s[i] = e})
  <2>1. at \in 1 .. Len(s) /\ s[at] = e
    BY <1>2, FirstPlace
  <2>2. RemoveFirst(s, e) = RemoveAt(s, at)
    BY <1>2 DEF RemoveFirst, SelectInSeq, Elements
  <2> HIDE DEF at
  <2> DEFINE t == RemoveAt(s, at)
  <2>3. /\ t \in Seq(S) /\ Len(t) = Len(s) - 1
        /\ \A k \in 1 .. Len(s) - 1 : t[k] = IF k < at THEN s[k] ELSE s[k + 1]
        /\ DOMAIN s = 1 .. Len(s)
    BY <2>1, RemovedAt
  <2>0. DOMAIN t = 1 .. Len(t)
    BY <2>3
  <2> HIDE DEF t
  <2>4. Distinct(t)
    <3> SUFFICES ASSUME NEW i \in 1 .. Len(t), NEW j \in 1 .. Len(t), t[i] = t[j] PROVE i = j
      BY <2>0 DEF Distinct
    <3>1. \A k, m \in 1 .. Len(s) : s[k] = s[m] => k = m
      BY <2>3 DEF Distinct
    <3> QED
      BY <2>1, <2>3, <3>1
  <2>5. ASSUME NEW k \in 1 .. Len(t) PROVE t[k] \in Elements(s) \ {e}
    <3>1. CASE k < at
      BY <2>0, <2>1, <2>3, <3>1 DEF Elements, Distinct
    <3>2. CASE k >= at
      BY <2>0, <2>1, <2>3, <3>2 DEF Elements, Distinct
    <3> QED
      BY <2>1, <3>1, <3>2
  <2>6. ASSUME NEW k \in 1 .. Len(s), s[k] # e PROVE s[k] \in Elements(t)
    <3>1. CASE k < at
      BY <2>0, <2>1, <2>3, <3>1 DEF Elements
    <3>2. CASE k > at
      <4>1. k - 1 \in 1 .. Len(t) /\ t[k - 1] = s[k]
        BY <2>1, <2>3, <3>2
      <4> QED
        BY <2>0, <4>1 DEF Elements
    <3> QED
      BY <2>1, <2>6, <3>1, <3>2
  <2>7. Elements(t) = Elements(s) \ {e}
    BY <2>5, <2>6 DEF Elements
  <2> QED
    BY <2>2, <2>3, <2>4, <2>7 DEF t
<1> QED
  BY <1>1, <1>2

(* An empty sequence has no elements, and only that.                        *)
LEMMA NoElements ==
  ASSUME NEW S, NEW s \in Seq(S)
  PROVE  Elements(s) = {} <=> s = <<>>
<1>1. s # <<>> => 1 \in 1 .. Len(s)
  BY EmptySeq
<1>2. Len(<<>>) = 0
  OBVIOUS
<1> QED
  BY <1>1, <1>2 DEF Elements

(* A sequence without repetitions has as many elements as it is long.       *)
LEMMA DistinctCount ==
  ASSUME NEW S, NEW s \in Seq(S), Distinct(s)
  PROVE  Cardinality(Elements(s)) = Len(s)
<1>1. Len(s) \in Nat /\ IsFiniteSet(1 .. Len(s)) /\ Cardinality(1 .. Len(s)) = Len(s)
  <2>1. 1 \in Int /\ Len(s) \in Int /\ Len(s) \in Nat
    OBVIOUS
  <2>2. /\ IsFiniteSet(1 .. Len(s))
        /\ Cardinality(1 .. Len(s)) = IF 1 > Len(s) THEN 0 ELSE Len(s) - 1 + 1
    BY <2>1, FS_Interval
  <2> QED
    BY <2>1, <2>2
<1>2. s \in Bijection(1 .. Len(s), Elements(s))
  BY DEF Distinct, Elements, Bijection, Injection, Surjection, IsInjective
<1> QED
  BY <1>1, <1>2, FS_Bijection DEF ExistsBijection

(* ------------------------ the way of a prompt ---------------------------- *)

DownFrame == [type : {"ask"}, prompt : Prompt] \cup [type : {"ok"}, id : Nat]
UpFrame == [id : Nat, prompt : Prompt, answer : Answer]
Said(c, p) == \E a \in Answer : <<c, p, a>> \in said

(* What is drawn on a screen is pending and not answered yet, and a handler *)
(* closes over a prompt of the screen; in a session that asks one prompt at *)
(* a time it closes over none or the one that is drawn.                     *)
Drawn(c) ==
  \A k \in Kind :
    /\ slot[c][k] # NoPrompt =>
         /\ SessionOf[slot[c][k]] = c /\ KindOf[slot[c][k]] = k
         /\ stage[slot[c][k]] = "pending" /\ ~Said(c, slot[c][k])
         /\ c \in Serial => handler[c][k] \in {slot[c][k], NoPrompt}
    /\ handler[c][k] # NoPrompt =>
         /\ SessionOf[handler[c][k]] = c /\ KindOf[handler[c][k]] = k
         /\ stage[handler[c][k]] # "unasked"

(* A prompt is sent once: while it is on its way to its screen it has been  *)
(* neither drawn nor answered.                                              *)
Announced(c) ==
  /\ Distinct(wire[c])
  /\ \A p \in Prompt : Ask(p) \in Elements(wire[c]) =>
       /\ stage[p] # "unasked"
       /\ SessionOf[p] = c =>
            /\ stage[p] = "pending" /\ ~Said(c, p)
            /\ \A k \in Kind : slot[c][k] # p /\ handler[c][k] # p

(* What a client sends is what its user said, under a number of its own     *)
(* that is on its way in one direction only.                                *)
Numbered(c) ==
  /\ Distinct(up[c])
  /\ \A r \in Elements(up[c]) : <<c, r.prompt, r.answer>> \in said
  /\ \A r \in Elements(up[c]) : r.id < nextId[c] /\ Ok(r.id) \notin Elements(wire[c])
  /\ \A r, t \in Elements(up[c]) : r.id = t.id => r = t
  /\ \A n \in Nat : Ok(n) \in Elements(wire[c]) => n < nextId[c]
  /\ \A n \in Nat :
       n \in inflight[c] <=> Ok(n) \in Elements(wire[c]) \/ \E r \in Elements(up[c]) : r.id = n

(* A session is answered by its own user, and after it was asked.           *)
SaidInTurn ==
  \A c \in Screen, p \in Prompt : Said(c, p) => SessionOf[p] = c /\ stage[p] # "unasked"

OneIsPending ==
  \A p, q \in Prompt :
    SessionOf[p] \in Serial /\ SessionOf[p] = SessionOf[q]
      /\ stage[p] = "pending" /\ stage[q] = "pending" => p = q

PendingIsSomewhere(p) ==
  SessionOf[p] \in Serial /\ linked[SessionOf[p]] /\ stage[p] = "pending" =>
    \/ Ask(p) \in Elements(wire[SessionOf[p]])
    \/ slot[SessionOf[p]][KindOf[p]] = p
    \/ \E r \in Elements(up[SessionOf[p]]) : r.prompt = p

PromptInv ==
  /\ PromptTypeOK
  /\ \A c \in Screen : Drawn(c) /\ Announced(c) /\ Numbered(c)
  /\ SaidInTurn /\ OneIsPending /\ AnswerIsTheUsers
  /\ \A p \in Prompt : PendingIsSomewhere(p)

(* Frames are told apart by their kind, asks by prompt, replies by number.  *)
LEMMA FrameKinds ==
  /\ \A p \in Prompt : Ask(p) \in DownFrame /\ Ask(p).type = "ask" /\ Ask(p).prompt = p
  /\ \A n \in Nat : Ok(n) \in DownFrame /\ Ok(n).type = "ok" /\ Ok(n).id = n
  /\ \A p \in Prompt, n \in Nat : Ask(p) # Ok(n)
  /\ \A p, q \in Prompt : Ask(p) = Ask(q) => p = q
  /\ \A m, n \in Nat : Ok(m) = Ok(n) => m = n
  /\ \A f \in DownFrame :
       \/ f.type = "ask" /\ f.prompt \in Prompt /\ f = Ask(f.prompt)
       \/ f.type = "ok" /\ f.id \in Nat /\ f = Ok(f.id)
<1>1. \A p \in Prompt : Ask(p) \in DownFrame /\ Ask(p).type = "ask" /\ Ask(p).prompt = p
  BY DEF Ask, DownFrame
<1>2. \A n \in Nat : Ok(n) \in DownFrame /\ Ok(n).type = "ok" /\ Ok(n).id = n
  BY DEF Ok, DownFrame
<1>3. \A f \in DownFrame :
        \/ f.type = "ask" /\ f.prompt \in Prompt /\ f = Ask(f.prompt)
        \/ f.type = "ok" /\ f.id \in Nat /\ f = Ok(f.id)
  BY DEF Ask, Ok, DownFrame
<1>4. /\ \A p \in Prompt, n \in Nat : Ask(p) # Ok(n)
      /\ \A p, q \in Prompt : Ask(p) = Ask(q) => p = q
      /\ \A m, n \in Nat : Ok(m) = Ok(n) => m = n
  BY <1>1, <1>2
<1> QED
  BY <1>1, <1>2, <1>3, <1>4

(* The types of what hangs on one screen.                                   *)
LEMMA PromptTypes ==
  ASSUME PromptTypeOK, NEW c \in Screen
  PROVE  /\ wire[c] \in Seq(DownFrame) /\ up[c] \in Seq(UpFrame)
         /\ slot[c] \in [Kind -> Prompt \cup {NoPrompt}]
         /\ handler[c] \in [Kind -> Prompt \cup {NoPrompt}]
         /\ inflight[c] \subseteq Nat /\ nextId[c] \in Nat
         /\ \A r \in Elements(up[c]) : r \in UpFrame
<1>1. /\ wire[c] \in Seq(DownFrame) /\ up[c] \in Seq(UpFrame)
      /\ slot[c] \in [Kind -> Prompt \cup {NoPrompt}]
      /\ handler[c] \in [Kind -> Prompt \cup {NoPrompt}]
      /\ inflight[c] \subseteq Nat /\ nextId[c] \in Nat
  BY DEF PromptTypeOK, DownFrame, UpFrame
<1>2. \A i \in DOMAIN up[c] : up[c][i] \in UpFrame
  BY <1>1
<1> QED
  BY <1>1, <1>2 DEF Elements

LEMMA PromptInitially == PromptInit => PromptInv
<1> SUFFICES ASSUME PromptInit PROVE PromptInv
  OBVIOUS
<1>1. Elements(<<>>) = {} /\ Distinct(<<>>)
  BY DEF Elements, Distinct
<1>2. PromptTypeOK
  BY EmptySeq DEF PromptInit, PromptTypeOK, Nothing
<1>3. ASSUME NEW c \in Screen PROVE Drawn(c) /\ Announced(c) /\ Numbered(c)
  BY <1>1 DEF PromptInit, Nothing, Drawn, Announced, Numbered
<1>4. said = {} /\ \A p \in Prompt : stage[p] = "unasked"
  BY DEF PromptInit
<1>5. SaidInTurn
  BY <1>4 DEF SaidInTurn, Said
<1>6. OneIsPending /\ AnswerIsTheUsers
  BY <1>4 DEF OneIsPending, AnswerIsTheUsers
<1>7. \A p \in Prompt : PendingIsSomewhere(p)
  BY <1>4 DEF PendingIsSomewhere
<1> QED
  BY <1>2, <1>3, <1>5, <1>6, <1>7 DEF PromptInv

(* A prompt that is asked is new: it is nowhere yet but on the wire.        *)
LEMMA PromptRequestStep ==
  ASSUME PromptInv, NEW p \in Prompt, Request(p)
  PROVE  PromptInv'
<1> USE DEF PromptInv
<1>1. /\ stage[p] = "unasked" /\ stage' = [stage EXCEPT ![p] = "pending"]
      /\ SessionOf[p] \in Serial =>
           \A q \in Prompt : SessionOf[q] = SessionOf[p] => stage[q] # "pending"
      /\ wire' = [c \in Screen |-> IF linked[c] THEN Append(wire[c], Ask(p)) ELSE wire[c]]
      /\ UNCHANGED <<answer, up, slot, handler, linked, inflight, nextId, said>>
  BY DEF Request, Broadcast
<1>2. \A q \in Prompt : stage'[q] = IF q = p THEN "pending" ELSE stage[q]
  BY <1>1 DEF PromptTypeOK
<1>3. ASSUME NEW c \in Screen
      PROVE  /\ Ask(p) \notin Elements(wire[c])
             /\ wire'[c] \in Seq(DownFrame) /\ Distinct(wire'[c])
             /\ linked[c] => Elements(wire'[c]) = Elements(wire[c]) \cup {Ask(p)}
             /\ ~linked[c] => Elements(wire'[c]) = Elements(wire[c])
  <2>1. Ask(p) \notin Elements(wire[c]) /\ Distinct(wire[c]) /\ wire[c] \in Seq(DownFrame)
    BY <1>1, PromptTypes DEF Announced
  <2>2. CASE linked[c]
    <3>1. wire'[c] = Append(wire[c], Ask(p)) /\ Ask(p) \in DownFrame
      BY <1>1, <2>2, FrameKinds
    <3> QED
      BY <2>1, <2>2, <3>1, Appended
  <2>3. CASE ~linked[c]
    BY <1>1, <2>1, <2>3
  <2> QED
    BY <2>1, <2>2, <2>3
<1>4. PromptTypeOK'
  <2>1. wire' \in [Screen -> Seq(DownFrame)]
    BY <1>1, <1>3
  <2> QED
    BY <1>1, <2>1 DEF PromptTypeOK, DownFrame
<1>5. ~Said(SessionOf[p], p) /\ \A c \in Screen : ~Said(c, p)
  BY <1>1, PromptAssumption DEF SaidInTurn
<1>6. ASSUME NEW c \in Screen PROVE Drawn(c)' /\ Announced(c)' /\ Numbered(c)'
  <2>0. slot[c] \in [Kind -> Prompt \cup {NoPrompt}] /\ handler[c] \in [Kind -> Prompt \cup {NoPrompt}]
    BY PromptTypes
  <2>1. Drawn(c) /\ Announced(c) /\ Numbered(c)
    OBVIOUS
  <2>2. \A k \in Kind : slot[c][k] # p /\ handler[c][k] # p
    BY <1>1, <2>1, PromptAssumption DEF Drawn
  <2>3. Drawn(c)'
    BY <1>1, <1>2, <2>0, <2>1, <2>2 DEF Drawn, Said
  <2>4. Announced(c)'
    <3> SUFFICES ASSUME NEW q \in Prompt, Ask(q) \in Elements(wire'[c])
                 PROVE  /\ stage'[q] # "unasked"
                        /\ SessionOf[q] = c =>
                             /\ stage'[q] = "pending" /\ ~Said(c, q)
                             /\ \A k \in Kind : slot[c][k] # q /\ handler[c][k] # q
      BY <1>1, <1>3 DEF Announced, Said
    <3>1. q = p \/ Ask(q) \in Elements(wire[c])
      BY <1>3, FrameKinds
    <3> QED
      BY <1>2, <1>5, <2>1, <2>2, <3>1 DEF Announced
  <2>5. \A n \in Nat : Ok(n) \in Elements(wire'[c]) <=> Ok(n) \in Elements(wire[c])
    <3>1. Elements(wire'[c]) = Elements(wire[c]) \/ Elements(wire'[c]) = Elements(wire[c]) \cup {Ask(p)}
      BY <1>3
    <3>2. \A n \in Nat : Ok(n) # Ask(p)
      BY FrameKinds
    <3> QED
      BY <3>1, <3>2
  <2>6. \A r \in Elements(up[c]) : r.id \in Nat
    BY PromptTypes DEF UpFrame
  <2>7. Numbered(c)'
    BY <1>1, <2>1, <2>5, <2>6 DEF Numbered
  <2> QED
    BY <2>3, <2>4, <2>7
<1>7. SaidInTurn' /\ AnswerIsTheUsers'
  <2>1. \A q \in Prompt : stage[q] # "unasked" => stage'[q] # "unasked"
    BY <1>2
  <2>2. \A q \in Prompt : stage'[q] = "settled" => stage[q] = "settled"
    BY <1>2
  <2>3. SaidInTurn'
    BY <1>1, <2>1 DEF SaidInTurn, Said
  <2>4. AnswerIsTheUsers'
    BY <1>1, <2>2 DEF AnswerIsTheUsers
  <2> QED
    BY <2>3, <2>4
<1>8. OneIsPending'
  BY <1>1, <1>2 DEF OneIsPending
<1>9. ASSUME NEW q \in Prompt PROVE PendingIsSomewhere(q)'
  BY <1>1, <1>2, <1>3, PromptAssumption DEF PendingIsSomewhere
<1> QED
  BY <1>4, <1>6, <1>7, <1>8, <1>9

(* The daemon takes a request: what it settles was said, and it replies.     *)
LEMMA PromptRespondStep ==
  ASSUME PromptInv, NEW c \in Screen, Respond(c)
  PROVE  PromptInv'
<1> USE DEF PromptInv
<1> DEFINE r == Head(up[c])
<1>1. /\ up[c] # <<>>
      /\ IF stage[r.prompt] = "pending"
         THEN /\ stage' = [stage EXCEPT ![r.prompt] = "settled"]
              /\ answer' = [answer EXCEPT ![r.prompt] = r.answer]
         ELSE UNCHANGED <<stage, answer>>
      /\ wire' = [wire EXCEPT ![c] = Append(wire[c], Ok(r.id))]
      /\ up' = [up EXCEPT ![c] = Tail(up[c])]
      /\ UNCHANGED <<slot, handler, linked, inflight, nextId, said>>
  BY DEF Respond, Resolves
<1>2. /\ r \in Elements(up[c]) /\ r \in UpFrame /\ Tail(up[c]) \in Seq(UpFrame)
      /\ Elements(up[c]) = Elements(Tail(up[c])) \cup {r}
      /\ Distinct(Tail(up[c])) /\ r \notin Elements(Tail(up[c]))
  BY <1>1, PromptTypes, HeadTaken DEF Numbered
<1>3. PICK i \in Nat, p \in Prompt, a \in Answer : r.id = i /\ r.prompt = p /\ r.answer = a
  BY <1>2 DEF UpFrame
<1>4. /\ <<c, p, a>> \in said /\ Said(c, p) /\ SessionOf[p] = c
      /\ i < nextId[c] /\ Ok(i) \notin Elements(wire[c])
      /\ \A t \in Elements(Tail(up[c])) : t.id # i
  BY <1>2, <1>3 DEF Numbered, Said, SaidInTurn
<1> HIDE DEF r
<1>5. /\ \A d \in Screen \ {c} : wire'[d] = wire[d] /\ up'[d] = up[d]
      /\ up'[c] = Tail(up[c]) /\ wire'[c] = Append(wire[c], Ok(i))
  BY <1>1, <1>3 DEF PromptTypeOK
<1>6. /\ wire'[c] \in Seq(DownFrame) /\ Distinct(wire'[c])
      /\ Elements(wire'[c]) = Elements(wire[c]) \cup {Ok(i)}
  BY <1>4, <1>5, PromptTypes, Appended, FrameKinds DEF Announced
<1>7. /\ \A q \in Prompt : stage'[q] = IF q = p /\ stage[p] = "pending" THEN "settled" ELSE stage[q]
      /\ \A q \in Prompt : answer'[q] = IF q = p /\ stage[p] = "pending" THEN a ELSE answer[q]
  BY <1>1, <1>3 DEF PromptTypeOK
<1>8. PromptTypeOK'
  <2>1. wire' \in [Screen -> Seq(DownFrame)]
    BY <1>1, <1>5, <1>6 DEF PromptTypeOK, DownFrame
  <2>2. up' \in [Screen -> Seq(UpFrame)]
    BY <1>1, <1>2, <1>5 DEF PromptTypeOK, UpFrame
  <2>3. /\ stage' \in [Prompt -> {"unasked", "pending", "settled"}]
        /\ answer' \in [Prompt -> Answer \cup {NoAnswer}]
    BY <1>1, <1>3 DEF PromptTypeOK
  <2> QED
    BY <1>1, <2>1, <2>2, <2>3 DEF PromptTypeOK, DownFrame, UpFrame
<1>9. ASSUME NEW d \in Screen PROVE Drawn(d)' /\ Announced(d)' /\ Numbered(d)'
  <2>0. slot[d] \in [Kind -> Prompt \cup {NoPrompt}] /\ handler[d] \in [Kind -> Prompt \cup {NoPrompt}]
    BY PromptTypes
  <2>1. Drawn(d) /\ Announced(d) /\ Numbered(d)
    OBVIOUS
  <2>2. Drawn(d)'
    <3>1. \A k \in Kind : slot[d][k] # p
      BY <1>4, <2>1, PromptAssumption DEF Drawn
    <3> QED
      BY <1>1, <1>7, <2>0, <2>1, <3>1 DEF Drawn, Said
  <2>3. \A q \in Prompt : Ask(q) \in Elements(wire'[d]) <=> Ask(q) \in Elements(wire[d])
    <3>1. Elements(wire'[d]) = Elements(wire[d]) \/ Elements(wire'[d]) = Elements(wire[d]) \cup {Ok(i)}
      BY <1>5, <1>6
    <3>2. \A q \in Prompt : Ask(q) # Ok(i)
      BY <1>3, FrameKinds
    <3> QED
      BY <3>1, <3>2
  <2>4. Announced(d)'
    <3>1. SessionOf[p] = d => Ask(p) \notin Elements(wire[d])
      BY <1>4, <2>1 DEF Announced
    <3>2. Distinct(wire'[d])
      BY <1>5, <1>6, <2>1 DEF Announced
    <3> QED
      BY <1>1, <1>7, <2>1, <2>3, <3>1, <3>2 DEF Announced, Said
  <2>5. CASE d = c
    <3>1. \A n \in Nat : Ok(n) \in Elements(wire'[c]) <=> n = i \/ Ok(n) \in Elements(wire[c])
      BY <1>3, <1>6, FrameKinds
    <3>2. \A t \in Elements(Tail(up[c])) : t \in Elements(up[c]) /\ t.id \in Nat /\ t.id # i
      BY <1>2, <1>4, PromptTypes DEF UpFrame
    <3>3. \A n \in Nat : (\E t \in Elements(up[c]) : t.id = n)
                           <=> n = i \/ \E t \in Elements(Tail(up[c])) : t.id = n
      BY <1>2, <1>3
    <3> QED
      BY <1>1, <1>2, <1>4, <1>5, <2>1, <2>2, <2>4, <2>5, <3>1, <3>2, <3>3 DEF Numbered
  <2>6. CASE d # c
    BY <1>1, <1>5, <2>1, <2>2, <2>4, <2>6 DEF Numbered
  <2> QED
    BY <2>5, <2>6
<1>10. SaidInTurn' /\ OneIsPending'
  BY <1>1, <1>7 DEF SaidInTurn, OneIsPending, Said
<1>11. AnswerIsTheUsers'
  BY <1>1, <1>4, <1>7 DEF AnswerIsTheUsers
<1>12. ASSUME NEW q \in Prompt PROVE PendingIsSomewhere(q)'
  <2>1. SessionOf[q] \in Screen /\ PendingIsSomewhere(q)
    BY PromptAssumption
  <2>2. CASE SessionOf[q] = c
    BY <1>1, <1>2, <1>3, <1>5, <1>6, <1>7, <2>1, <2>2 DEF PendingIsSomewhere
  <2>3. CASE SessionOf[q] # c
    BY <1>1, <1>5, <1>7, <2>1, <2>3 DEF PendingIsSomewhere
  <2> QED
    BY <2>2, <2>3
<1> QED
  BY <1>8, <1>9, <1>10, <1>11, <1>12

(* A screen takes a frame: a prompt is drawn, or a request is settled.      *)
LEMMA PromptHandleStep ==
  ASSUME PromptInv, NEW c \in Screen, HandleMessage(c)
  PROVE  PromptInv'
<1> USE DEF PromptInv
<1>1. /\ wire[c] # <<>> /\ wire' = [wire EXCEPT ![c] = Tail(wire[c])]
      /\ UNCHANGED <<stage, answer, up, linked, nextId, said>>
  BY DEF HandleMessage
<1>2. /\ Head(wire[c]) \in DownFrame /\ Tail(wire[c]) \in Seq(DownFrame)
      /\ Elements(wire[c]) = Elements(Tail(wire[c])) \cup {Head(wire[c])}
      /\ Distinct(Tail(wire[c])) /\ Head(wire[c]) \notin Elements(Tail(wire[c]))
  BY <1>1, PromptTypes, HeadTaken DEF Announced
<1>3. /\ wire'[c] = Tail(wire[c]) /\ \A d \in Screen \ {c} : wire'[d] = wire[d]
      /\ wire' \in [Screen -> Seq(DownFrame)]
  BY <1>1, <1>2 DEF PromptTypeOK, DownFrame
<1>4. SaidInTurn' /\ OneIsPending' /\ AnswerIsTheUsers'
  BY <1>1 DEF SaidInTurn, OneIsPending, AnswerIsTheUsers, Said
<1>5. CASE Head(wire[c]).type = "ask"
  <2>1. PICK q \in Prompt : Head(wire[c]) = Ask(q)
    BY <1>2, <1>5, FrameKinds
  <2>2. OnPrompt(c, q) /\ inflight' = inflight
    BY <1>2, <1>5, <2>1, FrameKinds DEF HandleMessage
  <2>3. /\ \A n \in Nat : Ok(n) \in Elements(wire'[c]) <=> Ok(n) \in Elements(wire[c])
        /\ \A p \in Prompt : Ask(p) \in Elements(wire'[c]) <=> p # q /\ Ask(p) \in Elements(wire[c])
    <3>1. Elements(wire[c]) = Elements(wire'[c]) \cup {Ask(q)} /\ Ask(q) \notin Elements(wire'[c])
      BY <1>2, <1>3, <2>1
    <3>2. /\ \A n \in Nat : Ok(n) # Ask(q)
          /\ \A p \in Prompt : Ask(p) = Ask(q) => p = q
      BY FrameKinds
    <3> QED
      BY <3>1, <3>2
  <2>4. \A d \in Screen : Numbered(d)'
    <3> SUFFICES ASSUME NEW d \in Screen PROVE Numbered(d)'
      OBVIOUS
    <3>1. \A n \in Nat : Ok(n) \in Elements(wire'[d]) <=> Ok(n) \in Elements(wire[d])
      BY <1>3, <2>3
    <3>2. \A r \in Elements(up[d]) : r.id \in Nat
      BY PromptTypes DEF UpFrame
    <3> QED
      BY <1>1, <2>2, <3>1, <3>2 DEF Numbered
  <2>5. \A d \in Screen \ {c} : slot'[d] = slot[d] /\ handler'[d] = handler[d]
    BY <2>2 DEF OnPrompt, SetState, PromptTypeOK
  <2>6. \A d \in Screen \ {c} : Drawn(d)' /\ Announced(d)'
    <3> SUFFICES ASSUME NEW d \in Screen \ {c} PROVE Drawn(d)' /\ Announced(d)'
      OBVIOUS
    <3>1. slot'[d] = slot[d] /\ handler'[d] = handler[d] /\ wire'[d] = wire[d] /\ Drawn(d) /\ Announced(d)
      BY <1>3, <2>5
    <3>2. Drawn(d)'
      BY <1>1, <3>1 DEF Drawn, Said
    <3> QED
      BY <1>1, <3>1, <3>2 DEF Announced, Said
  <2>7. CASE SessionOf[q] # c
    <3>1. slot' = slot /\ handler' = handler
      BY <2>2, <2>7 DEF OnPrompt
    <3>2. Drawn(c)'
      BY <1>1, <3>1 DEF Drawn, Said
    <3>3. Announced(c)'
      BY <1>1, <1>2, <1>3, <2>3, <3>1 DEF Announced, Said
    <3>4. ASSUME NEW p \in Prompt PROVE PendingIsSomewhere(p)'
      <4>1. PendingIsSomewhere(p) /\ SessionOf[p] \in Screen
        BY PromptAssumption
      <4>2. CASE SessionOf[p] = c
        BY <1>1, <2>3, <2>7, <3>1, <4>1, <4>2 DEF PendingIsSomewhere
      <4>3. CASE SessionOf[p] # c
        BY <1>1, <1>3, <3>1, <4>1, <4>3 DEF PendingIsSomewhere
      <4> QED
        BY <4>2, <4>3
    <3>5. PromptTypeOK'
      BY <1>1, <1>3, <2>2, <3>1 DEF PromptTypeOK, DownFrame
    <3> QED
      BY <1>4, <2>4, <2>6, <3>2, <3>3, <3>4, <3>5
  <2>8. CASE SessionOf[q] = c
    <3>1. /\ slot' = [slot EXCEPT ![c] = [slot[c] EXCEPT ![KindOf[q]] = q]]
          /\ handler' = [handler EXCEPT ![c] = slot[c]]
      BY <2>2, <2>8 DEF OnPrompt, SetState
    <3>2. /\ KindOf[q] \in Kind /\ slot[c] \in [Kind -> Prompt \cup {NoPrompt}]
      BY PromptTypes, PromptAssumption
    <3>3. /\ slot'[c] \in [Kind -> Prompt \cup {NoPrompt}]
          /\ \A k \in Kind : slot'[c][k] = IF k = KindOf[q] THEN q ELSE slot[c][k]
          /\ handler'[c] = slot[c]
      BY <3>1, <3>2 DEF PromptTypeOK
    <3>4. PromptTypeOK'
      <4>1. slot' \in [Screen -> [Kind -> Prompt \cup {NoPrompt}]]
        BY <3>1, <3>2 DEF PromptTypeOK
      <4>2. handler' \in [Screen -> [Kind -> Prompt \cup {NoPrompt}]]
        BY <3>1, <3>2 DEF PromptTypeOK
      <4> QED
        BY <1>1, <1>3, <2>2, <4>1, <4>2 DEF PromptTypeOK, DownFrame
    <3>5. /\ stage[q] = "pending" /\ ~Said(c, q)
          /\ \A k \in Kind : slot[c][k] # q /\ handler[c][k] # q
      BY <1>2, <2>1, <2>8 DEF Announced
    <3>6. c \in Serial => \A k \in Kind : slot[c][k] = NoPrompt
      BY <2>8, <3>2, <3>5 DEF Drawn, OneIsPending
    <3>7. Drawn(c)'
      <4> SUFFICES ASSUME NEW k \in Kind
                   PROVE  /\ slot'[c][k] # NoPrompt =>
                               /\ SessionOf[slot'[c][k]] = c /\ KindOf[slot'[c][k]] = k
                               /\ stage[slot'[c][k]] = "pending" /\ ~Said(c, slot'[c][k])
                               /\ c \in Serial => handler'[c][k] \in {slot'[c][k], NoPrompt}
                          /\ handler'[c][k] # NoPrompt =>
                               /\ SessionOf[handler'[c][k]] = c /\ KindOf[handler'[c][k]] = k
                               /\ stage[handler'[c][k]] # "unasked"
        BY <1>1 DEF Drawn, Said
      <4>1. handler'[c][k] # NoPrompt =>
              /\ SessionOf[handler'[c][k]] = c /\ KindOf[handler'[c][k]] = k
              /\ stage[handler'[c][k]] # "unasked"
        BY <3>3 DEF Drawn
      <4>2. c \in Serial => handler'[c][k] = NoPrompt
        BY <3>3, <3>6
      <4>3. CASE k = KindOf[q]
        BY <2>8, <3>3, <3>5, <4>1, <4>2, <4>3
      <4>4. CASE k # KindOf[q]
        BY <3>3, <4>1, <4>2, <4>4 DEF Drawn
      <4> QED
        BY <4>3, <4>4
    <3>8. Announced(c)'
      <4> SUFFICES ASSUME NEW p \in Prompt, Ask(p) \in Elements(wire'[c])
                   PROVE  /\ stage[p] # "unasked"
                          /\ SessionOf[p] = c =>
                               /\ stage[p] = "pending" /\ ~Said(c, p)
                               /\ \A k \in Kind : slot'[c][k] # p /\ handler'[c][k] # p
        BY <1>1, <1>2, <1>3 DEF Announced, Said
      <4>1. p # q /\ Ask(p) \in Elements(wire[c])
        BY <2>3
      <4> QED
        BY <3>3, <4>1 DEF Announced
    <3>9. ASSUME NEW p \in Prompt PROVE PendingIsSomewhere(p)'
      <4>1. PendingIsSomewhere(p) /\ SessionOf[p] \in Screen /\ KindOf[p] \in Kind
        BY PromptAssumption
      <4>2. CASE SessionOf[p] = c
        <5>1. c \in Serial /\ stage[p] = "pending" => p = q
          BY <2>8, <3>5, <4>2 DEF OneIsPending
        <5> QED
          BY <1>1, <3>2, <3>3, <4>2, <5>1 DEF PendingIsSomewhere
      <4>3. CASE SessionOf[p] # c
        BY <1>1, <1>3, <2>5, <4>1, <4>3 DEF PendingIsSomewhere
      <4> QED
        BY <4>2, <4>3
    <3> QED
      BY <1>4, <2>4, <2>6, <3>4, <3>7, <3>8, <3>9
  <2> QED
    BY <2>7, <2>8
<1>6. CASE Head(wire[c]).type = "ok"
  <2>1. PICK i \in Nat : Head(wire[c]) = Ok(i)
    BY <1>2, <1>6, FrameKinds
  <2>2. /\ inflight' = [inflight EXCEPT ![c] = inflight[c] \ {i}]
        /\ slot' = slot /\ handler' = handler
    BY <1>2, <1>6, <2>1, FrameKinds DEF HandleMessage
  <2>3. /\ \A n \in Nat : Ok(n) \in Elements(wire'[c]) <=> n # i /\ Ok(n) \in Elements(wire[c])
        /\ \A p \in Prompt : Ask(p) \in Elements(wire'[c]) <=> Ask(p) \in Elements(wire[c])
        /\ Ok(i) \in Elements(wire[c])
    <3>1. Elements(wire[c]) = Elements(wire'[c]) \cup {Ok(i)} /\ Ok(i) \notin Elements(wire'[c])
      BY <1>2, <1>3, <2>1
    <3>2. /\ \A n \in Nat : Ok(n) = Ok(i) => n = i
          /\ \A p \in Prompt : Ask(p) # Ok(i)
      BY FrameKinds
    <3> QED
      BY <3>1, <3>2
  <2>4. /\ inflight'[c] = inflight[c] \ {i} /\ \A d \in Screen \ {c} : inflight'[d] = inflight[d]
        /\ inflight' \in [Screen -> SUBSET Nat]
    BY <2>2 DEF PromptTypeOK
  <2>5. PromptTypeOK'
    BY <1>1, <1>3, <2>2, <2>4 DEF PromptTypeOK, DownFrame
  <2>6. \A d \in Screen \ {c} : Drawn(d)' /\ Announced(d)' /\ Numbered(d)'
    <3> SUFFICES ASSUME NEW d \in Screen \ {c} PROVE Drawn(d)' /\ Announced(d)' /\ Numbered(d)'
      OBVIOUS
    <3>1. wire'[d] = wire[d] /\ inflight'[d] = inflight[d] /\ Drawn(d) /\ Announced(d) /\ Numbered(d)
      BY <1>3, <2>4
    <3>2. Drawn(d)'
      BY <1>1, <2>2, <3>1 DEF Drawn, Said
    <3>3. Announced(d)'
      BY <1>1, <2>2, <3>1 DEF Announced, Said
    <3> QED
      BY <1>1, <3>1, <3>2, <3>3 DEF Numbered
  <2>7. Drawn(c)' /\ Announced(c)'
    <3>1. Drawn(c)'
      BY <1>1, <2>2 DEF Drawn, Said
    <3> QED
      BY <1>1, <1>2, <1>3, <2>2, <2>3, <3>1 DEF Announced, Said
  <2>8. Numbered(c)'
    <3>1. \A r \in Elements(up[c]) : r.id \in Nat /\ r.id # i
      BY <2>3, PromptTypes DEF UpFrame, Numbered
    <3> QED
      BY <1>1, <2>3, <2>4, <3>1 DEF Numbered
  <2>9. ASSUME NEW p \in Prompt PROVE PendingIsSomewhere(p)'
    <3>1. PendingIsSomewhere(p) /\ SessionOf[p] \in Screen
      BY PromptAssumption
    <3>2. CASE SessionOf[p] = c
      BY <1>1, <2>2, <2>3, <3>1, <3>2 DEF PendingIsSomewhere
    <3>3. CASE SessionOf[p] # c
      BY <1>1, <1>3, <2>2, <3>1, <3>3 DEF PendingIsSomewhere
    <3> QED
      BY <3>2, <3>3
  <2> QED
    BY <1>4, <2>5, <2>6, <2>7, <2>8, <2>9
<1> QED
  BY <1>2, <1>5, <1>6, FrameKinds

(* A redraw lets the handlers close over what is drawn.                     *)
LEMMA PromptRedrawStep ==
  ASSUME PromptInv, NEW c \in Screen, Redraw(c)
  PROVE  PromptInv'
<1> USE DEF PromptInv
<1>1. /\ handler' = [handler EXCEPT ![c] = slot[c]]
      /\ UNCHANGED <<stage, answer, wire, up, slot, linked, inflight, nextId, said>>
  BY DEF Redraw
<1>2. /\ handler'[c] = slot[c] /\ \A d \in Screen \ {c} : handler'[d] = handler[d]
      /\ handler' \in [Screen -> [Kind -> Prompt \cup {NoPrompt}]]
  BY <1>1 DEF PromptTypeOK
<1>3. PromptTypeOK'
  BY <1>1, <1>2 DEF PromptTypeOK
<1>4. ASSUME NEW d \in Screen PROVE Drawn(d)' /\ Announced(d)' /\ Numbered(d)'
  <2>1. handler'[d] = handler[d] \/ handler'[d] = slot[d]
    BY <1>2
  <2>2. Drawn(d)'
    BY <1>1, <2>1 DEF Drawn, Said
  <2>3. Announced(d)'
    BY <1>1, <2>1 DEF Announced, Said
  <2>4. Numbered(d)'
    BY <1>1 DEF Numbered
  <2> QED
    BY <2>2, <2>3, <2>4
<1>5. SaidInTurn' /\ OneIsPending' /\ AnswerIsTheUsers' /\ \A p \in Prompt : PendingIsSomewhere(p)'
  BY <1>1 DEF SaidInTurn, OneIsPending, AnswerIsTheUsers, Said, PendingIsSomewhere
<1> QED
  BY <1>3, <1>4, <1>5

(* A key press: the user has said something of the prompt of the handler.   *)
LEMMA PromptOnRespondStep ==
  ASSUME PromptInv, NEW c \in Screen, NEW k \in Kind, NEW a \in Answer, OnRespond(c, k, a)
  PROVE  PromptInv'
<1> USE DEF PromptInv
<1>1. PICK p \in Prompt : p = handler[c][k]
  BY PromptTypes DEF OnRespond
<1>2. /\ SendRequest(c, p, a)
      /\ slot' = [slot EXCEPT ![c] = [slot[c] EXCEPT ![k] = NoPrompt]]
      /\ handler' = [handler EXCEPT ![c] = slot[c]]
      /\ said' = said \cup {<<c, p, a>>}
      /\ UNCHANGED <<stage, answer, wire, linked>>
  BY <1>1 DEF OnRespond, SetState
<1>3. /\ slot[c] \in [Kind -> Prompt \cup {NoPrompt}]
      /\ slot'[c] \in [Kind -> Prompt \cup {NoPrompt}]
      /\ \A j \in Kind : slot'[c][j] = IF j = k THEN NoPrompt ELSE slot[c][j]
      /\ handler'[c] = slot[c]
      /\ \A d \in Screen \ {c} : slot'[d] = slot[d] /\ handler'[d] = handler[d]
  BY <1>2 DEF PromptTypeOK
<1>4. /\ SessionOf[p] = c /\ KindOf[p] = k /\ stage[p] # "unasked" /\ p # NoPrompt
      /\ Ask(p) \notin Elements(wire[c])
  BY <1>1, PromptAssumption DEF Drawn, Announced
<1>5. /\ \A d \in Screen, q \in Prompt : Said(d, q)' => Said(d, q) \/ (d = c /\ q = p)
      /\ Said(c, p)'
  <2>1. \A d \in Screen, q \in Prompt, b \in Answer :
          <<d, q, b>> \in said' => <<d, q, b>> \in said \/ (d = c /\ q = p)
    <3> SUFFICES ASSUME NEW d \in Screen, NEW q \in Prompt, NEW b \in Answer,
                        <<d, q, b>> \in said', <<d, q, b>> \notin said
                 PROVE  d = c /\ q = p
      OBVIOUS
    <3>1. <<d, q, b>> = <<c, p, a>>
      BY <1>2
    <3> QED
      BY <3>1
  <2>2. \A d \in Screen, q \in Prompt : Said(d, q)' => Said(d, q) \/ (d = c /\ q = p)
    BY <2>1 DEF Said
  <2>3. Said(c, p)'
    BY <1>2 DEF Said
  <2> QED
    BY <2>2, <2>3
<1>6. /\ \A d \in Screen \ {c} : up'[d] = up[d] /\ inflight'[d] = inflight[d] /\ nextId'[d] = nextId[d]
      /\ up' \in [Screen -> Seq(UpFrame)] /\ inflight' \in [Screen -> SUBSET Nat]
      /\ nextId' \in [Screen -> Nat] /\ Numbered(c)'
      /\ linked[c] => \E r \in Elements(up'[c]) : r.prompt = p
      /\ Elements(up[c]) \subseteq Elements(up'[c])
  <2>1. /\ up \in [Screen -> Seq(UpFrame)] /\ inflight \in [Screen -> SUBSET Nat]
        /\ nextId \in [Screen -> Nat] /\ up[c] \in Seq(UpFrame) /\ nextId[c] \in Nat
    BY DEF PromptTypeOK, UpFrame
  <2>2. \A r \in Elements(up[c]) : r.id \in Nat /\ <<c, r.prompt, r.answer>> \in said'
    BY <1>2, PromptTypes DEF UpFrame, Numbered
  <2>3. CASE ~linked[c]
    <3>1. UNCHANGED <<up, inflight, nextId>>
      BY <1>2, <2>3 DEF SendRequest
    <3> QED
      BY <1>2, <2>1, <2>2, <2>3, <3>1 DEF Numbered
  <2>4. CASE linked[c]
    <3>1. PICK n \in Nat, e \in UpFrame : n = nextId[c] /\ e = Response(n, p, a)
      BY <2>1 DEF Response, UpFrame
    <3>2. /\ up' = [up EXCEPT ![c] = Append(up[c], e)]
          /\ inflight' = [inflight EXCEPT ![c] = inflight[c] \cup {n}]
          /\ nextId' = [nextId EXCEPT ![c] = n + 1]
      BY <1>2, <2>4, <3>1 DEF SendRequest
    <3>3. e.id = n /\ e.prompt = p /\ e.answer = a
      BY <3>1 DEF Response
    <3>4. \A r \in Elements(up[c]) : r.id < n
      BY <3>1 DEF Numbered
    <3>5. e \notin Elements(up[c])
      BY <3>3, <3>4
    <3>6. /\ Append(up[c], e) \in Seq(UpFrame) /\ Distinct(Append(up[c], e))
          /\ Elements(Append(up[c], e)) = Elements(up[c]) \cup {e}
      BY <2>1, <3>5, Appended DEF Numbered
    <3>7. /\ up'[c] = Append(up[c], e) /\ inflight'[c] = inflight[c] \cup {n} /\ nextId'[c] = n + 1
          /\ \A d \in Screen \ {c} : up'[d] = up[d] /\ inflight'[d] = inflight[d] /\ nextId'[d] = nextId[d]
          /\ up' \in [Screen -> Seq(UpFrame)] /\ inflight' \in [Screen -> SUBSET Nat]
          /\ nextId' \in [Screen -> Nat]
      BY <2>1, <3>2, <3>6
    <3>8. Elements(up'[c]) = Elements(up[c]) \cup {e} /\ Distinct(up'[c])
      BY <3>6, <3>7
    <3>9. \A r \in Elements(up'[c]) : <<c, r.prompt, r.answer>> \in said'
      BY <1>2, <2>2, <3>3, <3>8
    <3>10. \A m \in Nat : Ok(m) \in Elements(wire[c]) => m < n
      BY <3>1 DEF Numbered
    <3>11. \A r \in Elements(up'[c]) : r.id < nextId'[c] /\ Ok(r.id) \notin Elements(wire'[c])
      <4>1. \A r \in Elements(up[c]) : r.id < nextId'[c] /\ Ok(r.id) \notin Elements(wire'[c])
        <5>0. \A x, y \in Nat : x < y => x < y + 1
          OBVIOUS
        <5>1. \A r \in Elements(up[c]) : r.id < n + 1
          BY <2>2, <3>4, <5>0
        <5> QED
          BY <1>2, <3>7, <5>1 DEF Numbered
      <4>2. n < nextId'[c] /\ Ok(n) \notin Elements(wire'[c])
        BY <1>2, <3>7, <3>10
      <4> QED
        BY <3>3, <3>8, <4>1, <4>2
    <3>12. \A r, t \in Elements(up'[c]) : r.id = t.id => r = t
      BY <2>2, <3>3, <3>4, <3>8 DEF Numbered
    <3>13. \A m \in Nat : Ok(m) \in Elements(wire'[c]) => m < nextId'[c]
      BY <1>2, <3>7, <3>10
    <3>14. \A m \in Nat : m \in inflight'[c] <=>
             Ok(m) \in Elements(wire'[c]) \/ \E r \in Elements(up'[c]) : r.id = m
      <4>1. \A m \in Nat : (\E r \in Elements(up'[c]) : r.id = m)
                             <=> m = n \/ \E r \in Elements(up[c]) : r.id = m
        BY <3>3, <3>8
      <4> QED
        BY <1>2, <3>7, <4>1 DEF Numbered
    <3>15. Numbered(c)'
      BY <3>8, <3>9, <3>11, <3>12, <3>13, <3>14 DEF Numbered
    <3> QED
      BY <3>3, <3>7, <3>8, <3>15
  <2> QED
    BY <2>3, <2>4
<1>7. PromptTypeOK'
  <2>1. /\ slot' \in [Screen -> [Kind -> Prompt \cup {NoPrompt}]]
        /\ handler' \in [Screen -> [Kind -> Prompt \cup {NoPrompt}]]
    BY <1>2, <1>3 DEF PromptTypeOK
  <2>2. said' \subseteq Screen \X Prompt \X Answer
    BY <1>2 DEF PromptTypeOK
  <2> QED
    BY <1>2, <1>6, <2>1, <2>2 DEF PromptTypeOK, UpFrame
<1>8. ASSUME NEW d \in Screen \ {c} PROVE Drawn(d)' /\ Announced(d)' /\ Numbered(d)'
  <2>1. slot[d] \in [Kind -> Prompt \cup {NoPrompt}] /\ Drawn(d) /\ Announced(d) /\ Numbered(d)
    BY PromptTypes
  <2>2. Drawn(d)'
    BY <1>2, <1>3, <1>5, <2>1 DEF Drawn
  <2>3. Announced(d)'
    BY <1>2, <1>3, <1>5, <2>1 DEF Announced
  <2>4. Numbered(d)'
    BY <1>2, <1>6, <2>1 DEF Numbered
  <2> QED
    BY <2>2, <2>3, <2>4
<1>9. Drawn(c)'
  <2> SUFFICES ASSUME NEW j \in Kind
               PROVE  /\ slot'[c][j] # NoPrompt =>
                           /\ SessionOf[slot'[c][j]] = c /\ KindOf[slot'[c][j]] = j
                           /\ stage[slot'[c][j]] = "pending" /\ (\A b \in Answer : <<c, slot'[c][j], b>> \notin said')
                           /\ c \in Serial => handler'[c][j] \in {slot'[c][j], NoPrompt}
                      /\ handler'[c][j] # NoPrompt =>
                           /\ SessionOf[handler'[c][j]] = c /\ KindOf[handler'[c][j]] = j
                           /\ stage[handler'[c][j]] # "unasked"
    BY <1>2 DEF Drawn, Said
  <2>1. handler'[c][j] # NoPrompt =>
          /\ SessionOf[handler'[c][j]] = c /\ KindOf[handler'[c][j]] = j
          /\ stage[handler'[c][j]] # "unasked"
    BY <1>3 DEF Drawn
  <2>2. ASSUME slot'[c][j] # NoPrompt
        PROVE  /\ SessionOf[slot'[c][j]] = c /\ KindOf[slot'[c][j]] = j
               /\ stage[slot'[c][j]] = "pending" /\ (\A b \in Answer : <<c, slot'[c][j], b>> \notin said')
               /\ c \in Serial => handler'[c][j] \in {slot'[c][j], NoPrompt}
    <3>1. j # k /\ slot'[c][j] = slot[c][j] /\ handler'[c][j] = slot[c][j] /\ slot[c][j] \in Prompt
      BY <1>3, <2>2
    <3>2. /\ SessionOf[slot[c][j]] = c /\ KindOf[slot[c][j]] = j
          /\ stage[slot[c][j]] = "pending" /\ ~Said(c, slot[c][j])
      BY <2>2, <3>1 DEF Drawn
    <3>3. slot[c][j] # p
      BY <1>4, <3>1, <3>2
    <3>4. \A b \in Answer : <<c, slot'[c][j], b>> \notin said'
      <4>1. \A b \in Answer : <<c, slot[c][j], b>> \notin said
        BY <3>2 DEF Said
      <4>2. \A b \in Answer : <<c, slot[c][j], b>> \notin said'
        BY <1>2, <3>3, <4>1
      <4> QED
        BY <3>1, <4>2 DEF Said
    <3> QED
      BY <1>2, <3>1, <3>2, <3>4
  <2> QED
    BY <2>1, <2>2
<1>10. Announced(c)'
  <2> SUFFICES ASSUME NEW q \in Prompt, Ask(q) \in Elements(wire[c])
               PROVE  /\ stage[q] # "unasked"
                      /\ SessionOf[q] = c =>
                           /\ stage[q] = "pending" /\ ~Said(c, q)'
                           /\ \A j \in Kind : slot'[c][j] # q /\ handler'[c][j] # q
    BY <1>2 DEF Announced
  <2>1. q # p
    BY <1>4
  <2>2. q # NoPrompt
    BY PromptAssumption
  <2> QED
    BY <1>3, <1>5, <2>1, <2>2 DEF Announced
<1>11. SaidInTurn' /\ OneIsPending' /\ AnswerIsTheUsers'
  <2>1. SaidInTurn'
    BY <1>2, <1>4, <1>5 DEF SaidInTurn
  <2>2. OneIsPending'
    BY <1>2 DEF OneIsPending
  <2>3. AnswerIsTheUsers'
    BY <1>2 DEF AnswerIsTheUsers
  <2> QED
    BY <2>1, <2>2, <2>3
<1>12. ASSUME NEW q \in Prompt PROVE PendingIsSomewhere(q)'
  <2>1. PendingIsSomewhere(q) /\ SessionOf[q] \in Screen /\ KindOf[q] \in Kind
    BY PromptAssumption
  <2>2. CASE SessionOf[q] # c
    BY <1>2, <1>3, <1>6, <2>1, <2>2 DEF PendingIsSomewhere
  <2>3. CASE SessionOf[q] = c
    <3> SUFFICES ASSUME c \in Serial, linked[c], stage[q] = "pending"
                 PROVE  \/ Ask(q) \in Elements(wire[c])
                        \/ slot'[c][KindOf[q]] = q
                        \/ \E r \in Elements(up'[c]) : r.prompt = q
      BY <1>2, <2>3 DEF PendingIsSomewhere
    <3>1. CASE slot[c][KindOf[q]] = q
      <4>1. KindOf[q] = k => q = p
        BY <1>1, <1>4, <3>1, PromptAssumption DEF Drawn
      <4> QED
        BY <1>3, <1>6, <2>1, <3>1, <4>1
    <3>2. CASE slot[c][KindOf[q]] # q
      BY <1>6, <2>1, <2>3, <3>2 DEF PendingIsSomewhere
    <3> QED
      BY <3>1, <3>2
  <2> QED
    BY <2>2, <2>3
<1> QED
  BY <1>6, <1>7, <1>8, <1>9, <1>10, <1>11, <1>12

(* A connection that is gone has nothing on its way any more.               *)
LEMMA PromptDisconnectStep ==
  ASSUME PromptInv, NEW c \in Screen, Disconnect(c)
  PROVE  PromptInv'
<1> USE DEF PromptInv
<1>1. /\ linked' = [linked EXCEPT ![c] = FALSE] /\ wire' = [wire EXCEPT ![c] = <<>>]
      /\ up' = [up EXCEPT ![c] = <<>>] /\ inflight' = [inflight EXCEPT ![c] = {}]
      /\ UNCHANGED <<stage, answer, slot, handler, nextId, said>>
  BY DEF Disconnect, HandleClose
<1>2. /\ wire'[c] = <<>> /\ up'[c] = <<>> /\ inflight'[c] = {} /\ linked'[c] = FALSE
      /\ \A d \in Screen \ {c} : wire'[d] = wire[d] /\ up'[d] = up[d] /\ inflight'[d] = inflight[d]
  BY <1>1 DEF PromptTypeOK
<1>3. \A d \in Screen \ {c} : linked'[d] = linked[d]
  BY <1>1 DEF PromptTypeOK
<1>4. Elements(<<>>) = {} /\ Distinct(<<>>)
  BY DEF Elements, Distinct
<1>5. PromptTypeOK'
  <2>1. /\ wire' \in [Screen -> Seq(DownFrame)] /\ up' \in [Screen -> Seq(UpFrame)]
        /\ inflight' \in [Screen -> SUBSET Nat]
    BY <1>1, EmptySeq DEF PromptTypeOK, DownFrame, UpFrame
  <2>2. linked' \in [Screen -> BOOLEAN]
    BY <1>1, Zenon DEF PromptTypeOK
  <2> QED
    BY <1>1, <2>1, <2>2 DEF PromptTypeOK, DownFrame, UpFrame
<1>6. ASSUME NEW d \in Screen PROVE Drawn(d)' /\ Announced(d)' /\ Numbered(d)'
  <2>1. Drawn(d)'
    BY <1>1 DEF Drawn, Said
  <2>2. CASE d = c
    BY <1>1, <1>2, <1>4, <2>1, <2>2 DEF Announced, Numbered
  <2>3. CASE d # c
    BY <1>1, <1>2, <2>1, <2>3 DEF Announced, Numbered, Said
  <2> QED
    BY <2>2, <2>3
<1>7. SaidInTurn' /\ OneIsPending' /\ AnswerIsTheUsers'
  BY <1>1 DEF SaidInTurn, OneIsPending, AnswerIsTheUsers, Said
<1>8. ASSUME NEW p \in Prompt PROVE PendingIsSomewhere(p)'
  <2>1. SessionOf[p] \in Screen /\ PendingIsSomewhere(p)
    BY PromptAssumption
  <2>2. CASE SessionOf[p] = c
    BY <1>2, <2>2 DEF PendingIsSomewhere
  <2>3. CASE SessionOf[p] # c
    BY <1>1, <1>2, <1>3, <2>1, <2>3 DEF PendingIsSomewhere
  <2> QED
    BY <2>2, <2>3
<1> QED
  BY <1>5, <1>6, <1>7, <1>8

LEMMA PromptStep == PromptInv /\ [PromptNext]_promptVars => PromptInv'
<1>1. PromptInv /\ PromptNext => PromptInv'
  BY PromptRequestStep, PromptRespondStep, PromptHandleStep, PromptRedrawStep, PromptOnRespondStep, PromptDisconnectStep DEF PromptNext
<1>2. PromptInv /\ UNCHANGED promptVars => PromptInv'
  <2> SUFFICES ASSUME PromptInv, UNCHANGED promptVars PROVE PromptInv'
    OBVIOUS
  <2>1. PromptTypeOK'
    BY DEF PromptInv, PromptTypeOK, promptVars
  <2>2. \A c \in Screen : Drawn(c)' /\ Announced(c)' /\ Numbered(c)'
    BY DEF PromptInv, promptVars, Drawn, Announced, Numbered, Said
  <2>3. SaidInTurn' /\ OneIsPending' /\ AnswerIsTheUsers' /\ \A p \in Prompt : PendingIsSomewhere(p)'
    BY DEF PromptInv, promptVars, SaidInTurn, OneIsPending, AnswerIsTheUsers, PendingIsSomewhere, Said
  <2> QED
    BY <2>1, <2>2, <2>3 DEF PromptInv
<1> QED
  BY <1>1, <1>2

(* What is on its way is what PromptInv calls by its frames.                *)
LEMMA OnItsWay ==
  ASSUME PromptTypeOK, NEW c \in Screen
  PROVE  /\ \A p : p \in Asks(c) <=> p \in Prompt /\ Ask(p) \in Elements(wire[c])
         /\ \A n : n \in Acks(c) <=> n \in Nat /\ Ok(n) \in Elements(wire[c])
<1>1. wire[c] \in Seq(DownFrame)
  BY PromptTypes
<1>2. \A i \in DOMAIN wire[c] : wire[c][i] \in DownFrame
  BY <1>1
<1>3. \A m \in Elements(wire[c]) : m \in DownFrame
  BY <1>2 DEF Elements
<1>4. \A m \in Elements(wire[c]) : \/ m.type = "ask" /\ m.prompt \in Prompt /\ m = Ask(m.prompt)
                                   \/ m.type = "ok" /\ m.id \in Nat /\ m = Ok(m.id)
  BY <1>3, FrameKinds
<1>5. \A p : p \in Asks(c) <=> p \in Prompt /\ Ask(p) \in Elements(wire[c])
  <2>1. \A p : p \in Asks(c) <=> \E m \in Elements(wire[c]) : m.type = "ask" /\ p = m.prompt
    BY DEF Asks
  <2>2. ASSUME NEW p, NEW m \in Elements(wire[c]), m.type = "ask", p = m.prompt
        PROVE  p \in Prompt /\ Ask(p) \in Elements(wire[c])
    BY <1>4, <2>2
  <2>3. ASSUME NEW p \in Prompt, Ask(p) \in Elements(wire[c]) PROVE p \in Asks(c)
    BY <2>1, <2>3, FrameKinds
  <2> QED
    BY <2>1, <2>2, <2>3
<1>6. \A n : n \in Acks(c) <=> n \in Nat /\ Ok(n) \in Elements(wire[c])
  <2>1. \A n : n \in Acks(c) <=> \E m \in Elements(wire[c]) : m.type = "ok" /\ n = m.id
    BY DEF Acks
  <2>2. ASSUME NEW n, NEW m \in Elements(wire[c]), m.type = "ok", n = m.id
        PROVE  n \in Nat /\ Ok(n) \in Elements(wire[c])
    BY <1>4, <2>2
  <2>3. ASSUME NEW n \in Nat, Ok(n) \in Elements(wire[c]) PROVE n \in Acks(c)
    BY <2>1, <2>3, FrameKinds
  <2> QED
    BY <2>1, <2>2, <2>3
<1> QED
  BY <1>5, <1>6

(* The invariant gives the types and the property.                          *)
LEMMA PromptInvIsEnough == PromptInv => PromptTypeOK /\ PromptsSound
<1> SUFFICES ASSUME PromptInv PROVE PromptTypeOK /\ PromptsSound
  OBVIOUS
<1> USE DEF PromptInv
<1>1. WaitingIsInFlight
  <2> SUFFICES ASSUME NEW c \in Screen
               PROVE  inflight[c] = {r.id : r \in Elements(up[c])} \cup Acks(c)
    BY DEF WaitingIsInFlight
  <2>1. inflight[c] \subseteq Nat /\ \A r \in Elements(up[c]) : r.id \in Nat
    BY PromptTypes DEF UpFrame
  <2>2. \A n : n \in Acks(c) <=> n \in Nat /\ Ok(n) \in Elements(wire[c])
    BY OnItsWay
  <2>3. \A n \in Nat : n \in inflight[c] <=> n \in {r.id : r \in Elements(up[c])} \cup Acks(c)
    BY <2>2 DEF Numbered
  <2> QED
    BY <2>1, <2>2, <2>3
<1>2. SerialPromptNotLost
  <2> SUFFICES ASSUME NEW p \in Prompt, SessionOf[p] \in Serial, linked[SessionOf[p]], stage[p] = "pending"
               PROVE  \/ p \in Asks(SessionOf[p])
                      \/ slot[SessionOf[p]][KindOf[p]] = p
                      \/ \E r \in Elements(up[SessionOf[p]]) : r.prompt = p
    BY DEF SerialPromptNotLost
  <2>1. SessionOf[p] \in Screen
    BY PromptAssumption
  <2> QED
    BY <2>1, OnItsWay DEF PendingIsSomewhere
<1> QED
  BY <1>1, <1>2 DEF PromptsSound

(* A resumed run has the answer its own user gave to its prompt, a client   *)
(* waits for the replies that are on their way, and a session that asks one *)
(* prompt at a time loses none (channels.ts:39, wsClient.ts:48).            *)
THEOREM PromptsAreSound == PromptSpec => []PromptsSound
<1> QED
  BY PromptInitially, PromptStep, PromptInvIsEnough, PTL DEF PromptSpec

(* ------------------------ the browser's bridges -------------------------- *)

(* The bridges are the hosts that attached, each once; two were never there *)
(* at a time unless that is on record.                                      *)
BridgesInv ==
  /\ BridgeTypeOK
  /\ Distinct(bridges) /\ Elements(bridges) = {h \in Host : process[h] = "attached"}
  /\ ~overlapped => Len(bridges) <= 1
  /\ NoBridgeNothingPending /\ PendingHasItsBridge

(* Registered is the set of what is in the sequence of bridges.             *)
LEMMA RegisteredElements == BridgeTypeOK => Registered = Elements(bridges)
<1> SUFFICES ASSUME BridgeTypeOK PROVE Registered = Elements(bridges)
  OBVIOUS
<1>1. DOMAIN bridges = 1 .. Len(bridges)
  BY DEF BridgeTypeOK
<1> QED
  BY <1>1 DEF Registered, Elements

LEMMA BridgesInitially == BridgeInit => BridgesInv
<1> SUFFICES ASSUME BridgeInit PROVE BridgesInv
  OBVIOUS
<1>1. BridgeTypeOK
  BY EmptySeq DEF BridgeInit, BridgeTypeOK
<1>2. Pending = {} /\ bridges = <<>> /\ Len(bridges) = 0
  BY DEF BridgeInit, Pending
<1>3. Distinct(bridges) /\ Elements(bridges) = {}
  BY <1>2 DEF Distinct, Elements
<1>4. {h \in Host : process[h] = "attached"} = {}
  BY DEF BridgeInit
<1> QED
  BY <1>1, <1>2, <1>3, <1>4 DEF BridgesInv, NoBridgeNothingPending, PendingHasItsBridge

(* A step that only moves requests: none comes to wait without a bridge.    *)
LEMMA RequestMoves ==
  ASSUME BridgesInv, BridgeTypeOK', UNCHANGED <<bridges, process, overlapped>>,
         \A r \in BrowserCall : call'[r] = "pending" =>
           \/ call[r] = "pending" /\ carrier'[r] = carrier[r]
           \/ bridges # <<>> /\ carrier'[r] = Head(bridges)
  PROVE  BridgesInv'
<1> USE DEF BridgesInv
<1>1. bridges # <<>> => Head(bridges) \in Registered
  BY RegisteredElements DEF BridgeTypeOK, Elements
<1>2. Registered' = Registered
  BY DEF Registered
<1>3. NoBridgeNothingPending'
  BY DEF NoBridgeNothingPending, Pending
<1>4. PendingHasItsBridge'
  BY <1>1, <1>2 DEF PendingHasItsBridge, Pending
<1> QED
  BY <1>3, <1>4

(* A step of the hosts that are no bridges.                                 *)
LEMMA HostMoves ==
  ASSUME BridgesInv, BridgeTypeOK', UNCHANGED <<call, carrier, bridges, overlapped>>,
         \A h \in Host : process'[h] = "attached" <=> process[h] = "attached"
  PROVE  BridgesInv'
BY DEF BridgesInv, NoBridgeNothingPending, PendingHasItsBridge, Registered, Pending

(* A request is sent to a bridge that is there, or fails at once.           *)
LEMMA BridgeRequestStep ==
  ASSUME BridgesInv, NEW r \in BrowserCall,
         \/ BrowserRequest(r) \/ PermissionAnswer(r)
         \/ \E h \in Host : BridgeResponse(h, r)
  PROVE  BridgesInv'
<1> USE DEF BridgesInv
<1>1. UNCHANGED <<bridges, process, port, overlapped>>
  BY DEF BrowserRequest, PermissionAnswer, BridgeResponse
<1>2. CASE BridgeRequest(r)
  <2>1. CASE bridges = <<>>
    <3>1. call' = [call EXCEPT ![r] = "no bridge"] /\ UNCHANGED carrier
      BY <1>2, <2>1 DEF BridgeRequest
    <3>2. BridgeTypeOK'
      BY <1>1, <3>1 DEF BridgeTypeOK, Reply
    <3> QED
      BY <1>1, <3>1, <3>2, RequestMoves DEF BridgeTypeOK
  <2>2. CASE bridges # <<>>
    <3>1. /\ call' = [call EXCEPT ![r] = "pending"]
          /\ carrier' = [carrier EXCEPT ![r] = Head(bridges)]
      BY <1>2, <2>2 DEF BridgeRequest
    <3>2. Head(bridges) \in Host
      BY <2>2 DEF BridgeTypeOK
    <3>3. BridgeTypeOK'
      BY <1>1, <3>1, <3>2 DEF BridgeTypeOK, Reply
    <3> QED
      BY <1>1, <2>2, <3>1, <3>3, RequestMoves DEF BridgeTypeOK
  <2> QED
    BY <2>1, <2>2
<1>3. ASSUME NEW next \in {"asking"} \cup Reply, call' = [call EXCEPT ![r] = next],
             UNCHANGED carrier
      PROVE  BridgesInv'
  <2>1. BridgeTypeOK'
    BY <1>1, <1>3 DEF BridgeTypeOK
  <2>2. next # "pending"
    BY DEF Reply
  <2> QED
    BY <1>1, <1>3, <2>1, <2>2, RequestMoves DEF BridgeTypeOK
<1> QED
  BY <1>2, <1>3 DEF BrowserRequest, PermissionAnswer, BridgeResponse, Reply

(* A host that ends leaves the bridges; what waits for the last is settled.  *)
LEMMA HostExits ==
  ASSUME BridgesInv, NEW h \in Host, HostExit(h)
  PROVE  BridgesInv'
<1> USE DEF BridgesInv
<1>1. /\ process' = [process EXCEPT ![h] = "dead"] /\ bridges' = RemoveFirst(bridges, h)
      /\ port' = [e \in Extension |-> IF port[e] = h THEN NoHost ELSE port[e]]
      /\ call' = IF h \in Registered /\ bridges' = <<>>
                 THEN [r \in BrowserCall |-> IF r \in Pending THEN "disconnected" ELSE call[r]]
                 ELSE call
      /\ UNCHANGED <<carrier, overlapped>>
  BY DEF HostExit, SocketClose
<1>2. /\ bridges' \in Seq(Host) /\ Distinct(bridges')
      /\ Elements(bridges') = Elements(bridges) \ {h} /\ Len(bridges') <= Len(bridges)
  BY <1>1, RemovedFirst DEF BridgeTypeOK
<1>3. call' \in [BrowserCall -> {"idle", "asking", "pending"} \cup Reply]
  BY <1>1 DEF BridgeTypeOK, Reply
<1>4. BridgeTypeOK'
  BY <1>1, <1>2, <1>3 DEF BridgeTypeOK
<1>5. Elements(bridges') = {g \in Host : process'[g] = "attached"}
  BY <1>1, <1>2 DEF BridgeTypeOK
<1>6. ~overlapped => Len(bridges') <= 1
  BY <1>2 DEF BridgeTypeOK
<1>7. Pending' \subseteq Pending
  BY <1>1 DEF Pending, BridgeTypeOK
<1>8. NoBridgeNothingPending'
  <2>1. CASE h \in Registered /\ bridges' = <<>>
    BY <1>1, <2>1 DEF NoBridgeNothingPending, Pending
  <2>2. CASE h \notin Registered
    <3>1. Elements(bridges') = Elements(bridges)
      BY <1>2, <2>2, RegisteredElements
    <3>2. bridges' = <<>> => bridges = <<>>
      BY <1>2, <3>1, NoElements DEF BridgeTypeOK
    <3> QED
      BY <1>7, <3>2 DEF NoBridgeNothingPending
  <2> QED
    BY <2>1, <2>2 DEF NoBridgeNothingPending
<1>9. PendingHasItsBridge'
  <2>1. SUFFICES ASSUME ~overlapped, NEW r \in Pending' PROVE carrier[r] \in Elements(bridges')
    BY <1>1, <1>4, RegisteredElements DEF PendingHasItsBridge, Registered, Elements, BridgeTypeOK
  <2>2. carrier[r] \in Elements(bridges)
    BY <1>7, <2>1, RegisteredElements DEF PendingHasItsBridge
  <2>3. carrier[r] # h
    <3>1. ASSUME carrier[r] = h PROVE FALSE
      <4>1. Elements(bridges) = {h}
        BY <2>1, <2>2, <3>1 DEF Elements, BridgeTypeOK
      <4>2. Elements(bridges') = {}
        BY <1>2, <4>1
      <4>3. bridges' = <<>>
        BY <1>2, <4>2, NoElements
      <4> QED
        BY <1>8, <2>1, <4>3 DEF NoBridgeNothingPending
    <3> QED
      BY <3>1
  <2> QED
    BY <1>2, <2>2, <2>3
<1> QED
  BY <1>1, <1>2, <1>4, <1>5, <1>6, <1>8, <1>9

LEMMA BridgesStep == BridgesInv /\ [BridgeNext]_bridgeVars => BridgesInv'
<1> SUFFICES ASSUME BridgesInv, [BridgeNext]_bridgeVars PROVE BridgesInv'
  OBVIOUS
<1> USE DEF BridgesInv
<1>1. ASSUME NEW e \in Extension, NEW h \in Host, PortConnect(e, h) PROVE BridgesInv'
  <2>1. BridgeTypeOK'
    BY <1>1 DEF PortConnect, BridgeTypeOK
  <2> QED
    BY <1>1, <2>1, HostMoves DEF PortConnect, BridgeTypeOK
<1>2. ASSUME NEW e \in Extension, PortClose(e) PROVE BridgesInv'
  <2>1. BridgeTypeOK'
    BY <1>2 DEF PortClose, BridgeTypeOK
  <2> QED
    BY <1>2, <2>1, HostMoves DEF PortClose
<1>3. ASSUME NEW h \in Host, HostStray(h) PROVE BridgesInv'
  <2>1. BridgeTypeOK'
    BY <1>3 DEF HostStray, BridgeTypeOK
  <2> QED
    BY <1>3, <2>1, HostMoves DEF HostStray, BridgeTypeOK
<1>4. ASSUME NEW h \in Host, HostAttach(h) PROVE BridgesInv'
  <2>1. /\ process[h] = "starting" /\ process' = [process EXCEPT ![h] = "attached"]
        /\ bridges' = Append(bridges, h) /\ overlapped' = (overlapped \/ bridges # <<>>)
        /\ UNCHANGED <<call, carrier, port>>
    BY <1>4 DEF HostAttach, BridgeRegister
  <2>2. h \notin Elements(bridges)
    BY <2>1
  <2>3. /\ bridges' \in Seq(Host) /\ Distinct(bridges')
        /\ Elements(bridges') = Elements(bridges) \cup {h}
    BY <2>1, <2>2, Appended DEF BridgeTypeOK
  <2>4. overlapped' \in BOOLEAN /\ (~overlapped' => ~overlapped /\ bridges = <<>>)
    BY <2>1, Zenon
  <2>5. BridgeTypeOK'
    BY <2>1, <2>3, <2>4 DEF BridgeTypeOK
  <2>6. Elements(bridges') = {g \in Host : process'[g] = "attached"}
    BY <2>1, <2>3 DEF BridgeTypeOK
  <2>7. bridges' # <<>> /\ (~overlapped' => Len(bridges') <= 1)
    BY <2>1, <2>4, AppendProperties DEF BridgeTypeOK
  <2>8. PendingHasItsBridge'
    BY <2>1, <2>3, <2>4, <2>5, RegisteredElements
       DEF NoBridgeNothingPending, PendingHasItsBridge, Pending
  <2> QED
    BY <2>3, <2>5, <2>6, <2>7, <2>8 DEF NoBridgeNothingPending
<1>5. CASE UNCHANGED bridgeVars
  BY <1>5 DEF bridgeVars, BridgeTypeOK, NoBridgeNothingPending, PendingHasItsBridge,
              Registered, Pending
<1> QED
  BY <1>1, <1>2, <1>3, <1>4, <1>5, BridgeRequestStep, HostExits DEF BridgeNext

(* The daemon's bridges are the live hosts that attached, each once; no     *)
(* request waits without a bridge, nor, if there never were two, for one    *)
(* that is gone (server.ts:289-300).                                        *)
THEOREM BridgesAreSound == BridgeSpec => []BridgesSound
<1>1. BridgesInv => BridgesAreLiveHosts
  BY RegisteredElements, DistinctCount DEF BridgesInv, BridgeTypeOK, BridgesAreLiveHosts
<1>2. BridgesInv => BridgesSound
  BY <1>1 DEF BridgesInv, BridgesSound
<1> QED
  BY <1>2, BridgesInitially, BridgesStep, PTL DEF BridgeSpec

(* ------------------------ the MCP servers -------------------------------- *)

(* A handle by itself.  Its transports are made one after the other, and    *)
(* the last one is the one that has a process, if any has; then no restart  *)
(* waits, it is not closed, and connected if the process answers.           *)
HandleInOrder(h) ==
  /\ \A i \in Slot : i > last[h] => transport[h][i] = "none"
  /\ made[h] = "no" => Processes(h) = {} /\ waiting[h] = 0
  /\ closed[h] => made[h] = "held"
  /\ ~forked =>
       /\ waiting[h] <= 1
       /\ \A i \in Processes(h) : i = last[h] /\ waiting[h] = 0 /\ ~closed[h]
       /\ \A i \in Up(h) : status[h] = "connected"

(* A name by itself: what is held under it is a handle of it; unless        *)
(* operations on the name overlapped, what is held while a disconnect of    *)
(* the name is under way is closed, and a handle on its way in is the only  *)
(* one.                                                                     *)
NameInOrder(s) ==
  /\ handles[s] # NoHandle => made[handles[s]] = "held" /\ ServerOf[handles[s]] = s
  /\ ~raced =>
       /\ closing[s] > 0 /\ handles[s] # NoHandle => closed[handles[s]]
       /\ \A h \in Handle : ServerOf[h] = s /\ made[h] = "connecting" =>
            /\ handles[s] = NoHandle /\ closing[s] = 0
            /\ \A g \in Handle : ServerOf[g] = s /\ made[g] = "connecting" => g = h

(* Who has a process or will have one again is held, or on its way in.      *)
Active(h) == Processes(h) # {} \/ (waiting[h] > 0 /\ ~closed[h])
ActiveIsHeld(h) ==
  ~forked /\ ~raced /\ Active(h) =>
    made[h] \in {"connecting", "rejected"} \/ handles[ServerOf[h]] = h

McpInv ==
  /\ McpTypeOK
  /\ \A h \in Handle : HandleInOrder(h) /\ ActiveIsHeld(h)
  /\ \A s \in Server : NameInOrder(s)

(* ------------------------- what does not move ---------------------------- *)

Same(g) ==
  /\ made'[g] = made[g] /\ status'[g] = status[g] /\ closed'[g] = closed[g]
  /\ waiting'[g] = waiting[g] /\ transport'[g] = transport[g] /\ last'[g] = last[g]

(* A handle that does not move stays in order.                              *)
LEMMA OtherHandle ==
  ASSUME NEW g \in Handle, HandleInOrder(g), Same(g), ~forked' => ~forked
  PROVE  HandleInOrder(g)'
BY DEF HandleInOrder, Same, Processes, Dialing, Up

(* A handle that does not move is held as before, if its name still holds it.*)
LEMMA OtherActive ==
  ASSUME NEW g \in Handle, ActiveIsHeld(g), Same(g), ~forked' => ~forked, ~raced' => ~raced,
         handles'[ServerOf[g]] = handles[ServerOf[g]]
  PROVE  ActiveIsHeld(g)'
BY DEF ActiveIsHeld, Active, Same, Processes, Dialing, Up

(* Names stay in order while no handle comes in or goes out.                *)
LEMMA NamesStay ==
  ASSUME McpInv, UNCHANGED <<handles, closing, raced>>,
         \A g \in Handle : /\ made[g] = "held" => made'[g] = "held"
                           /\ made'[g] = "connecting" => made[g] = "connecting"
                           /\ closed[g] => closed'[g]
  PROVE  \A s \in Server : NameInOrder(s)'
<1> SUFFICES ASSUME NEW s \in Server PROVE NameInOrder(s)'
  OBVIOUS
<1>1. NameInOrder(s) /\ handles[s] \in Handle \cup {NoHandle} /\ closing[s] \in Nat
  BY DEF McpInv, McpTypeOK
<1> QED
  BY <1>1 DEF NameInOrder

(* What scheduleRestart() does to its handle, and that it does no more.     *)
LEMMA Scheduled ==
  ASSUME McpTypeOK, NEW h \in Handle, NEW onclose \in {0, 1}, NEW again \in {0, 1},
         ScheduleRestarts(h, onclose, again)
  PROVE  /\ attempts' \in [Handle -> 0..MaxRestartAttempts]
         /\ waiting' \in [Handle -> Nat]
         /\ status' \in [Handle -> {"connecting", "connected", "disconnected", "failed"}]
         /\ forked' \in BOOLEAN /\ (forked => forked')
         /\ \A g \in Handle \ {h} : waiting'[g] = waiting[g] /\ status'[g] = status[g]
         /\ closed[h] => waiting'[h] = waiting[h]
         /\ ~forked' => waiting'[h] = waiting[h] \/ (waiting[h] = 0 /\ waiting'[h] = 1)
<1>1. CASE closed[h] \/ onclose + again = 0
  <2>1. UNCHANGED <<attempts, waiting, status, forked>>
    BY <1>1 DEF ScheduleRestarts
  <2> QED
    BY <2>1 DEF McpTypeOK
<1>2. CASE ~(closed[h] \/ onclose + again = 0)
  <2> DEFINE room == MaxRestartAttempts - attempts[h]
             started == IF onclose + again <= room THEN onclose + again ELSE room
             say == CASE onclose + again > room -> "failed"
                      [] onclose + again <= room /\ onclose = 1 -> "disconnected"
                      [] OTHER -> status[h]
  <2>1. /\ attempts' = [attempts EXCEPT ![h] = attempts[h] + started]
        /\ waiting' = [waiting EXCEPT ![h] = waiting[h] + started]
        /\ status' = [status EXCEPT ![h] = say]
        /\ forked' = (forked \/ started > 1 \/ (started > 0 /\ waiting[h] > 0))
    BY <1>2 DEF ScheduleRestarts
  <2>2. room \in Nat /\ attempts[h] + room = MaxRestartAttempts /\ attempts[h] \in Nat
    BY McpAssumption DEF McpTypeOK
  <2>3. started \in 0 .. room /\ attempts[h] + started \in 0 .. MaxRestartAttempts
    BY <2>2, McpAssumption
  <2>4. say \in {"connecting", "connected", "disconnected", "failed"}
    <3>1. status[h] \in {"connecting", "connected", "disconnected", "failed"}
      BY DEF McpTypeOK
    <3>2. CASE onclose + again > room
      BY <3>2, <2>2
    <3>3. CASE onclose + again <= room /\ onclose = 1
      BY <3>3, <2>2
    <3>4. CASE ~(onclose + again > room) /\ ~(onclose + again <= room /\ onclose = 1)
      BY <3>1, <3>4
    <3> QED
      BY <3>2, <3>3, <3>4
  <2> HIDE DEF room, started, say
  <2>5. waiting[h] \in Nat /\ started \in Nat
    BY <2>2, <2>3 DEF McpTypeOK
  <2>6. forked' \in BOOLEAN /\ (forked => forked')
        /\ (~forked' => ~(started > 1) /\ ~(started > 0 /\ waiting[h] > 0))
    BY <2>1, Zenon
  <2>7. /\ attempts' \in [Handle -> 0..MaxRestartAttempts] /\ waiting' \in [Handle -> Nat]
        /\ status' \in [Handle -> {"connecting", "connected", "disconnected", "failed"}]
    BY <2>1, <2>3, <2>4, <2>5 DEF McpTypeOK
  <2>8. /\ \A g \in Handle \ {h} : waiting'[g] = waiting[g] /\ status'[g] = status[g]
        /\ waiting'[h] = waiting[h] + started
    BY <2>1 DEF McpTypeOK
  <2>9. ~forked' => waiting'[h] = waiting[h] \/ (waiting[h] = 0 /\ waiting'[h] = 1)
    BY <2>5, <2>6, <2>8
  <2> QED
    BY <1>2, <2>6, <2>7, <2>8, <2>9
<1> QED
  BY <1>1, <1>2

(* A transport goes down: the handle had a process, so nothing waited.      *)
LEMMA GoesDown ==
  ASSUME McpInv, NEW h \in Handle, NEW i \in Processes(h),
         NEW onclose \in {0, 1}, NEW again \in {0, 1},
         ScheduleRestarts(h, onclose, again),
         transport' = [transport EXCEPT ![h][i] = "down"],
         UNCHANGED <<closed, last, handles, closing, tools, raced>>,
         made' = made \/ (made[h] = "connecting" /\ made' = [made EXCEPT ![h] = "rejected"])
  PROVE  McpInv'
<1> USE DEF McpInv
<1>1. /\ made[h] # "no" /\ i \in Slot
      /\ HandleInOrder(h) /\ ActiveIsHeld(h)
  BY DEF HandleInOrder, Processes, Dialing, Up
<1>2. /\ attempts' \in [Handle -> 0..MaxRestartAttempts]
      /\ waiting' \in [Handle -> Nat]
      /\ status' \in [Handle -> {"connecting", "connected", "disconnected", "failed"}]
      /\ forked' \in BOOLEAN /\ (forked => forked')
      /\ \A g \in Handle \ {h} : waiting'[g] = waiting[g] /\ status'[g] = status[g]
      /\ closed[h] => waiting'[h] = waiting[h]
      /\ ~forked' => waiting'[h] = waiting[h] \/ (waiting[h] = 0 /\ waiting'[h] = 1)
  BY Scheduled
<1>3. McpTypeOK'
  BY <1>2 DEF McpTypeOK
<1>4. /\ \A j \in Slot : transport'[h][j] = IF j = i THEN "down" ELSE transport[h][j]
      /\ \A g \in Handle \ {h} : Same(g)
  BY <1>2 DEF McpTypeOK, Same
<1>5. Processes(h)' = Processes(h) \ {i} /\ Up(h)' = Up(h) \ {i}
  BY <1>4 DEF Processes, Dialing, Up
<1>6. HandleInOrder(h)'
  <2>1. \A j \in Slot : j > last'[h] => transport'[h][j] = "none"
    BY <1>1, <1>4 DEF HandleInOrder, Processes, Dialing, Up
  <2>2. made'[h] # "no" /\ (closed'[h] => made'[h] = "held")
    BY <1>1 DEF HandleInOrder, McpTypeOK
  <2>3. ~forked' => waiting'[h] <= 1 /\ Processes(h)' = {} /\ Up(h)' = {}
    BY <1>1, <1>2, <1>5 DEF HandleInOrder, Processes
  <2> QED
    BY <2>1, <2>2, <2>3 DEF HandleInOrder
<1>7. ActiveIsHeld(h)'
  BY <1>1, <1>2 DEF ActiveIsHeld, Active, McpTypeOK
<1>8. \A s \in Server : NameInOrder(s)'
  BY NamesStay DEF McpTypeOK
<1>9. \A g \in Handle \ {h} : HandleInOrder(g)' /\ ActiveIsHeld(g)'
  BY <1>2, <1>4, OtherHandle, OtherActive
<1> QED
  BY <1>3, <1>6, <1>7, <1>8, <1>9

(* A new transport is the only one with a process, or the restarts forked.  *)
LEMMA Dialed ==
  ASSUME McpInv, NEW h \in Handle, Dial(h), McpTypeOK',
         UNCHANGED <<closed, status>>, ~closed[h], made'[h] # "no",
         ~forked' => ~forked /\ Processes(h) = {} /\ waiting'[h] = 0
  PROVE  HandleInOrder(h)'
<1>1. /\ last[h] + 1 \in Slot /\ last'[h] = last[h] + 1 /\ last[h] \in Nat
      /\ \A j \in Slot : transport'[h][j] = IF j = last[h] + 1 THEN "dialing" ELSE transport[h][j]
  BY McpAssumption DEF Dial, McpInv, McpTypeOK, Slot
<1>2. Up(h)' = Up(h) /\ Processes(h)' = Processes(h) \cup {last'[h]}
  <2>1. transport[h][last[h] + 1] = "none"
    BY <1>1 DEF McpInv, HandleInOrder, Slot
  <2> QED
    BY <1>1, <2>1 DEF Processes, Dialing, Up
<1>3. \A j \in Slot : j > last'[h] => transport'[h][j] = "none"
  <2> SUFFICES ASSUME NEW j \in Slot, j > last[h] + 1 PROVE transport'[h][j] = "none"
    BY <1>1
  <2>1. j > last[h] /\ j # last[h] + 1
    BY <1>1 DEF Slot
  <2> QED
    BY <1>1, <2>1 DEF McpInv, HandleInOrder
<1>4. ~forked' => /\ \A j \in Processes(h)' : j = last'[h]
                  /\ \A j \in Up(h)' : FALSE
  BY <1>2 DEF Processes
<1> QED
  BY <1>3, <1>4 DEF HandleInOrder

LEMMA McpInitially == McpInit => McpInv
<1> SUFFICES ASSUME McpInit PROVE McpInv
  OBVIOUS
<1>1. McpTypeOK
  <2>1. 0 \in 0 .. MaxRestartAttempts /\ 0 \in 0 .. MaxConnects /\ 0 \in 0 .. MaxClosing
    BY McpAssumption
  <2> QED
    BY <2>1 DEF McpInit, McpTypeOK
<1>2. ASSUME NEW h \in Handle PROVE HandleInOrder(h) /\ ActiveIsHeld(h)
  BY DEF McpInit, HandleInOrder, ActiveIsHeld, Active, Processes, Dialing, Up
<1>3. ASSUME NEW s \in Server PROVE NameInOrder(s)
  BY DEF McpInit, NameInOrder
<1> QED
  BY <1>1, <1>2, <1>3 DEF McpInv

(* A new handle of a name begins its first connect.                         *)
LEMMA McpConnectStep ==
  ASSUME McpInv, NEW h \in Handle, ConnectOne(h)
  PROVE  McpInv'
<1> USE DEF McpInv
<1>1. /\ made[h] = "no" /\ made' = [made EXCEPT ![h] = "connecting"] /\ Dial(h)
      /\ raced' = (raced \/ ~Free(ServerOf[h]))
      /\ UNCHANGED <<status, closed, attempts, waiting, handles, closing, tools, forked>>
  BY DEF ConnectOne
<1>2. raced' \in BOOLEAN /\ (~raced' => ~raced /\ Free(ServerOf[h]))
  BY <1>1, Zenon
<1>3. HandleInOrder(h) /\ Processes(h) = {} /\ waiting[h] = 0 /\ ~closed[h]
  BY <1>1 DEF HandleInOrder
<1>4. /\ last' = [last EXCEPT ![h] = last[h] + 1] /\ last[h] < MaxConnects
      /\ transport' = [transport EXCEPT ![h][last[h] + 1] = "dialing"]
  BY <1>1 DEF Dial
<1>5. McpTypeOK'
  <2>1. last[h] + 1 \in 0 .. MaxConnects
    BY <1>4, McpAssumption DEF McpTypeOK
  <2> QED
    BY <1>1, <1>2, <1>4, <2>1 DEF McpTypeOK
<1>6. HandleInOrder(h)'
  BY <1>1, <1>3, <1>5, Dialed DEF McpTypeOK
<1>7. ActiveIsHeld(h)'
  BY <1>1 DEF ActiveIsHeld, McpTypeOK
<1>8. \A g \in Handle \ {h} : Same(g)
  BY <1>1, <1>4 DEF Same, McpTypeOK
<1>9. \A g \in Handle \ {h} : HandleInOrder(g)' /\ ActiveIsHeld(g)'
  BY <1>1, <1>2, <1>8, OtherHandle, OtherActive
<1>10. ASSUME NEW s \in Server PROVE NameInOrder(s)'
  <2>1. \A g \in Handle : made'[g] = IF g = h THEN "connecting" ELSE made[g]
    BY <1>1 DEF McpTypeOK
  <2>2. NameInOrder(s) /\ handles[s] \in Handle \cup {NoHandle}
    BY DEF McpTypeOK
  <2>3. handles[s] # NoHandle => made'[handles[s]] = "held" /\ ServerOf[handles[s]] = s
    BY <1>1, <2>1, <2>2 DEF NameInOrder
  <2>4. ~raced' /\ ServerOf[h] = s =>
          /\ handles[s] = NoHandle /\ closing[s] = 0
          /\ \A g \in Handle : ServerOf[g] = s => made[g] # "connecting"
    BY <1>2 DEF Free
  <2>5. ~raced' => \A g \in Handle : ServerOf[g] = s /\ made'[g] = "connecting" =>
            /\ handles[s] = NoHandle /\ closing[s] = 0
            /\ \A f \in Handle : ServerOf[f] = s /\ made'[f] = "connecting" => f = g
    BY <1>2, <2>1, <2>2, <2>4 DEF NameInOrder
  <2> QED
    BY <1>1, <1>2, <2>2, <2>3, <2>5 DEF NameInOrder
<1> QED
  BY <1>5, <1>6, <1>7, <1>9, <1>10

(* A restart that was waiting begins, unless the handle was closed.         *)
LEMMA McpRestartStep ==
  ASSUME McpInv, NEW h \in Handle, Restart(h)
  PROVE  McpInv'
<1> USE DEF McpInv
<1>1. /\ waiting[h] > 0 /\ waiting' = [waiting EXCEPT ![h] = waiting[h] - 1]
      /\ UNCHANGED <<made, status, closed, attempts, handles, closing, tools, raced>>
      /\ HandleInOrder(h) /\ ActiveIsHeld(h) /\ waiting[h] \in Nat
  BY DEF Restart, McpTypeOK
<1>2. made[h] # "no"
  BY <1>1 DEF HandleInOrder
<1>3. \A s \in Server : NameInOrder(s)'
  BY <1>1, NamesStay
<1>4. CASE closed[h]
  <2>1. UNCHANGED <<transport, last, forked>>
    BY <1>4 DEF Restart
  <2>2. McpTypeOK'
    BY <1>1, <2>1 DEF McpTypeOK
  <2>3. \A g \in Handle \ {h} : Same(g)
    BY <1>1, <2>1 DEF Same, McpTypeOK
  <2>4. Processes(h)' = Processes(h) /\ Up(h)' = Up(h) /\ waiting'[h] = waiting[h] - 1
    BY <1>1, <2>1 DEF Processes, Dialing, Up, McpTypeOK
  <2>5. HandleInOrder(h)'
    <3>1. ~forked => Processes(h) = {} /\ Up(h) = {}
      BY <1>1, <1>4 DEF HandleInOrder, Processes
    <3> QED
      BY <1>1, <1>2, <2>1, <2>4, <3>1 DEF HandleInOrder
  <2>6. ActiveIsHeld(h)'
    BY <1>1, <1>4, <2>1, <2>4 DEF ActiveIsHeld, Active
  <2>7. \A g \in Handle \ {h} : HandleInOrder(g)' /\ ActiveIsHeld(g)'
    BY <1>1, <2>1, <2>3, OtherHandle, OtherActive
  <2> QED
    BY <1>3, <2>2, <2>5, <2>6, <2>7
<1>5. CASE ~closed[h]
  <2>1. Dial(h) /\ forked' = (forked \/ Processes(h) # {})
    BY <1>5 DEF Restart
  <2>2. forked' \in BOOLEAN /\ (~forked' => ~forked /\ Processes(h) = {})
    BY <2>1, Zenon
  <2>3. /\ last' = [last EXCEPT ![h] = last[h] + 1] /\ last[h] < MaxConnects
        /\ transport' = [transport EXCEPT ![h][last[h] + 1] = "dialing"]
    BY <2>1 DEF Dial
  <2>4. McpTypeOK'
    <3>1. last[h] + 1 \in 0 .. MaxConnects /\ waiting[h] - 1 \in Nat
      BY <1>1, <2>3, McpAssumption DEF McpTypeOK
    <3>2. waiting' \in [Handle -> Nat]
      BY <1>1, <3>1 DEF McpTypeOK
    <3>3. transport' \in [Handle -> [Slot -> {"none", "dialing", "up", "down"}]]
      BY <2>3 DEF McpTypeOK
    <3> QED
      BY <1>1, <2>2, <2>3, <3>1, <3>2, <3>3 DEF McpTypeOK
  <2>5. waiting'[h] = waiting[h] - 1
    BY <1>1 DEF McpTypeOK
  <2>6. ~forked' => waiting'[h] = 0
    BY <1>1, <2>2, <2>5 DEF HandleInOrder
  <2>7. HandleInOrder(h)'
    BY <1>1, <1>2, <1>5, <2>1, <2>2, <2>4, <2>6, Dialed
  <2>8. ActiveIsHeld(h)'
    BY <1>1, <1>5, <2>2 DEF ActiveIsHeld, Active
  <2>9. \A g \in Handle \ {h} : Same(g)
    BY <1>1, <2>3 DEF Same, McpTypeOK
  <2>10. \A g \in Handle \ {h} : HandleInOrder(g)' /\ ActiveIsHeld(g)'
    BY <1>1, <2>2, <2>9, OtherHandle, OtherActive
  <2> QED
    BY <1>3, <2>4, <2>7, <2>8, <2>10
<1> QED
  BY <1>4, <1>5

(* A connect succeeds: the handle has its one process and says so.          *)
LEMMA McpConnectedStep ==
  ASSUME McpInv, NEW h \in Handle, NEW i \in Slot, Connected(h, i)
  PROVE  McpInv'
<1> USE DEF McpInv
<1>1. /\ i \in Dialing(h) /\ transport' = [transport EXCEPT ![h][i] = "up"]
      /\ status' = [status EXCEPT ![h] = "connected"]
      /\ attempts' = [attempts EXCEPT ![h] = 0] /\ Register(h)
      /\ UNCHANGED <<closed, waiting, last, closing, tools, forked, raced>>
  BY DEF Connected
<1>2. HandleInOrder(h) /\ ActiveIsHeld(h) /\ i \in Processes(h)
  BY <1>1 DEF Processes
<1>3. /\ made' \in [Handle -> {"no", "connecting", "held", "rejected"}]
      /\ handles' \in [Server -> Handle \cup {NoHandle}]
      /\ \A g \in Handle \ {h} : made'[g] = made[g]
      /\ made'[h] = IF made[h] = "connecting" THEN "held" ELSE made[h]
      /\ \A s \in Server : handles'[s] = IF s = ServerOf[h] /\ made[h] = "connecting"
                                        THEN h ELSE handles[s]
  <2>1. CASE made[h] = "connecting"
    <3>1. made' = [made EXCEPT ![h] = "held"] /\ handles' = [handles EXCEPT ![ServerOf[h]] = h]
      BY <1>1, <2>1 DEF Register
    <3> QED
      BY <2>1, <3>1, McpAssumption DEF McpTypeOK
  <2>2. CASE made[h] # "connecting"
    BY <1>1, <2>2 DEF Register, McpTypeOK
  <2> QED
    BY <2>1, <2>2
<1>4. McpTypeOK'
  <2>1. 0 \in 0 .. MaxRestartAttempts
    BY McpAssumption
  <2>2. transport' \in [Handle -> [Slot -> {"none", "dialing", "up", "down"}]]
    BY <1>1 DEF McpTypeOK
  <2> QED
    BY <1>1, <1>3, <2>1, <2>2 DEF McpTypeOK
<1>5. \A g \in Handle \ {h} : Same(g)
  BY <1>1, <1>3 DEF Same, McpTypeOK
<1>6. /\ \A j \in Slot : transport'[h][j] = IF j = i THEN "up" ELSE transport[h][j]
      /\ status'[h] = "connected"
  BY <1>1 DEF McpTypeOK
<1>7. Processes(h)' = Processes(h)
  BY <1>1, <1>6 DEF Processes, Dialing, Up
<1>8. HandleInOrder(h)'
  <2>1. \A j \in Slot : j > last'[h] => transport'[h][j] = "none"
    BY <1>1, <1>2, <1>6 DEF HandleInOrder, Dialing
  <2>2. made'[h] # "no" /\ (closed'[h] => made'[h] = "held")
    BY <1>1, <1>2, <1>3 DEF HandleInOrder
  <2> QED
    BY <1>1, <1>2, <1>6, <1>7, <2>1, <2>2 DEF HandleInOrder
<1>9. ActiveIsHeld(h)'
  BY <1>1, <1>2, <1>3, McpAssumption DEF ActiveIsHeld, Active
<1>10. ASSUME NEW g \in Handle \ {h} PROVE HandleInOrder(g)' /\ ActiveIsHeld(g)'
  <2>1. HandleInOrder(g)'
    BY <1>1, <1>5, OtherHandle
  <2>2. CASE ServerOf[g] = ServerOf[h] /\ made[h] = "connecting"
    <3>1. ~raced => handles[ServerOf[g]] = NoHandle
      BY <2>2, McpAssumption DEF NameInOrder
    <3>2. Processes(g)' = Processes(g)
      BY <1>5 DEF Same, Processes, Dialing, Up
    <3> QED
      BY <1>1, <1>5, <2>1, <3>1, <3>2, McpAssumption DEF ActiveIsHeld, Active, Same
  <2>3. CASE ~(ServerOf[g] = ServerOf[h] /\ made[h] = "connecting")
    <3>1. handles'[ServerOf[g]] = handles[ServerOf[g]]
      BY <1>3, <2>3, McpAssumption
    <3> QED
      BY <1>1, <1>5, <2>1, <3>1, OtherActive
  <2> QED
    BY <2>2, <2>3
<1>11. ASSUME NEW s \in Server PROVE NameInOrder(s)'
  <2>1. NameInOrder(s) /\ handles[s] \in Handle \cup {NoHandle}
    BY DEF McpTypeOK
  <2>2. CASE s = ServerOf[h] /\ made[h] = "connecting"
    <3>1. handles'[s] = h /\ made'[h] = "held" /\ h # NoHandle
      BY <1>3, <2>2, McpAssumption
    <3>2. ~raced' => closing'[s] = 0
      BY <1>1, <2>1, <2>2 DEF NameInOrder
    <3>3. ~raced' => \A g \in Handle : ServerOf[g] = s => made'[g] # "connecting"
      BY <1>1, <1>3, <2>1, <2>2 DEF NameInOrder
    <3> QED
      BY <1>1, <2>1, <2>2, <3>1, <3>2, <3>3 DEF NameInOrder
  <2>3. CASE ~(s = ServerOf[h] /\ made[h] = "connecting")
    <3>1. handles'[s] = handles[s]
      BY <1>3, <2>3
    <3>2. \A g \in Handle : /\ made[g] = "held" => made'[g] = "held"
                            /\ made'[g] = "connecting" => made[g] = "connecting"
      BY <1>3
    <3> QED
      BY <1>1, <2>1, <3>1, <3>2 DEF NameInOrder
  <2> QED
    BY <2>2, <2>3
<1> QED
  BY <1>4, <1>8, <1>9, <1>10, <1>11

(* A process that closes, or a restart that fails, schedules another restart.*)
LEMMA McpFailureStep ==
  ASSUME McpInv, NEW h \in Handle, NEW i \in Slot, ConnectFails(h, i) \/ ServerCrash(h, i)
  PROVE  McpInv'
<1>1. CASE ConnectFails(h, i)
  <2> DEFINE again == IF made[h] = "connecting" THEN 0 ELSE 1
  <2>1. PICK onclose \in {0, 1} : ScheduleRestarts(h, onclose, again)
    BY <1>1 DEF ConnectFails
  <2>2. again \in {0, 1} /\ i \in Processes(h)
    BY <1>1 DEF ConnectFails, Processes
  <2>3. /\ transport' = [transport EXCEPT ![h][i] = "down"]
        /\ UNCHANGED <<closed, last, handles, closing, tools, raced>>
        /\ made' = [made EXCEPT ![h] = IF made[h] = "connecting" THEN "rejected" ELSE made[h]]
    BY <1>1 DEF ConnectFails
  <2>4. made' = made \/ (made[h] = "connecting" /\ made' = [made EXCEPT ![h] = "rejected"])
    BY <2>3 DEF McpInv, McpTypeOK
  <2> HIDE DEF again
  <2> QED
    BY <2>1, <2>2, <2>3, <2>4, GoesDown
<1>2. CASE ServerCrash(h, i)
  <2>1. /\ i \in Processes(h) /\ ScheduleRestarts(h, 1, 0)
        /\ transport' = [transport EXCEPT ![h][i] = "down"]
        /\ UNCHANGED <<made, closed, last, handles, closing, tools, raced>>
    BY <1>2 DEF ServerCrash, Processes
  <2> QED
    BY <2>1, GoesDown
<1> QED
  BY <1>1, <1>2

(* A disconnect closes the handle that its name holds.                      *)
LEMMA McpDisconnectStep ==
  ASSUME McpInv, NEW s \in Server, DisconnectOne(s)
  PROVE  McpInv'
<1> USE DEF McpInv
<1>1. PICK h \in Handle :
      /\ handles[s] = h /\ h # NoHandle /\ closing[s] < MaxClosing
      /\ closing' = [closing EXCEPT ![s] = closing[s] + 1]
      /\ closed' = [closed EXCEPT ![h] = TRUE]
      /\ status' = [status EXCEPT ![h] = "disconnected"]
      /\ transport' = [transport EXCEPT ![h][last[h]] = "down"]
      /\ UNCHANGED <<made, attempts, waiting, last, handles, tools, forked, raced>>
  BY DEF DisconnectOne, Close, McpTypeOK
<1>2. McpTypeOK'
  <2>1. [transport[h] EXCEPT ![last[h]] = "down"] \in [Slot -> {"none", "dialing", "up", "down"}]
    BY <1>1 DEF McpTypeOK
  <2>2. closing[s] + 1 \in 0 .. MaxClosing
    BY <1>1, McpAssumption DEF McpTypeOK
  <2> QED
    BY <1>1, <2>1, <2>2 DEF McpTypeOK
<1>3. \A g \in Handle \ {h} : Same(g)
  BY <1>1 DEF Same, McpTypeOK
<1>4. /\ HandleInOrder(h) /\ made[h] = "held" /\ ServerOf[h] = s /\ closed'[h]
  <2>1. NameInOrder(s) /\ HandleInOrder(h)
    BY <1>1
  <2>2. made[h] = "held" /\ ServerOf[h] = s
    BY <1>1, <2>1 DEF NameInOrder
  <2> QED
    BY <1>1, <2>1, <2>2 DEF McpTypeOK
<1>5. \A j \in Slot : transport'[h][j] = IF j = last[h] THEN "down" ELSE transport[h][j]
  BY <1>1 DEF McpTypeOK
<1>6. HandleInOrder(h)'
  <2>1. \A j \in Slot : j > last'[h] => transport'[h][j] = "none"
    <3> SUFFICES ASSUME NEW j \in Slot, j > last[h] PROVE transport'[h][j] = "none"
      BY <1>1
    <3>1. j # last[h]
      BY DEF Slot
    <3> QED
      BY <1>4, <1>5, <3>1 DEF HandleInOrder
  <2>2. ~forked => Processes(h)' = {} /\ Up(h)' = {}
    BY <1>4, <1>5 DEF HandleInOrder, Processes, Dialing, Up
  <2> QED
    BY <1>1, <1>4, <2>1, <2>2 DEF HandleInOrder
<1>7. ActiveIsHeld(h)'
  BY <1>1, <1>4 DEF ActiveIsHeld
<1>8. \A g \in Handle \ {h} : HandleInOrder(g)' /\ ActiveIsHeld(g)'
  BY <1>1, <1>3, OtherHandle, OtherActive
<1>9. ASSUME NEW t \in Server PROVE NameInOrder(t)'
  <2>1. /\ NameInOrder(t) /\ handles[t] \in Handle \cup {NoHandle}
        /\ closing[t] \in Nat
    BY DEF McpTypeOK
  <2>2. \A g \in Handle : closed[g] => closed'[g]
    BY <1>1 DEF McpTypeOK
  <2>3. CASE t = s
    <3>1. handles[t] = h /\ closed'[handles[t]]
      BY <1>1, <2>3 DEF McpTypeOK
    <3> QED
      BY <1>1, <1>4, <2>1, <2>3, <3>1 DEF NameInOrder
  <2>4. CASE t # s
    <3>1. closing'[t] = closing[t]
      BY <1>1, <2>4 DEF McpTypeOK
    <3> QED
      BY <1>1, <2>1, <2>2, <3>1 DEF NameInOrder
  <2> QED
    BY <2>3, <2>4
<1> QED
  BY <1>2, <1>6, <1>7, <1>8, <1>9

(* A disconnect is over: its name is free.                                  *)
LEMMA McpDisconnectedStep ==
  ASSUME McpInv, NEW s \in Server, Disconnected(s)
  PROVE  McpInv'
<1> USE DEF McpInv
<1>1. /\ closing[s] > 0 /\ closing' = [closing EXCEPT ![s] = closing[s] - 1]
      /\ handles' = [handles EXCEPT ![s] = NoHandle]
      /\ UNCHANGED <<made, status, closed, attempts, waiting, transport, last, tools, forked, raced>>
  BY DEF Disconnected, Forget
<1>2. McpTypeOK'
  <2>1. closing[s] - 1 \in 0 .. MaxClosing
    BY <1>1, McpAssumption DEF McpTypeOK
  <2> QED
    BY <1>1, <2>1 DEF McpTypeOK
<1>3. ASSUME NEW g \in Handle PROVE HandleInOrder(g)' /\ ActiveIsHeld(g)'
  <2>1. Same(g)
    BY <1>1 DEF Same
  <2>2. HandleInOrder(g)'
    BY <1>1, <2>1, OtherHandle
  <2>3. CASE ServerOf[g] # s
    <3>1. handles'[ServerOf[g]] = handles[ServerOf[g]]
      BY <1>1, <2>3, McpAssumption DEF McpTypeOK
    <3> QED
      BY <1>1, <2>1, <2>2, <3>1, OtherActive
  <2>4. CASE ServerOf[g] = s
    <3>1. NameInOrder(s)
      OBVIOUS
    <3>2. ~raced /\ handles[s] = g => closed[g]
      BY <1>1, <3>1, McpAssumption DEF NameInOrder
    <3>3. ~forked /\ closed[g] => ~Active(g)
      BY DEF HandleInOrder, Active
    <3>4. Active(g)' = Active(g)
      BY <2>1 DEF Active, Same, Processes, Dialing, Up
    <3> QED
      BY <1>1, <2>2, <2>4, <3>2, <3>3, <3>4 DEF ActiveIsHeld
  <2> QED
    BY <2>3, <2>4
<1>4. ASSUME NEW t \in Server PROVE NameInOrder(t)'
  <2>1. NameInOrder(t)
    OBVIOUS
  <2>2. /\ handles'[t] = IF t = s THEN NoHandle ELSE handles[t]
        /\ closing'[t] = IF t = s THEN closing[s] - 1 ELSE closing[t]
        /\ closing[t] \in Nat
    BY <1>1 DEF McpTypeOK
  <2> QED
    BY <1>1, <2>1, <2>2 DEF NameInOrder
<1> QED
  BY <1>2, <1>3, <1>4

LEMMA McpStep == McpInv /\ [McpNext]_mcpVars => McpInv'
<1> SUFFICES ASSUME McpInv, [McpNext]_mcpVars PROVE McpInv'
  OBVIOUS
<1>1. ASSUME UNCHANGED <<made, status, closed, attempts, waiting, transport, last,
                        handles, closing, forked, raced>>, McpTypeOK'
      PROVE  McpInv'
  <2>1. \A g \in Handle : Same(g)
    BY <1>1 DEF Same
  <2>2. \A g \in Handle : HandleInOrder(g)' /\ ActiveIsHeld(g)'
    BY <1>1, <2>1, OtherHandle, OtherActive DEF McpInv
  <2>3. \A s \in Server : NameInOrder(s)'
    BY <1>1, NamesStay
  <2> QED
    BY <1>1, <2>2, <2>3 DEF McpInv
<1>2. ASSUME NEW h \in Handle, RegisterTools(h) PROVE McpInv'
  <2>1. McpTypeOK'
    BY <1>2, McpAssumption DEF RegisterTools, McpInv, McpTypeOK
  <2> QED
    BY <1>1, <1>2, <2>1 DEF RegisterTools
<1>3. CASE UNCHANGED mcpVars
  <2>1. McpTypeOK'
    BY <1>3 DEF mcpVars, McpInv, McpTypeOK
  <2> QED
    BY <1>1, <1>3, <2>1 DEF mcpVars
<1> QED
  BY <1>2, <1>3, McpConnectStep, McpRestartStep, McpConnectedStep, McpFailureStep, McpDisconnectStep,
     McpDisconnectedStep DEF McpNext

(* One process per handle and none once it is closed, every process held by *)
(* the registry, and the status true of the process, as long as restarts    *)
(* did not fork and operations on a name did not overlap (client.ts:74,     *)
(* registry.ts:36).                                                         *)
THEOREM HandlesAreSound == McpSpec => []HandlesSound
<1>1. ASSUME McpInv, NEW h \in Handle, ~forked
      PROVE  Cardinality(Processes(h)) + waiting[h] <= 1 /\ (closed[h] => Processes(h) = {})
  <2>1. HandleInOrder(h) /\ waiting[h] \in Nat
    BY <1>1 DEF McpInv, McpTypeOK
  <2>2. CASE Processes(h) = {}
    BY <1>1, <2>1, <2>2, FS_EmptySet DEF HandleInOrder
  <2>3. CASE Processes(h) # {}
    <3>1. Processes(h) = {last[h]} /\ waiting[h] = 0 /\ ~closed[h]
      BY <1>1, <2>1, <2>3 DEF HandleInOrder
    <3>2. Cardinality(Processes(h)) = 1
      BY <3>1, FS_Singleton
    <3> QED
      BY <3>1, <3>2
  <2> QED
    BY <2>2, <2>3
<1>2. McpInv => OneProcessPerHandle
  BY <1>1 DEF OneProcessPerHandle
<1>3. McpInv => ProcessesAreHeld
  BY DEF McpInv, ActiveIsHeld, Active, ProcessesAreHeld
<1>4. McpInv => StatusIsTrue
  BY DEF McpInv, HandleInOrder, StatusIsTrue, Processes
<1>5. McpInv => HandlesSound
  BY <1>2, <1>3, <1>4 DEF HandlesSound
<1> QED
  BY <1>5, McpInitially, McpStep, PTL DEF McpSpec

(* ------------------------ the panel of judges ---------------------------- *)

Sums(f, w, n) == f[0] = 0 /\ \A k \in 1..n : f[k] = f[k - 1] + w[k]

(* The sums of the first numbers of a list are a function. *)
LEMMA SumsExist ==
  ASSUME NEW n \in Nat, NEW w \in [1..n -> Int]
  PROVE  \E f \in [0..n -> Int] : Sums(f, w, n)
<1> DEFINE Bad == {k \in Nat : k <= n /\ ~\E f \in [0..k -> Int] : Sums(f, w, k)}
<1> SUFFICES ASSUME Bad # {} PROVE FALSE
  OBVIOUS
<1>1. PICK k \in Bad : \A m \in Bad : k <= m
  <2>1. Bad \in SUBSET Nat
    OBVIOUS
  <2> QED
    BY <2>1, LeastNumber
<1>2. k \in Nat /\ k <= n /\ ~\E f \in [0..k -> Int] : Sums(f, w, k)
  OBVIOUS
<1>3. k # 0
  <2>1. [j \in 0..0 |-> 0] \in [0..0 -> Int] /\ Sums([j \in 0..0 |-> 0], w, 0)
    BY DEF Sums
  <2> QED
    BY <1>2, <2>1
<1>4. k - 1 \in Nat /\ k - 1 \notin Bad
  BY <1>1, <1>2, <1>3
<1>5. PICK f \in [0..(k - 1) -> Int] : Sums(f, w, k - 1)
  BY <1>2, <1>4
<1> DEFINE g == [j \in 0..k |-> IF j = k THEN f[k - 1] + w[k] ELSE f[j]]
<1>6. k - 1 \in 0..(k - 1) /\ k \in 1..n /\ w[k] \in Int /\ f[k - 1] \in Int
  <2>1. k - 1 \in 0..(k - 1) /\ k \in 1..n
    BY <1>2, <1>3
  <2> QED
    BY <2>1
<1>7. \A j \in 0..k : j = k \/ j \in 0..(k - 1)
  BY <1>2
<1>8. g \in [0..k -> Int]
  BY <1>6, <1>7
<1>9. Sums(g, w, k)
  <2>1. g[0] = 0 /\ g[k] = f[k - 1] + w[k]
    BY <1>2, <1>3, <1>5 DEF Sums
  <2>2. ASSUME NEW j \in 1..k PROVE g[j] = g[j - 1] + w[j]
    <3>1. j - 1 \in 0..k /\ j \in 0..k /\ j - 1 # k
      BY <1>2
    <3>2. g[j - 1] = f[j - 1]
      BY <3>1
    <3>3. CASE j = k
      BY <2>1, <3>2, <3>3
    <3>4. CASE j # k
      <4>1. j \in 1..(k - 1) /\ g[j] = f[j]
        BY <1>2, <3>1, <3>4
      <4> QED
        BY <1>5, <3>2, <4>1 DEF Sums
    <3> QED
      BY <3>3, <3>4
  <2> QED
    BY <2>1, <2>2 DEF Sums
<1> QED
  BY <1>2, <1>8, <1>9

(* n numbers of at least b sum to n * b at least, and of at most b at most. *)
LEMMA SumIsBetween ==
  ASSUME NEW n \in Nat, NEW w \in [1..n -> Int], NEW f \in [0..n -> Int], Sums(f, w, n), NEW b \in Int
  PROVE  /\ (\A k \in 1..n : w[k] >= b) => f[n] >= n * b
         /\ (\A k \in 1..n : w[k] <= b) => f[n] <= n * b
<1>0. n \in 0..n
  OBVIOUS
<1>1. ASSUME \A k \in 1..n : w[k] >= b, ~(f[n] >= n * b) PROVE FALSE
  <2> DEFINE Bad == {k \in Nat : k <= n /\ ~(f[k] >= k * b)}
  <2>1. PICK k \in Bad : \A m \in Bad : k <= m
    <3>1. Bad \in SUBSET Nat /\ n \in Bad
      BY <1>1
    <3> QED
      BY <3>1, LeastNumber
  <2>2. k # 0
    BY <2>1 DEF Sums
  <2>3. k - 1 \in Nat /\ k - 1 \in 0..n /\ k \in 1..n /\ k \in 0..n
    BY <2>1, <2>2
  <2>4. f[k - 1] >= (k - 1) * b
    BY <2>1, <2>3
  <2>5. f[k] = f[k - 1] + w[k] /\ w[k] >= b /\ f[k - 1] \in Int /\ f[k] \in Int /\ w[k] \in Int
    BY <1>1, <2>3 DEF Sums
  <2>6. (k - 1) * b + b = k * b
    BY <2>3
  <2>7. (k - 1) * b \in Int /\ k * b \in Int
    BY <2>3
  <2>8. f[k] >= k * b
    BY <2>4, <2>5, <2>6, <2>7
  <2> QED
    BY <2>1, <2>8
<1>2. ASSUME \A k \in 1..n : w[k] <= b, ~(f[n] <= n * b) PROVE FALSE
  <2> DEFINE Bad == {k \in Nat : k <= n /\ ~(f[k] <= k * b)}
  <2>1. PICK k \in Bad : \A m \in Bad : k <= m
    <3>1. Bad \in SUBSET Nat /\ n \in Bad
      BY <1>2
    <3> QED
      BY <3>1, LeastNumber
  <2>2. k # 0
    BY <2>1 DEF Sums
  <2>3. k - 1 \in Nat /\ k - 1 \in 0..n /\ k \in 1..n /\ k \in 0..n
    BY <2>1, <2>2
  <2>4. f[k - 1] <= (k - 1) * b
    BY <2>1, <2>3
  <2>5. f[k] = f[k - 1] + w[k] /\ w[k] <= b /\ f[k - 1] \in Int /\ f[k] \in Int /\ w[k] \in Int
    BY <1>2, <2>3 DEF Sums
  <2>6. (k - 1) * b + b = k * b
    BY <2>3
  <2>7. (k - 1) * b \in Int /\ k * b \in Int
    BY <2>3
  <2>8. f[k] <= k * b
    BY <2>4, <2>5, <2>6, <2>7
  <2> QED
    BY <2>1, <2>8
<1> QED
  BY <1>1, <1>2

Verdict == [label : {"good", "bad"}, score : Int]

(* The sum of the scores is that of the first of them and the rest. *)
LEMMA ScoresSummed ==
  ASSUME NEW vs \in Seq(Verdict)
  PROVE  /\ ScoreSums(vs) \in [0..Len(vs) -> Int]
         /\ Sums(ScoreSums(vs), [i \in 1..Len(vs) |-> vs[i].score], Len(vs))
<1> DEFINE n == Len(vs)
           w == [i \in 1..n |-> vs[i].score]
<1>1. n \in Nat /\ w \in [1..n -> Int]
  <2>1. n \in Nat /\ \A i \in 1..n : vs[i] \in Verdict
    OBVIOUS
  <2>2. \A v \in Verdict : v.score \in Int
    BY DEF Verdict
  <2> QED
    BY <2>1, <2>2
<1>2. PICK f \in [0..n -> Int] : Sums(f, w, n)
  BY <1>1, SumsExist
<1>3. f = [k \in 0..n |-> IF k = 0 THEN 0 ELSE f[k - 1] + vs[k].score]
  <2>1. f = [k \in 0..n |-> f[k]]
    OBVIOUS
  <2>2. ASSUME NEW k \in 0..n PROVE f[k] = IF k = 0 THEN 0 ELSE f[k - 1] + vs[k].score
    <3>1. CASE k = 0
      BY <1>2, <3>1 DEF Sums
    <3>2. CASE k # 0
      <4>1. k \in 1..n
        BY <1>1, <3>2
      <4> QED
        BY <1>2, <3>2, <4>1 DEF Sums
    <3> QED
      BY <3>1, <3>2
  <2> QED
    BY <2>1, <2>2, Zenon
<1> DEFINE g == ScoreSums(vs)
<1>4. g = [k \in 0..n |-> IF k = 0 THEN 0 ELSE g[k - 1] + vs[k].score]
  BY <1>3, Zenon DEF ScoreSums
<1> HIDE DEF g
<1>5. g[0] = 0 /\ \A k \in 1..n : g[k] = g[k - 1] + w[k]
  <2>1. 0 \in 0..n /\ \A k \in 1..n : k \in 0..n /\ k # 0
    BY <1>1
  <2> QED
    BY <1>4, <2>1
<1>6. \A k \in 0..n : g[k] = f[k]
  <2> DEFINE Bad == {k \in Nat : k <= n /\ g[k] # f[k]}
  <2> SUFFICES ASSUME Bad # {} PROVE FALSE
    BY <1>1
  <2>1. PICK k \in Bad : \A m \in Bad : k <= m
    <3>1. Bad \in SUBSET Nat
      OBVIOUS
    <3> QED
      BY <3>1, LeastNumber
  <2>2. k # 0
    BY <1>2, <1>5, <2>1 DEF Sums
  <2>3. k - 1 \in Nat /\ k - 1 \notin Bad /\ k \in 1..n
    BY <1>1, <2>1, <2>2
  <2>4. g[k - 1] = f[k - 1]
    BY <1>1, <2>3
  <2> QED
    BY <1>2, <1>5, <2>1, <2>3, <2>4 DEF Sums
<1>7. g \in [0..n -> Int]
  BY <1>4, <1>6
<1> QED
  BY <1>5, <1>7 DEF g, Sums

(* The mean of the scores is not above all of them, nor below all of them.  *)
LEMMA MeanIsBetween ==
  ASSUME NEW vs \in Seq(Verdict), vs # <<>>
  PROVE  /\ \E i \in DOMAIN vs : vs[i].score <= MeanScore(vs)
         /\ \E i \in DOMAIN vs : vs[i].score >= MeanScore(vs)
<1> DEFINE n == Len(vs)
           w == [i \in 1..n |-> vs[i].score]
           s == ScoreSum(vs)
           q == MeanScore(vs)
<1>1. n \in Nat \ {0} /\ DOMAIN vs = 1..n
  BY EmptySeq
<1>2. w \in [1..n -> Int]
  <2>1. \A i \in 1..n : vs[i] \in Verdict
    OBVIOUS
  <2>2. \A v \in Verdict : v.score \in Int
    BY DEF Verdict
  <2> QED
    BY <2>1, <2>2
<1>3. s \in Int
  <2>1. n \in 0..n
    BY <1>1
  <2>2. ScoreSums(vs) \in [0..n -> Int]
    BY ScoresSummed, Zenon
  <2> QED
    BY <2>1, <2>2 DEF ScoreSum
<1>4. q = (2 * s + n) \div (2 * n)
  BY DEF MeanScore
<1> HIDE DEF s, q
<1>5. q \in Int /\ 2 * n * q <= 2 * s + n /\ 2 * s + n < 2 * n * q + 2 * n
  <2>1. 2 * n \in Nat \ {0} /\ 2 * s + n \in Int
    BY <1>1, <1>3
  <2>2. \A x \in Int, d \in Nat \ {0} : x \div d \in Int /\ d * (x \div d) <= x /\ x < d * (x \div d) + d
    OBVIOUS
  <2> QED
    BY <1>4, <2>1, <2>2
<1>6. ASSUME NEW b \in Int
      PROVE  /\ (\A k \in 1..n : w[k] >= b) => s >= n * b
             /\ (\A k \in 1..n : w[k] <= b) => s <= n * b
  <2>1. s = ScoreSums(vs)[n]
    BY DEF ScoreSum, s
  <2> QED
    BY <1>1, <1>2, <2>1, ScoresSummed, SumIsBetween
<1>7. ASSUME \A i \in 1..n : w[i] > q PROVE FALSE
  <2>1. \A i \in 1..n : w[i] >= q + 1
    BY <1>2, <1>5, <1>7
  <2>2. s >= n * (q + 1)
    BY <1>5, <1>6, <2>1
  <2> QED
    BY <1>1, <1>3, <1>5, <2>2
<1>8. ASSUME \A i \in 1..n : w[i] < q PROVE FALSE
  <2>1. \A i \in 1..n : w[i] <= q - 1
    BY <1>2, <1>5, <1>8
  <2>2. s <= n * (q - 1)
    BY <1>5, <1>6, <2>1
  <2> QED
    BY <1>1, <1>3, <1>5, <2>2
<1>9. \A i \in 1..n : w[i] \in Int /\ w[i] = vs[i].score
  BY <1>2
<1>10. (\E i \in 1..n : ~(w[i] > q)) /\ (\E i \in 1..n : ~(w[i] < q))
  BY <1>7, <1>8
<1>11. (\E i \in 1..n : vs[i].score <= q) /\ (\E i \in 1..n : vs[i].score >= q)
  <2>1. PICK i \in 1..n : ~(w[i] > q)
    BY <1>10
  <2>2. PICK j \in 1..n : ~(w[j] < q)
    BY <1>10
  <2> QED
    BY <1>5, <1>9, <2>1, <2>2
<1> QED
  BY <1>1, <1>11 DEF q

(* Every judge of the panel replies once, and what is done with the replies *)
(* of all of them is the panel's verdict.                                   *)
RepliesCount ==
  /\ enabled \in BOOLEAN /\ \E n \in Nat : lenses \in [1..n -> Lens]
  /\ replies \in Seq(Places \X JudgeReply)
  /\ \A m, n \in DOMAIN replies : replies[m][1] = replies[n][1] => m = n

JudgeInv == RepliesCount /\ VerdictIsThePanels

(* A reply that cannot be read counts as a good verdict.                     *)
LEMMA Parsed == \A r \in JudgeReply :
  /\ ParseVerdict(r) \in Verdict
  /\ ParseVerdict(r).label = "good" <=> ~r.readable \/ r.label = "good"
<1>1. \A r \in JudgeReply : /\ r.readable \in BOOLEAN /\ r.score \in Int
                            /\ r.readable => r.label \in {"good", "bad"}
  <2>1. -1 \in Int /\ Score \cup {-1} \subseteq Int
    BY JudgeAssumption
  <2>2. \A r \in [readable : {FALSE}, label : {"none"}, score : {-1}] :
          r.readable \in BOOLEAN /\ ~r.readable /\ r.score \in Int
    BY <2>1
  <2>3. \A r \in [readable : {TRUE}, label : {"good", "bad"}, score : Score \cup {-1}] :
          r.readable \in BOOLEAN /\ r.score \in Int /\ r.label \in {"good", "bad"}
    BY <2>1
  <2> QED
    BY <2>2, <2>3 DEF JudgeReply, NoScore
<1> QED
  BY <1>1 DEF ParseVerdict, Verdict

(* With a reply of every judge there are as many replies as places, and the *)
(* verdict at a place is that of the reply that came from it.               *)
LEMMA PanelIsWhole ==
  ASSUME RepliesCount, Replied = Places
  PROVE  /\ DOMAIN replies = Places /\ Places = 1..Len(replies) /\ Len(replies) \in Nat
         /\ Verdicts \in Seq(Verdict) /\ Len(Verdicts) = Len(replies)
         /\ \A n \in DOMAIN replies :
              /\ replies[n][1] \in Places /\ replies[n][2] \in JudgeReply
              /\ Verdicts[replies[n][1]] = ParseVerdict(replies[n][2])
         /\ Goods(Verdicts) = Passing
<1> USE DEF RepliesCount
<1>1. PICK k \in Nat : Places = 1..k
  <2>1. CASE enabled
    <3>1. PICK n \in Nat : lenses \in [1..n -> Lens]
      OBVIOUS
    <3> QED
      BY <2>1, <3>1 DEF Places
  <2>2. CASE ~enabled
    <3>1. 1 \in Nat /\ 1..1 = {1}
      OBVIOUS
    <3> QED
      BY <2>2, <3>1 DEF Places
  <2> QED
    BY <2>1, <2>2
<1>2. Len(replies) \in Nat /\ DOMAIN replies = 1..Len(replies)
  OBVIOUS
<1>3. \A n \in DOMAIN replies : replies[n] \in Places \X JudgeReply
  BY <1>2
<1>4. \A n \in DOMAIN replies : replies[n][1] \in Places /\ replies[n][2] \in JudgeReply
  BY <1>3
<1> DEFINE f == [n \in 1..Len(replies) |-> replies[n][1]]
<1>5. f \in [1..Len(replies) -> 1..k]
  BY <1>1, <1>2, <1>4
<1>6. f \in Bijection(1..Len(replies), 1..k)
  <2>1. f \in Injection(1..Len(replies), 1..k)
    BY <1>2, <1>5 DEF Injection, IsInjective
  <2>2. f \in Surjection(1..Len(replies), 1..k)
    <3>1. ASSUME NEW i \in 1..k PROVE \E n \in 1..Len(replies) : f[n] = i
      BY <1>1, <1>2 DEF Replied
    <3> QED
      BY <1>5, <3>1 DEF Surjection
  <2> QED
    BY <2>1, <2>2 DEF Bijection
<1>7. Len(replies) = k
  <2>1. /\ IsFiniteSet(1..Len(replies)) /\ Cardinality(1..Len(replies)) = Len(replies)
        /\ IsFiniteSet(1..k) /\ Cardinality(1..k) = k
    <3>1. ASSUME NEW m \in Nat PROVE IsFiniteSet(1..m) /\ Cardinality(1..m) = m
      <4>1. 1 \in Int /\ m \in Int /\ (IF 1 > m THEN 0 ELSE m - 1 + 1) = m
        OBVIOUS
      <4> QED
        BY <4>1, FS_Interval
    <3> QED
      BY <1>2, <3>1
  <2> QED
    BY <1>6, <2>1, FS_Bijection DEF ExistsBijection
<1>8. ASSUME NEW n \in DOMAIN replies PROVE ReplyOf(replies[n][1]) = n
  BY DEF ReplyOf
<1>9. \A n \in DOMAIN replies : Verdicts[replies[n][1]] = ParseVerdict(replies[n][2])
  BY <1>1, <1>2, <1>4, <1>7, <1>8 DEF Verdicts
<1>10. \A i \in Places : \E n \in DOMAIN replies : replies[n][1] = i
  BY DEF Replied
<1>11. /\ DOMAIN Verdicts = 1..Len(replies)
       /\ \A i \in 1..Len(replies) : Verdicts[i] \in Verdict
  <2>1. DOMAIN Verdicts = 1..Len(replies)
    BY <1>2 DEF Verdicts
  <2> QED
    BY <1>1, <1>4, <1>7, <1>9, <1>10, <2>1, Parsed
<1>12. Verdicts \in Seq(Verdict) /\ Len(Verdicts) = Len(replies)
  <2>1. Verdicts = [i \in 1..Len(replies) |-> Verdicts[i]]
    BY <1>2 DEF Verdicts
  <2>2. Verdicts \in [1..Len(replies) -> Verdict]
    BY <1>11, <2>1
  <2> QED
    BY <1>2, <2>2
<1>13. Goods(Verdicts) = Passing
  <2>1. ASSUME NEW i \in Goods(Verdicts) PROVE i \in Passing
    <3>1. PICK n \in DOMAIN replies : replies[n][1] = i
      BY <1>1, <1>7, <1>10, <1>11, <2>1 DEF Goods
    <3>2. ParseVerdict(replies[n][2]).label = "good"
      BY <1>9, <2>1, <3>1 DEF Goods
    <3> QED
      BY <1>4, <3>1, <3>2, Parsed DEF Passing
  <2>2. ASSUME NEW i \in Passing PROVE i \in Goods(Verdicts)
    <3>1. PICK n \in DOMAIN replies :
            replies[n][1] = i /\ (~replies[n][2].readable \/ replies[n][2].label = "good")
      BY DEF Passing
    <3>2. ParseVerdict(replies[n][2]).label = "good"
      BY <1>4, <3>1, Parsed
    <3> QED
      BY <1>1, <1>4, <1>7, <1>9, <1>11, <3>1, <3>2 DEF Goods
  <2> QED
    BY <2>1, <2>2
<1> QED
  BY <1>1, <1>2, <1>4, <1>7, <1>9, <1>12, <1>13

(* More than half of the judges pass iff a set of more than half does.      *)
LEMMA MajorityIsASet ==
  ASSUME NEW n \in Nat, NEW G \in SUBSET (1..n)
  PROVE  /\ Cardinality(G) \in Nat /\ Cardinality(1..n) = n
         /\ (\E S \in SUBSET G : 2 * Cardinality(S) > n) <=> Cardinality(G) > n - Cardinality(G)
<1>1. IsFiniteSet(1..n) /\ Cardinality(1..n) = n
  BY FS_Interval
<1>2. IsFiniteSet(G) /\ Cardinality(G) \in Nat
  BY <1>1, FS_Subset, FS_CardinalityType
<1>3. \A S \in SUBSET G : Cardinality(S) \in Nat /\ Cardinality(S) <= Cardinality(G)
  BY <1>2, FS_Subset, FS_CardinalityType
<1> QED
  BY <1>1, <1>2, <1>3

LEMMA JudgeInitially == JudgeInit => JudgeInv
<1> SUFFICES ASSUME JudgeInit PROVE JudgeInv
  OBVIOUS
<1>1. PICK n \in 0..MaxLenses : lenses \in [1..n -> Lens]
  BY DEF JudgeInit
<1>2. RepliesCount
  BY <1>1, JudgeAssumption, EmptySeq DEF JudgeInit, RepliesCount
<1> QED
  BY <1>2 DEF JudgeInit, JudgeInv, VerdictIsThePanels, MajorityDecides, ScoreIsAMean, NotesKeepTheirLens

(* One more judge has replied, for the first time.                          *)
LEMMA JudgeReplyStep ==
  ASSUME JudgeInv, NEW i \in Places, JudgeReplies(i)
  PROVE  JudgeInv'
<1>1. PICK r \in JudgeReply : replies' = Append(replies, <<i, r>>)
  BY DEF JudgeReplies
<1>2. UNCHANGED <<enabled, lenses, judging, verdict>> /\ judging = "asking" /\ i \notin Replied
  BY DEF JudgeReplies
<1>3. RepliesCount'
  <2>1. /\ replies \in Seq(Places \X JudgeReply) /\ <<i, r>> \in Places \X JudgeReply
        /\ Places' = Places
    BY <1>2 DEF JudgeInv, RepliesCount, Places
  <2>2. /\ replies' \in Seq(Places \X JudgeReply) /\ Len(replies) \in Nat
        /\ DOMAIN replies = 1..Len(replies) /\ DOMAIN replies' = 1..(Len(replies) + 1)
        /\ \A n \in 1..Len(replies) : replies'[n] = replies[n]
        /\ replies'[Len(replies) + 1] = <<i, r>>
    BY <1>1, <2>1, AppendProperties
  <2>3. \A n \in 1..(Len(replies) + 1) : n \in 1..Len(replies) \/ n = Len(replies) + 1
    BY <2>2
  <2>4. \A n \in 1..Len(replies) : replies[n][1] # i
    BY <1>2, <2>2 DEF Replied
  <2>5. \A m, n \in DOMAIN replies' : replies'[m][1] = replies'[n][1] => m = n
    BY <2>2, <2>3, <2>4 DEF JudgeInv, RepliesCount
  <2> QED
    BY <1>2, <2>1, <2>2, <2>5 DEF JudgeInv, RepliesCount
<1> QED
  BY <1>2, <1>3 DEF JudgeInv, VerdictIsThePanels, MajorityDecides, ScoreIsAMean, NotesKeepTheirLens

(* All have replied, and the verdict is made of what they said.             *)
LEMMA JudgeReturnStep ==
  ASSUME JudgeInv, JudgeReturns
  PROVE  JudgeInv'
<1> DEFINE n == Len(replies)
<1>1. RepliesCount /\ Replied = Places
  BY DEF JudgeInv, JudgeReturns
<1>2. /\ DOMAIN replies = Places /\ Places = 1..n /\ n \in Nat
      /\ Verdicts \in Seq(Verdict) /\ Len(Verdicts) = n /\ DOMAIN Verdicts = 1..n
      /\ \A m \in DOMAIN replies :
           /\ replies[m][1] \in Places /\ replies[m][2] \in JudgeReply
           /\ Verdicts[replies[m][1]] = ParseVerdict(replies[m][2])
      /\ Goods(Verdicts) = Passing
  BY <1>1, PanelIsWhole
<1>3. /\ judging' = "done" /\ UNCHANGED <<enabled, lenses, replies>>
      /\ verdict' = IF enabled THEN Combine
                    ELSE [label |-> Verdicts[1].label, score |-> Verdicts[1].score,
                          notes |-> << <<Blank, Verdicts[1].label>> >>]
  BY DEF JudgeReturns
<1>4. Places' = Places /\ Verdicts' = Verdicts /\ Passing' = Passing
  BY <1>3 DEF Places, Verdicts, Passing, ReplyOf
<1>5. Passing \in SUBSET (1..n)
  BY <1>2 DEF Goods
<1>6. \A k \in 1..n : Verdicts[k].label \in {"good", "bad"} /\ Verdicts[k].score \in Int
  <2>1. \A k \in 1..n : Verdicts[k] \in Verdict
    BY <1>2
  <2> QED
    BY <2>1 DEF Verdict
<1>7. ~enabled => n = 1
  <2>1. ~enabled => 1..n = {1}
    BY <1>2 DEF Places
  <2> QED
    BY <1>2, <2>1
<1>8. verdict'.label = "good" <=> \E S \in SUBSET Passing : 2 * Cardinality(S) > Cardinality(Places)
  <2>1. (\E S \in SUBSET Passing : 2 * Cardinality(S) > n) <=> Cardinality(Passing) > n - Cardinality(Passing)
    BY <1>2, <1>5, MajorityIsASet
  <2>2. Cardinality(Places) = n
    BY <1>2, <1>5, MajorityIsASet
  <2>3. CASE enabled
    <3>1. verdict'.label = "good" <=> Majority(Verdicts)
      BY <1>3, <2>3 DEF Combine
    <3> QED
      BY <1>2, <2>1, <2>2, <3>1 DEF Majority
  <2>4. CASE ~enabled
    <3>1. verdict'.label = Verdicts[1].label /\ n = 1
      BY <1>3, <1>7, <2>4
    <3>2. CASE Verdicts[1].label = "good"
      <4>1. Passing = {1}
        BY <1>2, <1>5, <3>1, <3>2 DEF Goods
      <4> QED
        <5>1. Cardinality(Passing) = 1
          BY <4>1, FS_Singleton
        <5> QED
          BY <2>1, <2>2, <3>1, <3>2, <5>1
    <3>3. CASE Verdicts[1].label # "good"
      <4>1. Passing = {}
        BY <1>2, <1>5, <3>1, <3>3 DEF Goods
      <4> QED
        BY <2>1, <2>2, <3>1, <3>3, <4>1, FS_EmptySet
    <3> QED
      BY <3>2, <3>3
  <2> QED
    BY <2>3, <2>4
<1>9. MajorityDecides'
  BY <1>4, <1>8 DEF MajorityDecides
<1>10. ScoreIsAMean'
  <2>1. CASE enabled
    <3>1. verdict'.score = MeanScore(Verdicts)
      BY <1>3, <2>1 DEF Combine
    <3>2. CASE n = 0
      <4>1. Places = {} /\ Verdicts = <<>>
        BY <1>2, <3>2, EmptySeq
      <4> QED
        BY <1>4, <3>1, <4>1 DEF ScoreIsAMean, MeanScore
    <3>3. CASE n # 0
      <4>1. Places # {} /\ Verdicts # <<>>
        BY <1>2, <3>3, EmptySeq
      <4> QED
        BY <1>2, <1>4, <3>1, <4>1, MeanIsBetween DEF ScoreIsAMean
    <3> QED
      BY <3>2, <3>3
  <2>2. CASE ~enabled
    <3>1. verdict'.score = Verdicts[1].score /\ 1 \in DOMAIN Verdicts /\ Places # {}
      BY <1>2, <1>3, <1>7, <2>2
    <3>2. Verdicts[1].score <= verdict'.score /\ Verdicts[1].score >= verdict'.score
      BY <1>2, <1>6, <3>1
    <3> QED
      BY <1>4, <3>1, <3>2 DEF ScoreIsAMean
  <2> QED
    BY <2>1, <2>2
<1>11. NotesKeepTheirLens'
  <2> SUFFICES ASSUME enabled, NEW m \in DOMAIN replies
               PROVE  verdict'.notes[replies[m][1]] =
                        <<lenses[replies[m][1]], ParseVerdict(replies[m][2]).label>>
    BY <1>3 DEF NotesKeepTheirLens
  <2>1. verdict'.notes = [i \in DOMAIN Verdicts |-> <<LensAt(i), Verdicts[i].label>>]
    BY <1>3 DEF Combine
  <2>2. replies[m][1] \in DOMAIN Verdicts
    BY <1>2
  <2> QED
    BY <1>2, <2>1, <2>2 DEF LensAt
<1>12. RepliesCount'
  BY <1>1, <1>3, <1>4 DEF RepliesCount
<1> QED
  BY <1>9, <1>10, <1>11, <1>12 DEF JudgeInv, VerdictIsThePanels

LEMMA JudgeStep == JudgeInv /\ [JudgeNext]_judgeVars => JudgeInv'
<1> SUFFICES ASSUME JudgeInv, [JudgeNext]_judgeVars PROVE JudgeInv'
  OBVIOUS
<1> USE DEF JudgeInv, RepliesCount, VerdictIsThePanels, MajorityDecides, ScoreIsAMean, NotesKeepTheirLens
<1>1. CASE JudgeStarts
  BY <1>1 DEF JudgeStarts, Places
<1>2. CASE JudgeReturns
  BY <1>2, JudgeReturnStep
<1>3. ASSUME NEW i \in Places, JudgeReplies(i) PROVE JudgeInv'
  BY <1>3, JudgeReplyStep
<1>4. ASSUME NEW i \in Places, JudgeThrows(i) PROVE JudgeInv'
  BY <1>4 DEF JudgeThrows, Places
<1>5. CASE UNCHANGED judgeVars
  <2>1. /\ UNCHANGED <<enabled, lenses, judging, replies, verdict>>
        /\ Places' = Places /\ Passing' = Passing /\ Verdicts' = Verdicts
    BY <1>5 DEF judgeVars, Places, Passing, Verdicts, ReplyOf
  <2>2. RepliesCount' /\ MajorityDecides'
    BY <2>1
  <2>3. ScoreIsAMean'
    BY <2>1
  <2>4. NotesKeepTheirLens'
    BY <2>1
  <2> QED
    BY <2>2, <2>3, <2>4
<1> QED
  BY <1>1, <1>2, <1>3, <1>4, <1>5 DEF JudgeNext

(* Whatever order the judges of a panel answer in and however many they are,*)
(* its label is their majority's, its score lies between theirs and its     *)
(* notes bear the lens of the judge that made them (council.ts:12).         *)
THEOREM VerdictIsTheirs == JudgeSpec => []VerdictIsThePanels
<1>1. JudgeInv => VerdictIsThePanels
  BY DEF JudgeInv
<1> QED
  BY <1>1, JudgeInitially, JudgeStep, PTL DEF JudgeSpec

(* ------------------------ one of them at a time -------------------------- *)

(* What is listed of the connections has its types whichever of them is     *)
(* followed: each keeps its invariant, by its own steps and by the others'. *)
THEOREM ConnectionsAreTyped == ConnectionsSpec => []ConnectionsTypeOK
<1> DEFINE IInv == PromptInv /\ BridgesInv /\ McpInv /\ JudgeInv
<1>1. ConnectionsInit => IInv
  BY PromptInitially, BridgesInitially, McpInitially, JudgeInitially DEF ConnectionsInit
<1>2. IInv /\ [ConnectionsNext]_<<focus, promptVars, bridgeVars, mcpVars, judgeVars>> => IInv'
  <2>1. [ConnectionsNext]_<<focus, promptVars, bridgeVars, mcpVars, judgeVars>> =>
          /\ [PromptNext]_promptVars /\ [BridgeNext]_bridgeVars
          /\ [McpNext]_mcpVars /\ [JudgeNext]_judgeVars
    BY DEF ConnectionsNext
  <2> QED
    BY <2>1, PromptStep, BridgesStep, McpStep, JudgeStep
<1>3. IInv => ConnectionsTypeOK
  BY DEF PromptInv, BridgesInv, McpInv, ConnectionsTypeOK
<1> QED
  BY <1>1, <1>2, <1>3, PTL DEF ConnectionsSpec
=============================================================================
