----------------------------- MODULE JudgePanel -----------------------------
(***************************************************************************)
(* The judge of an artifact (packages/agent/src/judge.ts) and the panel of *)
(* lenses it delegates to when the config enables one (council.ts).  The   *)
(* judges of a panel ask their models at once, and the answers come in any *)
(* order.  A reply is abstracted to what parseVerdict() looks at.          *)
(***************************************************************************)
EXTENDS Integers, Sequences, FiniteSets

CONSTANTS
  Lens,         \* names of lenses
  Blank,        \* the empty name, which reads as no lens at all
  Score,        \* the scores replies carry
  MaxLenses     \* bound: lenses of a panel

ASSUME JudgeAssumption ==
  /\ Blank \in Lens
  /\ Score \subseteq Nat
  /\ MaxLenses \in Nat

NoScore == -1   \* a reply without a number, or the mean of no scores

(* No JSON or no label in it; or a label, with a score or without one.      *)
JudgeReply ==
  [readable : {FALSE}, label : {"none"}, score : {NoScore}] \cup
  [readable : {TRUE}, label : {"good", "bad"}, score : Score \cup {NoScore}]

VARIABLES
  enabled,    \* judgeCouncil.enabled
  lenses,     \* judgeCouncil.lenses
  judging,    \* "idle", "asking", "done" or "thrown"
  replies,    \* the replies that have come: <<place of the lens, reply>>
  verdict     \* what judge() returned

judgeVars == <<enabled, lenses, judging, replies, verdict>>

NoVerdict == [label |-> "none", score |-> NoScore, notes |-> <<>>]

JudgeInit ==
  /\ enabled \in BOOLEAN
  /\ lenses \in UNION {[1..n -> Lens] : n \in 0..MaxLenses}
  /\ judging = "idle"
  /\ replies = <<>>
  /\ verdict = NoVerdict

-----------------------------------------------------------------------------
(* The judges at work: the single one, or one for every place of the panel. *)
Places == IF enabled THEN DOMAIN lenses ELSE {1}
LensAt(i) == IF enabled THEN lenses[i] ELSE Blank
Replied == {replies[n][1] : n \in DOMAIN replies}

(* parseVerdict(): a reply that cannot be read passes with half the score;  *)
(* a missing score follows the label.                                       *)
ParseVerdict(r) ==
  [label |-> IF r.readable THEN r.label ELSE "good",
   score |-> CASE ~r.readable -> 50
               [] r.readable /\ r.score # NoScore -> r.score
               [] OTHER -> IF r.label = "good" THEN 100 ELSE 0]

(* judge(): with the council enabled and no lens, over to runJudgePanel().  *)
JudgeStarts ==
  /\ judging = "idle"
  /\ judging' = "asking"
  /\ UNCHANGED <<enabled, lenses, replies, verdict>>

(* The model of one judge has answered.  In a panel the judge of a blank    *)
(* lens asks no model: it is taken for the first call and enters the panel  *)
(* once more, which has the same blank lens in it, and so on.               *)
JudgeReplies(i) ==
  /\ judging = "asking" /\ i \in Places \ Replied
  /\ enabled => lenses[i] # Blank
  /\ \E r \in JudgeReply : replies' = Append(replies, <<i, r>>)
  /\ UNCHANGED <<enabled, lenses, judging, verdict>>

(* A model call throws, and judge() or the Promise.all() with it. *)
JudgeThrows(i) ==
  /\ judging = "asking" /\ i \in Places \ Replied
  /\ enabled => lenses[i] # Blank
  /\ judging' = "thrown"
  /\ UNCHANGED <<enabled, lenses, replies, verdict>>

ReplyOf(i) == (CHOOSE n \in DOMAIN replies : replies[n][1] = i)

(* Promise.all(): the verdicts in the order of the lenses. *)
Verdicts == [i \in DOMAIN replies |-> ParseVerdict(replies[ReplyOf(i)][2])]

Goods(vs) == {i \in DOMAIN vs : vs[i].label = "good"}

(* reduce() over the scores: what it has after each of the verdicts. *)
ScoreSums(vs) ==
  LET sum[n \in 0..Len(vs)] == IF n = 0 THEN 0 ELSE sum[n - 1] + vs[n].score
  IN  sum
ScoreSum(vs) == ScoreSums(vs)[Len(vs)]

(* Mutant: a tie is good. *)
Majority_TieIsGood(vs) == 2 * Cardinality(Goods(vs)) >= Len(vs)

Majority(vs) ==
  LET good == Cardinality(Goods(vs)) IN good > Len(vs) - good

(* Math.round() of the mean; there is none of no scores. *)
MeanScore(vs) ==
  IF vs = <<>> THEN NoScore ELSE (2 * ScoreSum(vs) + Len(vs)) \div (2 * Len(vs))

(* The notes of a judge are marked with the lens of its place. *)
Combine ==
  [label |-> IF Majority(Verdicts) THEN "good" ELSE "bad",
   score |-> MeanScore(Verdicts),
   notes |-> [i \in DOMAIN Verdicts |-> <<LensAt(i), Verdicts[i].label>>]]

(* Mutant: the panel returns when its last judge answers. *)
JudgeReturns_WithTheLast ==
  /\ judging = "asking" /\ Replied = Places /\ replies # <<>>
  /\ judging' = "done"
  /\ verdict' = IF enabled THEN Combine
                ELSE [label |-> Verdicts[1].label, score |-> Verdicts[1].score,
                      notes |-> << <<Blank, Verdicts[1].label>> >>]
  /\ UNCHANGED <<enabled, lenses, replies>>

(* All judges have answered: the verdict of the single one, or of the panel. *)
JudgeReturns ==
  /\ judging = "asking" /\ Replied = Places
  /\ judging' = "done"
  /\ verdict' = IF enabled THEN Combine
                ELSE [label |-> Verdicts[1].label, score |-> Verdicts[1].score,
                      notes |-> << <<Blank, Verdicts[1].label>> >>]
  /\ UNCHANGED <<enabled, lenses, replies>>

JudgeNext ==
  JudgeStarts \/ JudgeReturns \/ \E i \in Places : JudgeReplies(i) \/ JudgeThrows(i)

(* A model answers or fails. *)
JudgeFairness ==
  /\ WF_judgeVars(JudgeReturns)
  /\ \A i \in 1..MaxLenses + 1 :
       WF_judgeVars(i \in Places /\ (JudgeReplies(i) \/ JudgeThrows(i)))

JudgeSpec == JudgeInit /\ [][JudgeNext]_judgeVars /\ JudgeFairness

-----------------------------------------------------------------------------
(* What the panel's comment promises, by a count of sets: an artifact       *)
(* passes iff some set of more than half of the judges found it good or     *)
(* could not be read; "an even split is bad", and so is a panel of none.    *)
Passing == {replies[n][1] : n \in {k \in DOMAIN replies :
              ~replies[k][2].readable \/ replies[k][2].label = "good"}}

MajorityDecides ==
  judging = "done" =>
    (verdict.label = "good" <=>
       \E S \in SUBSET Passing : 2 * Cardinality(S) > Cardinality(Places))

(* The score of a panel lies between its judges' scores, and a panel has    *)
(* one iff it has a judge.                                                  *)
ScoreIsAMean ==
  judging = "done" =>
    IF Places = {} THEN verdict.score = NoScore
    ELSE /\ \E i \in DOMAIN Verdicts : Verdicts[i].score <= verdict.score
         /\ \E i \in DOMAIN Verdicts : Verdicts[i].score >= verdict.score

(* Whatever order the judges answer in, every note is marked with the lens  *)
(* of the judge that made it (council.ts:21).                               *)
NotesKeepTheirLens ==
  judging = "done" /\ enabled =>
    \A n \in DOMAIN replies :
      verdict.notes[replies[n][1]] =
        <<lenses[replies[n][1]], ParseVerdict(replies[n][2]).label>>

(* The verdict is the panel's, whatever order its judges answer in: its     *)
(* label the majority's, its score a mean, its notes each its judge's.      *)
VerdictIsThePanels == MajorityDecides /\ ScoreIsAMean /\ NotesKeepTheirLens

(* judge() comes back, with a verdict or by throwing, if every lens of an   *)
(* enabled panel has a name.                                                *)
JudgeComesBack ==
  (judging = "asking" /\ (enabled => \A i \in DOMAIN lenses : lenses[i] # Blank))
    ~> judging \in {"done", "thrown"}
=============================================================================
