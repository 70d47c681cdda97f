---------------------------- MODULE SubAgentPool ----------------------------
(***************************************************************************)
(* Sub-agents (packages/agent/src/subagents.ts and worktree.ts).           *)
(*                                                                         *)
(* spawnSubAgent() takes a permit of a process-wide Semaphore, creates a   *)
(* git worktree if its role is "coder", runs a model turn and, whatever    *)
(* happens, gives the permit back.  A release hands the permit straight to *)
(* the first waiter.  A coder's worktree is removed when it holds nothing, *)
(* and otherwise kept together with a diff.                                *)
(***************************************************************************)
EXTENDS Integers, Sequences, FiniteSets

CONSTANTS
  Agent,         \* calls of spawnSubAgent(), of all runs of the process
  Coder,         \* those whose role is "coder"
  Cores,         \* processor count of the machine
  HasNavigator,  \* TRUE iff navigator.hardwareConcurrency exists (Bun: yes)
  Committers,    \* agents that may run "git commit" in their worktree
  GitTrouble     \* agents in whose existing worktree git may fail

ASSUME PoolAssumption ==
  /\ IsFiniteSet(Agent)
  /\ Coder \subseteq Agent
  /\ Cores \in Nat \ {0}
  /\ HasNavigator \in BOOLEAN
  /\ Committers \subseteq Agent
  /\ GitTrouble \subseteq Agent

VARIABLES
  available,  \* Semaphore.available
  queue,      \* Semaphore.queue: agents whose acquire() is pending
  at,         \* where spawnSubAgent() stands
  tree,       \* the coder's worktree
  returned,   \* the model turn returned, it did not throw
  reported,   \* SubAgentResult.worktree
  changed     \* history: the agent has changed files

poolVars == <<available, queue, at, tree, returned, reported, changed>>

HoldingPc == {"spawned", "working", "asking", "finalizing", "diffing", "discarding"}
Pc == HoldingPc \cup {"idle", "queued", "done"}
Tree == {"none", "clean", "dirty", "committed", "removed"}

Holders == {a \in Agent : at[a] \in HoldingPc}

(* navigator.hardwareConcurrency is taken as it is, cpus().length less 2. *)
DetectCoreCount == IF HasNavigator THEN Cores ELSE Cores - 2

AtLeastOne(n) == IF n < 1 THEN 1 ELSE n
AtMostEight(n) == IF n > 8 THEN 8 ELSE n

DefaultConcurrencyCap == AtLeastOne(AtMostEight(DetectCoreCount))

PoolTypeOK ==
  /\ available \in Nat
  /\ queue \in Seq(Agent)
  /\ at \in [Agent -> Pc]
  /\ tree \in [Agent -> Tree]
  /\ returned \in [Agent -> BOOLEAN]
  /\ reported \in [Agent -> {"none", "null", "diff"}]
  /\ changed \in [Agent -> BOOLEAN]

PoolInit ==
  /\ available = AtLeastOne(DefaultConcurrencyCap)
  /\ queue = <<>>
  /\ at = [a \in Agent |-> "idle"]
  /\ tree = [a \in Agent |-> "none"]
  /\ returned = [a \in Agent |-> FALSE]
  /\ reported = [a \in Agent |-> "none"]
  /\ changed = [a \in Agent |-> FALSE]

-----------------------------------------------------------------------------
(* The semaphore. *)

(* Mutant: one permit too many is handed out. *)
Acquire_OffByOne(a) ==
  IF available >= 0
  THEN /\ available' = available - 1
       /\ at' = [at EXCEPT ![a] = "spawned"]
       /\ UNCHANGED queue
  ELSE /\ queue' = Append(queue, a)
       /\ at' = [at EXCEPT ![a] = "queued"]
       /\ UNCHANGED available

Acquire(a) ==
  IF available > 0
  THEN /\ available' = available - 1
       /\ at' = [at EXCEPT ![a] = "spawned"]
       /\ UNCHANGED queue
  ELSE /\ queue' = Append(queue, a)
       /\ at' = [at EXCEPT ![a] = "queued"]
       /\ UNCHANGED available

(* Mutant: the permit goes to the agent that came last. *)
ReleaseAs_Lifo(a, next) ==
  IF queue = <<>>
  THEN /\ available' = available + 1
       /\ at' = [at EXCEPT ![a] = next]
       /\ UNCHANGED queue
  ELSE /\ queue' = SubSeq(queue, 1, Len(queue) - 1)
       /\ at' = [at EXCEPT ![a] = next, ![queue[Len(queue)]] = "spawned"]
       /\ UNCHANGED available

(* Mutant: a release wakes nobody; waiters stay where they are. *)
ReleaseAs_NoWake(a, next) ==
  /\ available' = available + 1
  /\ at' = [at EXCEPT ![a] = next]
  /\ UNCHANGED queue

(* release() of agent a, which moves on to next. *)
ReleaseAs(a, next) ==
  IF queue = <<>>
  THEN /\ available' = available + 1
       /\ at' = [at EXCEPT ![a] = next]
       /\ UNCHANGED queue
  ELSE /\ queue' = Tail(queue)
       /\ at' = [at EXCEPT ![a] = next, ![Head(queue)] = "spawned"]
       /\ UNCHANGED available

(* The result is made, subagent.done is emitted, finally releases. *)
Settle(a, result) ==
  /\ reported' = [reported EXCEPT ![a] = result]
  /\ ReleaseAs(a, "done")

-----------------------------------------------------------------------------
(* spawnSubAgent(). *)

MoveTo(a, p) == at' = [at EXCEPT ![a] = p]

Spawn(a) ==
  /\ at[a] = "idle"
  /\ Acquire(a)
  /\ UNCHANGED <<tree, returned, reported, changed>>

(* createWorktree() for a coder; the other roles share the parent's cwd. *)
StartWork(a) ==
  /\ at[a] = "spawned"
  /\ MoveTo(a, "working")
  /\ tree' = [tree EXCEPT ![a] = IF a \in Coder THEN "clean" ELSE @]
  /\ UNCHANGED <<available, queue, returned, reported, changed>>

(* Mutant: the failure returns before the finally block. *)
CreateFails_Leaks(a) ==
  /\ at[a] = "spawned"
  /\ a \in Coder
  /\ MoveTo(a, "done")
  /\ reported' = [reported EXCEPT ![a] = "null"]
  /\ UNCHANGED <<available, queue, tree, returned, changed>>

(* "git worktree add" fails: the catch block has no worktree to discard. *)
CreateFails(a) ==
  /\ at[a] = "spawned"
  /\ a \in Coder
  /\ Settle(a, "null")
  /\ UNCHANGED <<tree, returned, changed>>

(* A tool call of the turn changes files in the worktree. *)
Edit(a) ==
  /\ at[a] = "working"
  /\ a \in Coder
  /\ tree[a] \in {"clean", "dirty", "committed"}
  /\ tree' = [tree EXCEPT ![a] = "dirty"]
  /\ changed' = [changed EXCEPT ![a] = TRUE]
  /\ UNCHANGED <<available, queue, at, returned, reported>>

(* A shell.run call of the turn commits what has changed. *)
Commit(a) ==
  /\ a \in Committers
  /\ at[a] = "working"
  /\ tree[a] = "dirty"
  /\ tree' = [tree EXCEPT ![a] = "committed"]
  /\ UNCHANGED <<available, queue, at, returned, reported, changed>>

(* A tool call of the turn that needs the user awaits the parent's          *)
(* permission channel, which knows neither a timeout nor the signal.        *)
Ask(a) ==
  /\ at[a] = "working"
  /\ MoveTo(a, "asking")
  /\ UNCHANGED <<available, queue, tree, returned, reported, changed>>

PromptAnswered(a) ==
  /\ at[a] = "asking"
  /\ MoveTo(a, "working")
  /\ UNCHANGED <<available, queue, tree, returned, reported, changed>>

TurnReturns(a) ==
  /\ at[a] = "working"
  /\ returned' = [returned EXCEPT ![a] = TRUE]
  /\ IF a \in Coder
     THEN MoveTo(a, "finalizing") /\ UNCHANGED <<available, queue, reported>>
     ELSE Settle(a, "null")
  /\ UNCHANGED <<tree, changed>>

(* A provider error, an AbortError included. *)
TurnThrows(a) ==
  /\ at[a] = "working"
  /\ IF a \in Coder
     THEN MoveTo(a, "discarding") /\ UNCHANGED <<available, queue, reported>>
     ELSE Settle(a, "null")
  /\ UNCHANGED <<tree, returned, changed>>

(* Mutant: untracked files are not listed, an edit that adds files is missed. *)
StatusIsEmpty_Tracked(a) == tree[a] \in {"clean", "committed", "dirty"}

(* What "git status --porcelain" prints: nothing after a commit either. *)
StatusIsEmpty(a) == tree[a] \in {"clean", "committed"}

(* finalizeWorktree(): the exit code is not looked at, and a failed git    *)
(* prints nothing to stdout.                                               *)
CheckStatus(a) ==
  /\ at[a] = "finalizing"
  /\ \/ MoveTo(a, IF StatusIsEmpty(a) THEN "discarding" ELSE "diffing")
     \/ a \in GitTrouble /\ MoveTo(a, "discarding")
  /\ UNCHANGED <<available, queue, tree, returned, reported, changed>>

(* git add -A, git diff --cached; the worktree stays on its branch. *)
CaptureDiff(a) ==
  /\ at[a] = "diffing"
  /\ Settle(a, "diff")
  /\ UNCHANGED <<tree, returned, changed>>

(* discardWorktree(): git worktree remove --force, best effort. *)
Discard(a) ==
  /\ at[a] = "discarding"
  /\ \/ tree' = [tree EXCEPT ![a] = "removed"]
     \/ a \in GitTrouble /\ UNCHANGED tree
  /\ Settle(a, "null")
  /\ UNCHANGED <<returned, changed>>

EndTurn(a) == TurnReturns(a) \/ TurnThrows(a)
Wrap(a) == CheckStatus(a) \/ CaptureDiff(a) \/ Discard(a)
Begin(a) == StartWork(a) \/ CreateFails(a)

(* No sub-agent is at work: the process waits for the next spawn, if any. *)
Quiet == Holders = {} /\ UNCHANGED poolVars

PoolNext ==
  \/ \E a \in Agent :
       \/ Spawn(a) \/ Begin(a) \/ Edit(a) \/ Commit(a) \/ Ask(a) \/ PromptAnswered(a)
       \/ EndTurn(a) \/ Wrap(a)
  \/ Quiet

PoolSpec == PoolInit /\ [][PoolNext]_poolVars

(* A turn makes at most brief.budget.steps model calls, each with finitely  *)
(* many tool calls, so it does not ask for ever: its end, which each prompt *)
(* puts off, is strongly fair.  git commands end.  Nobody is obliged to     *)
(* spawn sub-agents, nor to answer a prompt.                                *)
FairPoolSpec ==
  PoolSpec /\ \A a \in Agent : WF_poolVars(Begin(a)) /\ SF_poolVars(EndTurn(a)) /\ WF_poolVars(Wrap(a))

(* The user answers every prompt in the end. *)
AnsweredPoolSpec == FairPoolSpec /\ \A a \in Agent : WF_poolVars(PromptAnswered(a))

-----------------------------------------------------------------------------
(* Properties. *)

Waiting == {a \in Agent : at[a] = "queued"}

(* Permits are neither lost nor made: those left and those held add up to  *)
(* the capacity, whichever way a sub-agent ends.                           *)
PermitsConserved ==
  available + Cardinality(Holders) = AtLeastOne(DefaultConcurrencyCap)

(* Nobody waits while a permit is free. *)
NoIdlePermit == Waiting # {} => available = 0

(* The queue holds each waiting agent once, and no one else. *)
QueueIsWaiting ==
  /\ {queue[i] : i \in DOMAIN queue} = Waiting
  /\ \A i, j \in DOMAIN queue : queue[i] = queue[j] => i = j

(* No more sub-agents work at once than the cap allows. *)
CapRespected == Cardinality(Holders) <= DefaultConcurrencyCap

(* The semaphore is sound whichever way its holders end: each permit is     *)
(* left, held or handed over once, nobody waits for one that is free, and   *)
(* those that wait are all in the queue (subagents.ts:28-52).               *)
SemaphoreSound == PermitsConserved /\ NoIdlePermit /\ QueueIsWaiting /\ CapRespected

QueuedBefore(a, b) ==
  \E i, j \in DOMAIN queue : i < j /\ queue[i] = a /\ queue[j] = b

(* First come, first served: whoever gets a permit while somebody else      *)
(* goes on waiting was queued before him; a newcomer does not overtake.     *)
FirstComeFirstServed ==
  [][\A a, b \in Agent :
       /\ at[a] = "queued" /\ at'[a] = "queued"
       /\ at[b] \in {"idle", "queued"} /\ at'[b] = "spawned"
       => QueuedBefore(b, a)]_poolVars

(* Where git works, a worktree outlives its sub-agent only if the result    *)
(* points at it.                                                            *)
NoOrphanTree ==
  \A a \in Agent \ GitTrouble : at[a] = "done" =>
    tree[a] \in {"none", "removed"} \/ reported[a] = "diff"

WorkReported(a) ==
  at[a] = "done" /\ returned[a] /\ changed[a] => reported[a] = "diff"

(* Where git works and the agent does not commit, work of a turn that       *)
(* returned is reported, not thrown away with the worktree.                 *)
NoWorkDropped == \A a \in Agent \ (GitTrouble \cup Committers) : WorkReported(a)

(* Work is neither lost nor left lying: where git works, the result points  *)
(* at every worktree that stays, and work of a coder that does not commit   *)
(* has one (worktree.ts:45-70).                                             *)
WorkIsFound == NoOrphanTree /\ NoWorkDropped

(* The same for those that commit ("if it has changes, the diff is captured *)
(* (worktree left in place, on its branch)").                               *)
NoCommitDropped == \A a \in Agent \ GitTrouble : WorkReported(a)

(* Every call of spawnSubAgent() resolves, one that waits included, if the  *)
(* user answers what sub-agents ask: one prompt nobody answers keeps its    *)
(* permit, and with as many of them as permits everybody waits.             *)
EverySpawnResolves == \A a \in Agent : at[a] # "idle" ~> at[a] = "done"
=============================================================================
