------------------------- MODULE SubAgentPoolProofs -------------------------
(***************************************************************************)
(* Proofs about SubAgentPool: for any number of sub-agents and any number  *)
(* of permits the semaphore neither loses nor makes a permit, nobody waits *)
(* beside a free one, and the queue holds exactly the agents that wait.    *)
(* The three are inductive together: which agent a release wakes is known  *)
(* only because the queue holds waiting agents, and that a release finds   *)
(* the queue empty says that nobody waits.                                 *)
(***************************************************************************)
EXTENDS SubAgentPool, FiniteSetTheorems, SequenceTheorems, TLAPS

(* The part of the state the semaphore is made of. *)
SemType ==
  /\ available \in Nat
  /\ queue \in Seq(Agent)
  /\ at \in [Agent -> Pc]

SemInv == SemType /\ QueueIsWaiting /\ PermitsConserved /\ NoIdlePermit

(* A set of agents is finite and loses and gains single agents one by one. *)
LEMMA HoldersFinite ==
  ASSUME SemType
  PROVE  /\ IsFiniteSet(Holders)
         /\ Cardinality(Holders) \in Nat
<1>1. Holders \in SUBSET Agent
  BY DEF Holders
<1>2. IsFiniteSet(Holders)
  BY <1>1, PoolAssumption, FS_Subset
<1> QED
  BY <1>2, FS_CardinalityType

(* The capacity is a positive number, whatever the machine. *)
LEMMA CapacityIsPositive ==
  /\ AtLeastOne(DefaultConcurrencyCap) \in Nat \ {0}
  /\ DefaultConcurrencyCap \in Nat \ {0}
  /\ AtLeastOne(DefaultConcurrencyCap) = DefaultConcurrencyCap
BY PoolAssumption
   DEF DefaultConcurrencyCap, AtLeastOne, AtMostEight, DetectCoreCount

-----------------------------------------------------------------------------
(* A step that moves an agent between places where it holds a permit. *)
LEMMA GotoKeepsSem ==
  ASSUME SemInv, NEW a \in Agent, at[a] \in HoldingPc,
         NEW p \in HoldingPc, MoveTo(a, p), UNCHANGED <<available, queue>>
  PROVE  SemInv'
<1>1. SemType'
  BY DEF SemInv, SemType, MoveTo, Pc
<1>2. Holders' = Holders /\ Waiting' = Waiting
  BY DEF SemInv, SemType, MoveTo, Holders, Waiting, HoldingPc
<1> QED
  BY <1>1, <1>2 DEF SemInv, QueueIsWaiting, PermitsConserved, NoIdlePermit

(* acquire() of an agent that neither holds a permit nor waits. *)
LEMMA AcquireKeepsSem ==
  ASSUME SemInv, NEW a \in Agent, at[a] = "idle", Acquire(a)
  PROVE  SemInv'
<1> USE DEF SemInv, SemType
<1>0. a \notin Holders /\ a \notin Waiting
  BY DEF Holders, Waiting, HoldingPc
<1>1. CASE available > 0
  <2>1. /\ available' = available - 1
        /\ at' = [at EXCEPT ![a] = "spawned"]
        /\ queue' = queue
    BY <1>1 DEF Acquire
  <2>2. SemType'
    BY <1>1, <2>1 DEF Pc, HoldingPc
  <2>3. Holders' = Holders \cup {a}
    BY <2>1 DEF Holders, HoldingPc
  <2>4. Cardinality(Holders') = Cardinality(Holders) + 1
    BY <1>0, <2>3, HoldersFinite, FS_AddElement
  <2>5. Waiting' = Waiting
    BY <1>0, <2>1 DEF Waiting
  <2>6. PermitsConserved'
    BY <2>1, <2>4, HoldersFinite, CapacityIsPositive DEF PermitsConserved
  <2>7. Waiting = {}
    BY <1>1 DEF NoIdlePermit
  <2> QED
    BY <2>1, <2>2, <2>5, <2>6, <2>7 DEF QueueIsWaiting, NoIdlePermit
<1>2. CASE ~(available > 0)
  <2>1. /\ queue' = Append(queue, a)
        /\ at' = [at EXCEPT ![a] = "queued"]
        /\ available' = available
    BY <1>2 DEF Acquire
  <2>2. SemType'
    BY <2>1, AppendProperties DEF Pc, HoldingPc
  <2>3. Holders' = Holders
    BY <1>0, <2>1 DEF Holders, HoldingPc
  <2>4. Waiting' = Waiting \cup {a}
    BY <2>1 DEF Waiting
  <2>5. DOMAIN queue = 1..Len(queue) /\ DOMAIN queue' = 1..(Len(queue) + 1)
    BY <2>1
  <2>6. \A i \in 1..Len(queue) : queue'[i] = queue[i] /\ queue[i] \in Waiting
    BY <2>1, <2>5 DEF QueueIsWaiting
  <2>7. queue'[Len(queue) + 1] = a
    BY <2>1
  <2>8. {queue'[i] : i \in DOMAIN queue'} = Waiting'
    BY <2>4, <2>5, <2>6, <2>7 DEF QueueIsWaiting
  <2>9. \A i, j \in DOMAIN queue' : queue'[i] = queue'[j] => i = j
    BY <1>0, <2>5, <2>6, <2>7 DEF QueueIsWaiting
  <2> QED
    BY <1>2, <2>1, <2>2, <2>3, <2>8, <2>9
       DEF QueueIsWaiting, PermitsConserved, NoIdlePermit
<1> QED
  BY <1>1, <1>2

(* release() of an agent that holds a permit, on its way out. *)
LEMMA ReleaseKeepsSem ==
  ASSUME SemInv, NEW a \in Agent, at[a] \in HoldingPc, ReleaseAs(a, "done")
  PROVE  SemInv'
<1> USE DEF SemInv, SemType
<1>0. a \in Holders /\ a \notin Waiting
  BY DEF Holders, Waiting, HoldingPc
<1>1. CASE queue = <<>>
  <2>1. /\ available' = available + 1
        /\ at' = [at EXCEPT ![a] = "done"]
        /\ queue' = queue
    BY <1>1 DEF ReleaseAs
  <2>2. SemType'
    BY <2>1 DEF Pc
  <2>3. Holders' = Holders \ {a}
    BY <2>1 DEF Holders, HoldingPc
  <2>4. Cardinality(Holders') = Cardinality(Holders) - 1
    BY <1>0, <2>3, HoldersFinite, FS_RemoveElement
  <2>5. Waiting' = Waiting
    BY <1>0, <2>1 DEF Waiting
  <2>6. Waiting = {}
    BY <1>1 DEF QueueIsWaiting
  <2>7. PermitsConserved'
    BY <2>1, <2>4, HoldersFinite, CapacityIsPositive DEF PermitsConserved
  <2> QED
    BY <2>1, <2>2, <2>5, <2>6, <2>7 DEF QueueIsWaiting, NoIdlePermit
<1>2. CASE queue # <<>>
  <2> DEFINE h == Head(queue)
  <2>1. /\ queue' = Tail(queue)
        /\ at' = [at EXCEPT ![a] = "done", ![h] = "spawned"]
        /\ available' = available
    BY <1>2 DEF ReleaseAs
  <2>2. /\ Len(queue) \in Nat \ {0}
        /\ DOMAIN queue = 1..Len(queue)
        /\ h = queue[1]
        /\ Tail(queue) \in Seq(Agent)
        /\ Len(Tail(queue)) = Len(queue) - 1
        /\ \A i \in 1..(Len(queue) - 1) : Tail(queue)[i] = queue[i + 1]
    BY <1>2
  <2>3. h \in Waiting /\ h \in Agent /\ h # a
    BY <1>0, <2>2 DEF QueueIsWaiting, Waiting
  <2> HIDE DEF h
  <2>4. SemType'
    BY <2>1, <2>2, <2>3 DEF Pc, HoldingPc
  <2>5. Holders' = (Holders \ {a}) \cup {h}
    BY <1>0, <2>1, <2>3 DEF Holders, HoldingPc
  <2>6. h \notin Holders
    BY <2>3 DEF Waiting, Holders, HoldingPc
  <2>7. Cardinality(Holders') = Cardinality(Holders)
    <3>1. /\ IsFiniteSet(Holders \ {a})
          /\ Cardinality(Holders \ {a}) = Cardinality(Holders) - 1
      BY <1>0, HoldersFinite, FS_RemoveElement
    <3>2. Cardinality(Holders') = Cardinality(Holders \ {a}) + 1
      BY <2>5, <2>6, <3>1, FS_AddElement
    <3> QED
      BY <3>1, <3>2, HoldersFinite
  <2>8. Waiting' = Waiting \ {h}
    BY <1>0, <2>1, <2>3 DEF Waiting
  <2>9. DOMAIN queue' = 1..(Len(queue) - 1)
    BY <2>1, <2>2
  <2>10. \A i \in DOMAIN queue' :
           queue'[i] = queue[i + 1] /\ i + 1 \in DOMAIN queue /\ i + 1 # 1
    BY <2>1, <2>2, <2>9
  <2>11. {queue'[i] : i \in DOMAIN queue'} = Waiting'
    <3>1. ASSUME NEW i \in DOMAIN queue' PROVE queue'[i] \in Waiting'
      BY <2>2, <2>8, <2>10, <3>1 DEF QueueIsWaiting
    <3>2. ASSUME NEW b \in Waiting' PROVE \E i \in DOMAIN queue' : queue'[i] = b
      <4>1. PICK k \in DOMAIN queue : queue[k] = b
        BY <2>8, <3>2 DEF QueueIsWaiting
      <4>2. k # 1
        BY <2>2, <2>8, <3>2, <4>1
      <4>3. k - 1 \in DOMAIN queue' /\ (k - 1) + 1 = k
        BY <2>2, <2>9, <4>2
      <4> QED
        BY <2>10, <4>1, <4>3
    <3> QED
      BY <3>1, <3>2
  <2>12. \A i, j \in DOMAIN queue' : queue'[i] = queue'[j] => i = j
    <3>1. \A i, j \in DOMAIN queue' : i + 1 = j + 1 => i = j
      BY <2>2, <2>9
    <3> QED
      BY <2>10, <3>1 DEF QueueIsWaiting
  <2>13. Waiting' # {} => available' = 0
    BY <2>1, <2>3 DEF NoIdlePermit
  <2> QED
    BY <2>1, <2>4, <2>7, <2>11, <2>12, <2>13
       DEF QueueIsWaiting, PermitsConserved, NoIdlePermit
<1> QED
  BY <1>1, <1>2

-----------------------------------------------------------------------------
(* The step of the whole specification, one case per action. *)

(* An agent moves among the places where it holds a permit, leaves the pool, *)
(* enters it, or the semaphore is not touched: there is nothing else.        *)
LEMMA StepOnSem ==
  ASSUME SemType, [PoolNext]_poolVars
  PROVE  \/ UNCHANGED <<available, queue, at>>
         \/ \E a \in Agent : at[a] = "idle" /\ Acquire(a)
         \/ \E a \in Agent, p \in HoldingPc :
              at[a] \in HoldingPc /\ MoveTo(a, p) /\ UNCHANGED <<available, queue>>
         \/ \E a \in Agent : at[a] \in HoldingPc /\ ReleaseAs(a, "done")
<1> USE DEF HoldingPc
<1>1. CASE UNCHANGED poolVars
  BY <1>1 DEF poolVars
<1>2. CASE Quiet
  BY <1>2 DEF Quiet, poolVars
<1>3. ASSUME NEW a \in Agent, Spawn(a)
      PROVE  at[a] = "idle" /\ Acquire(a)
  BY <1>3 DEF Spawn
<1>4. ASSUME NEW a \in Agent, Begin(a) \/ EndTurn(a) \/ Wrap(a)
      PROVE  \/ \E p \in HoldingPc :
                  at[a] \in HoldingPc /\ MoveTo(a, p) /\ UNCHANGED <<available, queue>>
             \/ at[a] \in HoldingPc /\ ReleaseAs(a, "done")
  <2>1. CASE StartWork(a)
    BY <2>1 DEF StartWork
  <2>2. CASE CreateFails(a)
    BY <2>2 DEF CreateFails, Settle
  <2>3. CASE TurnReturns(a)
    BY <2>3 DEF TurnReturns, Settle
  <2>4. CASE TurnThrows(a)
    BY <2>4 DEF TurnThrows, Settle
  <2>5. CASE CheckStatus(a)
    BY <2>5 DEF CheckStatus
  <2>6. CASE CaptureDiff(a)
    BY <2>6 DEF CaptureDiff, Settle
  <2>7. CASE Discard(a)
    BY <2>7 DEF Discard, Settle
  <2> QED
    BY <1>4, <2>1, <2>2, <2>3, <2>4, <2>5, <2>6, <2>7 DEF Begin, EndTurn, Wrap
<1>5. ASSUME NEW a \in Agent, Edit(a) \/ Commit(a)
      PROVE  UNCHANGED <<available, queue, at>>
  BY <1>5 DEF Edit, Commit
<1>6. ASSUME NEW a \in Agent, Ask(a) \/ PromptAnswered(a)
      PROVE  \E p \in HoldingPc :
               at[a] \in HoldingPc /\ MoveTo(a, p) /\ UNCHANGED <<available, queue>>
  BY <1>6 DEF Ask, PromptAnswered
<1> QED
  BY <1>1, <1>2, <1>3, <1>4, <1>5, <1>6 DEF PoolNext

LEMMA SemInvInit == PoolInit => SemInv
<1> SUFFICES ASSUME PoolInit PROVE SemInv
  OBVIOUS
<1>1. Holders = {} /\ Waiting = {}
  BY DEF PoolInit, Holders, Waiting, HoldingPc
<1>2. SemType
  BY CapacityIsPositive DEF PoolInit, SemType, Pc
<1>3. PermitsConserved
  BY <1>1, FS_EmptySet, CapacityIsPositive DEF PoolInit, PermitsConserved
<1>4. QueueIsWaiting
  BY <1>1 DEF PoolInit, QueueIsWaiting
<1> QED
  BY <1>1, <1>2, <1>3, <1>4 DEF SemInv, NoIdlePermit

LEMMA SemInvStep == SemInv /\ [PoolNext]_poolVars => SemInv'
<1> SUFFICES ASSUME SemInv, [PoolNext]_poolVars PROVE SemInv'
  OBVIOUS
<1>1. CASE UNCHANGED <<available, queue, at>>
  BY <1>1 DEF SemInv, SemType, QueueIsWaiting, PermitsConserved, NoIdlePermit,
              Holders, Waiting
<1>2. ASSUME NEW a \in Agent, at[a] = "idle", Acquire(a)
      PROVE  SemInv'
  BY <1>2, AcquireKeepsSem
<1>3. ASSUME NEW a \in Agent, NEW p \in HoldingPc,
             at[a] \in HoldingPc, MoveTo(a, p), UNCHANGED <<available, queue>>
      PROVE  SemInv'
  BY <1>3, GotoKeepsSem
<1>4. ASSUME NEW a \in Agent, at[a] \in HoldingPc, ReleaseAs(a, "done")
      PROVE  SemInv'
  BY <1>4, ReleaseKeepsSem
<1> QED
  BY <1>1, <1>2, <1>3, <1>4, StepOnSem DEF SemInv

(* The invariant of the semaphore holds throughout.                         *)
THEOREM SemInvHolds == PoolSpec => []SemInv
BY SemInvInit, SemInvStep, PTL DEF PoolSpec

(* Permits are neither lost nor made, whichever way a sub-agent ends: a      *)
(* failed "git worktree add", a crashed turn, a failed git in the worktree.  *)
THEOREM PermitsAreConserved == PoolSpec => []PermitsConserved
<1>1. SemInv => PermitsConserved
  BY DEF SemInv
<1> QED
  BY <1>1, SemInvHolds, PTL

(* No agent waits while a permit is free: a release never misses a waiter. *)
THEOREM NoPermitIsIdle == PoolSpec => []NoIdlePermit
<1>1. SemInv => NoIdlePermit
  BY DEF SemInv
<1> QED
  BY <1>1, SemInvHolds, PTL

(* The queue of the semaphore holds every waiting agent once. *)
THEOREM QueueHoldsTheWaiting == PoolSpec => []QueueIsWaiting
<1>1. SemInv => QueueIsWaiting
  BY DEF SemInv
<1> QED
  BY <1>1, SemInvHolds, PTL

(* Never more sub-agents at work than the cap the process computed. *)
THEOREM CapIsRespected == PoolSpec => []CapRespected
<1>1. SemInv => CapRespected
  BY HoldersFinite, CapacityIsPositive DEF SemInv, SemType, PermitsConserved, CapRespected
<1> QED
  BY <1>1, SemInvHolds, PTL

-----------------------------------------------------------------------------
(* The semaphore is sound for any number of sub-agents and cores, however   *)
(* its holders end (subagents.ts:28-52).                                    *)
THEOREM SemaphoreIsSound == PoolSpec => []SemaphoreSound
BY PermitsAreConserved, NoPermitIsIdle, QueueHoldsTheWaiting, CapIsRespected, PTL
   DEF SemaphoreSound

(* First come, first served, from the same invariant: only a release grants *)
(* a permit while somebody waits, and it grants it to the head of the queue.*)
THEOREM ServedInOrder == PoolSpec => FirstComeFirstServed
<1>1. ASSUME SemInv, [PoolNext]_poolVars,
             NEW a \in Agent, NEW b \in Agent,
             at[a] = "queued", at'[a] = "queued",
             at[b] \in {"idle", "queued"}, at'[b] = "spawned"
      PROVE  QueuedBefore(b, a)
  <2> USE <1>1 DEF SemInv, SemType
  <2>0. a \in Waiting /\ available = 0
    BY DEF Waiting, NoIdlePermit
  <2>1. CASE UNCHANGED <<available, queue, at>>
    BY <2>1
  <2>2. ASSUME NEW c \in Agent, at[c] = "idle", Acquire(c)
        PROVE  FALSE
    BY <2>0, <2>2 DEF Acquire
  <2>3. ASSUME NEW c \in Agent, NEW p \in HoldingPc,
               at[c] \in HoldingPc, MoveTo(c, p), UNCHANGED <<available, queue>>
        PROVE  FALSE
    BY <2>3 DEF MoveTo, HoldingPc
  <2>4. ASSUME NEW c \in Agent, at[c] \in HoldingPc, ReleaseAs(c, "done")
        PROVE  QueuedBefore(b, a)
    <3>1. PICK j \in DOMAIN queue : queue[j] = a
      BY <2>0 DEF QueueIsWaiting
    <3>2. queue # <<>> /\ DOMAIN queue = 1..Len(queue) /\ Head(queue) = queue[1]
      BY <3>1
    <3>3. b = queue[1]
      BY <2>4, <3>2 DEF ReleaseAs, HoldingPc
    <3>4. at'[queue[1]] = "spawned"
      BY <3>3
    <3>5. j # 1
      BY <3>1, <3>4
    <3> QED
      BY <3>1, <3>2, <3>3, <3>5 DEF QueuedBefore
  <2> QED
    BY <2>1, <2>2, <2>3, <2>4, StepOnSem
<1>2. SemInv /\ [PoolNext]_poolVars =>
        [\A a, b \in Agent :
           /\ at[a] = "queued" /\ at'[a] = "queued"
           /\ at[b] \in {"idle", "queued"} /\ at'[b] = "spawned"
           => QueuedBefore(b, a)]_poolVars
  BY <1>1
<1> QED
  BY <1>2, SemInvHolds, PTL DEF PoolSpec, FirstComeFirstServed

-----------------------------------------------------------------------------
(* The worktrees. *)
TreeType ==
  /\ tree \in [Agent -> Tree]
  /\ returned \in [Agent -> BOOLEAN]
  /\ reported \in [Agent -> {"none", "null", "diff"}]
  /\ changed \in [Agent -> BOOLEAN]

(* The type invariant needs the semaphore's: a release wakes agents of the  *)
(* queue, and that these wait is what keeps the holders' places apart.      *)
THEOREM TypeCorrect == PoolSpec => []PoolTypeOK
<1>1. PoolInit => TreeType
  BY DEF PoolInit, TreeType, Tree
<1>2. TreeType /\ [PoolNext]_poolVars => TreeType'
  <2> SUFFICES ASSUME TreeType, [PoolNext]_poolVars PROVE TreeType'
    OBVIOUS
  <2> USE DEF TreeType, Tree
  <2>1. CASE UNCHANGED poolVars
    BY <2>1 DEF poolVars
  <2>2. CASE Quiet
    BY <2>2 DEF Quiet, poolVars
  <2>3. ASSUME NEW a \in Agent, Spawn(a) \/ Edit(a) \/ Commit(a) \/ Ask(a) \/ PromptAnswered(a)
        PROVE  TreeType'
    BY <2>3 DEF Spawn, Edit, Commit, Ask, PromptAnswered
  <2>4. ASSUME NEW a \in Agent, Begin(a) PROVE TreeType'
    BY <2>4 DEF Begin, StartWork, CreateFails, Settle
  <2>5. ASSUME NEW a \in Agent, EndTurn(a) PROVE TreeType'
    BY <2>5 DEF EndTurn, TurnReturns, TurnThrows, Settle
  <2>6. ASSUME NEW a \in Agent, Wrap(a) PROVE TreeType'
    BY <2>6 DEF Wrap, CheckStatus, CaptureDiff, Discard, Settle
  <2> QED
    BY <2>1, <2>2, <2>3, <2>4, <2>5, <2>6 DEF PoolNext
<1>3. SemInv /\ TreeType => PoolTypeOK
  BY DEF SemInv, SemType, TreeType, PoolTypeOK
<1> QED
  BY <1>1, <1>2, <1>3, SemInvHolds, PTL DEF PoolSpec

(* What is known of one agent's worktree at each place of spawnSubAgent(),  *)
(* where git works; the last part is about agents that do not commit.       *)
TreeAtPc(a) ==
  /\ at[a] \in {"idle", "queued", "spawned"} =>
       tree[a] = "none" /\ ~changed[a] /\ ~returned[a]
  /\ a \notin Coder => tree[a] = "none" /\ ~changed[a]
  /\ at[a] \in {"finalizing", "diffing", "discarding"} => a \in Coder
  /\ at[a] \in {"working", "asking"} => ~returned[a]
  /\ at[a] = "done" => tree[a] \in {"none", "removed"} \/ reported[a] = "diff"
  /\ a \notin Committers =>
       /\ tree[a] # "committed"
       /\ at[a] \in {"working", "asking", "finalizing", "diffing"} /\ changed[a] =>
            tree[a] = "dirty"
       /\ at[a] = "discarding" /\ returned[a] => ~changed[a]
       /\ WorkReported(a)

GitWorks == Agent \ GitTrouble

TreeInv == SemInv /\ TreeType /\ \A a \in GitWorks : TreeAtPc(a)

(* The agents a step is not about: a release wakes one of them at most. *)
LEMMA OthersKeepTree ==
  ASSUME TreeInv, NEW a \in GitWorks,
         UNCHANGED <<tree[a], returned[a], reported[a], changed[a]>>,
         at'[a] = at[a] \/ (at[a] \in {"idle", "queued"} /\ at'[a] \in {"queued", "spawned"})
  PROVE  TreeAtPc(a)'
BY DEF TreeInv, TreeType, TreeAtPc, GitWorks, WorkReported

(* Which agents a release moves: itself, and a waiting one. *)
LEMMA ReleaseMoves ==
  ASSUME SemInv, NEW b \in Agent, at[b] \in HoldingPc, ReleaseAs(b, "done")
  PROVE  /\ at'[b] = "done"
         /\ \A a \in Agent \ {b} :
              at'[a] = at[a] \/ (at[a] = "queued" /\ at'[a] = "spawned")
<1> USE DEF SemInv, SemType
<1>1. CASE queue = <<>>
  BY <1>1 DEF ReleaseAs
<1>2. CASE queue # <<>>
  <2>1. DOMAIN queue = 1..Len(queue) /\ Head(queue) = queue[1] /\ 1 \in DOMAIN queue
    BY <1>2
  <2>2. Head(queue) \in Agent /\ at[Head(queue)] = "queued"
    BY <2>1 DEF QueueIsWaiting, Waiting
  <2>3. at' = [at EXCEPT ![b] = "done", ![Head(queue)] = "spawned"]
    BY <1>2 DEF ReleaseAs
  <2> QED
    BY <2>2, <2>3 DEF HoldingPc
<1> QED
  BY <1>1, <1>2

LEMMA TreeInvStep ==
  ASSUME TreeInv, [PoolNext]_poolVars, SemInv', TreeType'
  PROVE  \A a \in GitWorks : TreeAtPc(a)'
<1> USE DEF TreeInv, GitWorks
<1>1. CASE UNCHANGED poolVars \/ Quiet
  BY <1>1, OthersKeepTree DEF poolVars, Quiet
<1>2. ASSUME NEW b \in Agent, \/ Spawn(b) \/ Edit(b) \/ Commit(b) \/ Ask(b) \/ PromptAnswered(b)
                                \/ Begin(b) \/ EndTurn(b) \/ Wrap(b)
      PROVE  \A a \in GitWorks : TreeAtPc(a)'
  <2> USE DEF SemInv, SemType, TreeType
  <2>1. ASSUME NEW a \in GitWorks, a # b PROVE TreeAtPc(a)'
    <3>1. UNCHANGED <<tree[a], returned[a], reported[a], changed[a]>>
      BY <1>2, <2>1 DEF Spawn, Edit, Commit, Ask, PromptAnswered, Begin, StartWork, CreateFails, EndTurn,
         TurnReturns, TurnThrows, Wrap, CheckStatus, CaptureDiff, Discard, Settle
    <3>2. CASE Spawn(b) \/ Edit(b) \/ Commit(b)
      <4>1. at'[a] = at[a]
        BY <2>1, <3>2 DEF Spawn, Acquire, Edit, Commit
      <4> QED
        BY <3>1, <4>1, OthersKeepTree
    <3>3. CASE at[b] \in HoldingPc /\ ReleaseAs(b, "done")
      BY <2>1, <3>1, <3>3, ReleaseMoves, OthersKeepTree
    <3>4. CASE \E p \in HoldingPc : MoveTo(b, p)
      <4>1. at'[a] = at[a]
        BY <2>1, <3>4 DEF MoveTo
      <4> QED
        BY <3>1, <4>1, OthersKeepTree
    <3>5. \/ Spawn(b) \/ Edit(b) \/ Commit(b)
          \/ at[b] \in HoldingPc /\ ReleaseAs(b, "done")
          \/ \E p \in HoldingPc : MoveTo(b, p)
      BY <1>2 DEF Ask, PromptAnswered, Begin, StartWork, CreateFails, EndTurn, TurnReturns,
         TurnThrows, Wrap, CheckStatus, CaptureDiff, Discard, Settle, HoldingPc
    <3> QED
      BY <3>2, <3>3, <3>4, <3>5
  <2>2. ASSUME b \in GitWorks PROVE TreeAtPc(b)'
    <3>0. TreeAtPc(b)
      BY <2>2
    <3> USE <2>2 DEF WorkReported
    <3>1. CASE Spawn(b)
      BY <3>0, <3>1 DEF Spawn, Acquire, TreeAtPc
    <3>2. CASE Edit(b)
      BY <3>0, <3>2 DEF Edit, TreeAtPc
    <3>3. CASE Commit(b)
      BY <3>0, <3>3 DEF Commit, TreeAtPc
    <3>4. CASE StartWork(b)
      BY <3>0, <3>4 DEF StartWork, MoveTo, TreeAtPc
    <3>5. CASE CreateFails(b)
      <4>1. at'[b] = "done"
        BY <3>5, ReleaseMoves DEF CreateFails, Settle, HoldingPc
      <4> QED
        BY <3>0, <3>5, <4>1 DEF CreateFails, TreeAtPc
    <3>6. CASE TurnReturns(b)
      <4>1. CASE b \in Coder
        BY <3>0, <3>6, <4>1 DEF TurnReturns, MoveTo, TreeAtPc
      <4>2. CASE b \notin Coder
        <5>1. at'[b] = "done"
          BY <3>6, <4>2, ReleaseMoves DEF TurnReturns, Settle, HoldingPc
        <5> QED
          BY <3>0, <3>6, <4>2, <5>1 DEF TurnReturns, TreeAtPc
      <4> QED
        BY <4>1, <4>2
    <3>7. CASE TurnThrows(b)
      <4>1. CASE b \in Coder
        BY <3>0, <3>7, <4>1 DEF TurnThrows, MoveTo, TreeAtPc
      <4>2. CASE b \notin Coder
        <5>1. at'[b] = "done"
          BY <3>7, <4>2, ReleaseMoves DEF TurnThrows, Settle, HoldingPc
        <5> QED
          BY <3>0, <3>7, <4>2, <5>1 DEF TurnThrows, TreeAtPc
      <4> QED
        BY <4>1, <4>2
    <3>8. CASE CheckStatus(b)
      BY <3>0, <3>8 DEF CheckStatus, StatusIsEmpty, MoveTo, TreeAtPc
    <3>9. CASE CaptureDiff(b)
      <4>1. at'[b] = "done" /\ reported'[b] = "diff"
        BY <3>9, ReleaseMoves DEF CaptureDiff, Settle, HoldingPc
      <4> QED
        BY <3>0, <3>9, <4>1 DEF CaptureDiff, TreeAtPc
    <3>10. CASE Discard(b)
      <4>1. at'[b] = "done" /\ tree'[b] = "removed"
        BY <3>10, ReleaseMoves DEF Discard, Settle, HoldingPc
      <4> QED
        BY <3>0, <3>10, <4>1 DEF Discard, TreeAtPc
    <3>11. CASE Ask(b) \/ PromptAnswered(b)
      BY <3>0, <3>11 DEF Ask, PromptAnswered, MoveTo, TreeAtPc
    <3> QED
      BY <1>2, <3>1, <3>2, <3>3, <3>4, <3>5, <3>6, <3>7, <3>8, <3>9, <3>10, <3>11
         DEF Begin, EndTurn, Wrap
  <2> QED
    BY <2>1, <2>2
<1> QED
  BY <1>1, <1>2 DEF PoolNext

LEMMA TreeInvHolds ==
  PoolSpec => []TreeInv
<1>1. PoolInit => \A a \in GitWorks : TreeAtPc(a)
  BY DEF PoolInit, TreeAtPc, GitWorks, WorkReported
<1>2. PoolInit => TreeInv
  BY <1>1, SemInvInit DEF TreeInv, TreeType, Tree, PoolInit
<1>3. PoolTypeOK => TreeType
  BY DEF PoolTypeOK, TreeType
<1>4. TreeInv /\ [PoolNext]_poolVars /\ SemInv' /\ PoolTypeOK' => TreeInv'
  <2>1. PoolTypeOK' => TreeType'
    BY DEF PoolTypeOK, TreeType
  <2> QED
    BY <2>1, TreeInvStep DEF TreeInv
<1> QED
  BY <1>2, <1>4, SemInvHolds, TypeCorrect, PTL DEF PoolSpec

(* Where git works, a worktree that outlives its sub-agent is one the       *)
(* result points at.                                                        *)
THEOREM NoTreeIsOrphan ==
  PoolSpec => []NoOrphanTree
<1>1. TreeInv => NoOrphanTree
  BY DEF TreeInv, TreeAtPc, NoOrphanTree, GitWorks
<1> QED
  BY <1>1, TreeInvHolds, PTL

(* Where git works and the agent does not commit, work of a turn that       *)
(* returned is reported.                                                    *)
THEOREM NoWorkIsDropped ==
  PoolSpec => []NoWorkDropped
<1>1. TreeInv => NoWorkDropped
  BY DEF TreeInv, TreeAtPc, NoWorkDropped, GitWorks
<1> QED
  BY <1>1, TreeInvHolds, PTL

(* Where git works, a worktree that stays and the work of a coder that does *)
(* not commit are in the result (worktree.ts:45-70).                        *)
THEOREM WorkIsAlwaysFound == PoolSpec => []WorkIsFound
BY NoTreeIsOrphan, NoWorkIsDropped, PTL DEF WorkIsFound
=============================================================================
