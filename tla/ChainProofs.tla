---------------------------- MODULE ChainProofs ----------------------------
(***************************************************************************)
(* The safety of Chain, for any number of proposers and syncers, any chain *)
(* length and any number of crashes and failed executions.                 *)
(*                                                                         *)
(* The inductive invariant Inv adds to the properties of Chain what the    *)
(* threads hold between their steps: who holds the commit lock, that a     *)
(* block past its commit is the block the chain holds, that the executor   *)
(* works on a committed block whose parent is executed, how a half-read    *)
(* snapshot relates to the database, and who will refresh current_state.   *)
(*                                                                         *)
(* The chain also implements the abstract ledger. The payload state of the *)
(* ledger is that of the highest executed block; that there is one, and    *)
(* that a step moves it by at most one block, is an invariant of its own   *)
(* (HasTop), proved on top of Inv.                                         *)
(***************************************************************************)
EXTENDS ChainLedger, TLAPS

(* Where a committer holds the commit lock. *)
Locked == {"readConfirmed", "readExecuted", "writeCurrent", "notify"}

(* Committers and the executor are at labels of their own. *)
LabelsInv ==
  /\ \A c \in Committers : pc[c] # "process"
  /\ pc[Executor] \in Locked \cup {"idle", "process"}

(* The lock is held by the one thread that is between its write and the    *)
(* end of commit_block.                                                    *)
LockInv ==
  /\ \A c \in Committers : pc[c] \in Locked <=> lock = {c}
  /\ lock = {} \/ \E c \in Committers : lock = {c}

IsCommitted(b) == b.number \in 1 .. confirmed /\ blocks[b.number] = b

(* A block past its commit is on the chain, and the newest while the lock  *)
(* is held.                                                                *)
JobInv ==
  \A c \in Committers :
    /\ pc[c] \in Locked \cup {"insert"} => IsCommitted(job[c])
    /\ pc[c] \in Locked => job[c].number = confirmed

QueueInv == \A i \in 1 .. Len(queue) : IsCommitted(queue[i])

(* Every execution is of a committed block. *)
ExecutionsInv ==
  \A h \in DOMAIN executions :
    h.number \in 0 .. confirmed /\ HashOf(blocks[h.number]) = h

(* The executor is at a committed block whose parent is executed. *)
ExecutorInv ==
  pc[Executor] # "idle" =>
    /\ IsCommitted(task)
    /\ next \in 1 .. task.number
    /\ IsExecuted(next - 1)
    /\ pc[Executor] # "process" => IsExecuted(next)

(* What update_current_state has read is in order when it is written. *)
SnapInv ==
  /\ \A c \in Committers : pc[c] = "readExecuted" => snap[c].confirmed = confirmed
  /\ pc[Executor] = "readExecuted" =>
       executed <= snap[Executor].confirmed /\ snap[Executor].confirmed <= confirmed
  /\ \A t \in Threads : pc[t] = "writeCurrent" =>
       /\ snap[t].executed <= snap[t].confirmed
       /\ snap[t].confirmed <= confirmed
       /\ IsExecuted(snap[t].executed)

IsFresh == current.confirmed = confirmed /\ current.executed = executed

(* The executor's next write of current_state is fresh, or current_state   *)
(* is fresh and the executor will not write it.                            *)
ExecutorFresh ==
  /\ pc[Executor] = "readExecuted" => snap[Executor].confirmed = confirmed
  /\ pc[Executor] = "writeCurrent" =>
       snap[Executor].confirmed = confirmed /\ snap[Executor].executed = executed
  /\ pc[Executor] = "notify" => IsFresh \/ next < task.number
  /\ pc[Executor] = "idle" => IsFresh

(* Somebody will refresh current_state, or it is fresh: a committer whose  *)
(* task is still to be inserted, a waiting task, or the executor.          *)
FreshInv ==
  failures = 0 =>
    (\E c \in Committers : Busy(c)) \/ queue # << >> \/ ExecutorFresh

(* While the newest block is being committed, nobody else knows of it. *)
NewestInv ==
  lock # {} =>
    /\ \A c \in Committers : pc[c] = "insert" => job[c].number < confirmed
    /\ \A i \in 1 .. Len(queue) : queue[i].number < confirmed
    /\ pc[Executor] # "idle" => task.number < confirmed
    /\ \A i \in 1 .. Len(outbox) : outbox[i].number < confirmed

OutboxInv == \A i \in 1 .. Len(outbox) : outbox[i].number <= confirmed

(* What the database holds. *)
DbInv ==
  /\ ChainLinked
  /\ ExecutedContiguous
  /\ ExecutionsInv
  /\ ExecutionIsChainPrefix

(* Where the threads are. *)
ThreadsInv ==
  /\ LabelsInv
  /\ LockInv
  /\ JobInv
  /\ QueueInv
  /\ ExecutorInv

(* What is sent on message_tx. *)
MessagesInv ==
  /\ MessagesOrdered
  /\ NewestInv
  /\ OutboxInv

Inv ==
  /\ TypeOK
  /\ DbInv
  /\ ThreadsInv
  /\ SnapshotOrdered
  /\ SnapInv
  /\ FreshInv
  /\ MessagesInv

-----------------------------------------------------------------------------
(* Lemmas on the operators of Chain. *)

(* The hash of a block is a hash, and tells the block's number. *)
LEMMA HashFacts ==
  ASSUME NEW b \in Blocks
  PROVE  HashOf(b) \in Hashes /\ HashOf(b).number = b.number
BY DEF Blocks, Hashes, HashOf

(* The genesis block is a block. *)
LEMMA GenesisFacts == Genesis \in Blocks /\ Genesis.number = 0
BY ConstantsAssumption DEF Genesis, Blocks

(* A cast to ExecutionGap yields an integer. *)
LEMMA AsGapType ==
  ASSUME NEW n \in Int
  PROVE  AsGap(n) \in Int
<1>1. GapModulus \in Nat /\ GapModulus > 0
  BY ConstantsAssumption
<1>2. (n + GapModulus \div 2) % GapModulus \in Int
  BY <1>1
<1> QED
  BY <1>1, <1>2 DEF AsGap

(* A block built on a block of the chain is a block. *)
LEMMA BuildBlockType ==
  ASSUME TypeOK, NEW number \in Nat, number - 1 \in 0 .. confirmed,
         NEW gap \in Int, NEW content \in Contents
  PROVE  BuildBlock(number, gap, content) \in Blocks
<1>1. blocks[number - 1] \in Blocks
  BY DEF TypeOK
<1>2. HashOf(blocks[number - 1]) \in Hashes
  BY <1>1, HashFacts
<1> QED
  BY <1>2 DEF BuildBlock, Blocks

(* CommitBlock extends the chain by the committer's block. *)
LEMMA CommitFacts ==
  ASSUME TypeOK, NEW c \in Committers, CommitBlock(c)
  PROVE  /\ job[c] \in Blocks
         /\ job[c].number = confirmed + 1
         /\ job[c].parent = HashOf(blocks[confirmed])
         /\ confirmed' = confirmed + 1
         /\ DOMAIN blocks = 0 .. confirmed
         /\ DOMAIN blocks' = 0 .. confirmed + 1
         /\ blocks' \in [0 .. confirmed + 1 -> Blocks]
         /\ blocks'[confirmed + 1] = job[c]
         /\ \A n \in 0 .. confirmed : blocks'[n] = blocks[n]
<1>1. /\ job[c] \in Blocks
      /\ job[c].number = confirmed + 1
      /\ job[c].parent = HashOf(blocks[confirmed])
      /\ confirmed' = confirmed + 1
      /\ confirmed \in Nat
      /\ blocks \in [0 .. confirmed -> Blocks]
  BY DEF TypeOK, CommitBlock, IsBest, NumberWritten
<1>2. blocks' = [n \in 0 .. confirmed + 1 |-> IF n = confirmed + 1 THEN job[c] ELSE blocks[n]]
  <2>1. DOMAIN blocks \cup {job[c].number} = 0 .. confirmed + 1
    BY <1>1
  <2>2. blocks' = PutBlock(job[c])
    BY DEF CommitBlock
  <2> QED
    BY <1>1, <2>1, <2>2 DEF PutBlock
<1> QED
  BY <1>1, <1>2

(* Only a commit and an execution write the database. *)
LEMMA DbChanges ==
  ASSUME Next
  PROVE  UNCHANGED db \/ (\E c \in Committers : CommitBlock(c)) \/ ProcessNumber
BY DEF Next, CommitterStep, ExecutorStep, UpdateCurrentState, PrepareBlock, VerifyBest,
       VerifyExecution, CommitRefused, ReadConfirmed, ReadExecuted, WriteCurrent,
       NotifyBlockCommitted, InsertTask, CommitError, TakeTask, ProcessError,
       NotifyExecutionCommitted, Crash, db

(* The committer and the executor are different threads. *)
LEMMA ThreadFacts ==
  /\ Executor \in Threads
  /\ Committers \subseteq Threads
  /\ \A c \in Committers : c # Executor
BY ConstantsAssumption DEF Threads

(* The executor works on the block the chain holds at its number. *)
LEMMA CurrentTaskFacts ==
  ASSUME Inv, pc[Executor] = "process"
  PROVE  /\ next \in 1 .. confirmed
         /\ CurrentTask = blocks[next]
         /\ CurrentTask \in Blocks
         /\ CurrentTask.number = next
         /\ CurrentTask.parent = HashOf(blocks[next - 1])
         /\ IsExecuted(next - 1)
<1>1. TypeOK /\ ChainLinked /\ ExecutorInv
  BY DEF Inv, DbInv, ThreadsInv
<1>2. /\ task.number \in 1 .. confirmed /\ blocks[task.number] = task
      /\ next \in 1 .. task.number /\ IsExecuted(next - 1)
  BY <1>1 DEF ExecutorInv, IsCommitted
<1>3. next \in 1 .. confirmed /\ next \in DOMAIN blocks \ {0} /\ blocks[next] \in Blocks
  BY <1>1, <1>2 DEF TypeOK
<1>4. CurrentTask = blocks[next]
  BY <1>2 DEF CurrentTask
<1> QED
  BY <1>1, <1>2, <1>3, <1>4 DEF ChainLinked

-----------------------------------------------------------------------------
(* The initial state satisfies the invariant. *)
LEMMA InitInv == Init => Inv
<1> SUFFICES ASSUME Init PROVE Inv
  OBVIOUS
<1>1. TypeOK
  BY GenesisFacts, HashFacts, ThreadFacts
  DEF Init, TypeOK, GenesisRoot, Snapshots, Messages, Labels
<1>2. DbInv
  <2>1. IsExecuted(0) /\ confirmed = 0 /\ DOMAIN blocks = {0} /\ blocks[0] = Genesis
        /\ executions[HashOf(Genesis)] = << >> /\ DOMAIN executions = {HashOf(Genesis)}
    BY DEF Init, IsExecuted, GenesisRoot
  <2>2. ChainLinked
    BY <2>1 DEF ChainLinked
  <2>3. ExecutedContiguous
    BY <2>1 DEF ExecutedContiguous, Init
  <2>4. ExecutionsInv
    BY <2>1, GenesisFacts, HashFacts DEF ExecutionsInv
  <2>5. ExecutionIsChainPrefix
    BY <2>1 DEF ExecutionIsChainPrefix
  <2> QED
    BY <2>2, <2>3, <2>4, <2>5 DEF DbInv
<1>3. ThreadsInv
  BY ThreadFacts
  DEF Init, ThreadsInv, LabelsInv, LockInv, JobInv, QueueInv, ExecutorInv, Locked
<1>4. SnapshotOrdered /\ SnapInv /\ FreshInv
  BY ThreadFacts
  DEF Init, SnapshotOrdered, SnapInv, FreshInv, ExecutorFresh, IsFresh, IsExecuted
<1>5. MessagesInv
  BY DEF Init, MessagesInv, MessagesOrdered, NewestInv, OutboxInv
<1> QED
  BY <1>1, <1>2, <1>3, <1>4, <1>5 DEF Inv

-----------------------------------------------------------------------------
(* Every step keeps the types. *)
LEMMA TypeStep ==
  ASSUME Inv, Next
  PROVE  TypeOK'
<1> USE ThreadFacts, GenesisFacts
<1>0. TypeOK /\ SnapshotOrdered
  BY DEF Inv
<1>1. ASSUME NEW c \in Proposers, PrepareBlock(c) PROVE TypeOK'
  <2>1. current.confirmed + 1 \in Nat /\ current.confirmed \in 0 .. confirmed
    BY <1>0 DEF TypeOK, SnapshotOrdered, Snapshots
  <2>2. AsGap((current.confirmed + 1) - current.executed) \in Int
    BY <1>0, <2>1, AsGapType DEF TypeOK, Snapshots
  <2>3. PICK content \in Contents :
          job' = [job EXCEPT ![c] =
                   BuildBlock(current.confirmed + 1,
                              AsGap((current.confirmed + 1) - current.executed), content)]
    BY <1>1 DEF PrepareBlock
  <2>4. BuildBlock(current.confirmed + 1,
                   AsGap((current.confirmed + 1) - current.executed), content) \in Blocks
    BY <1>0, <2>1, <2>2, BuildBlockType
  <2>5. job' \in [Committers -> Blocks]
    BY <1>0, <2>3, <2>4 DEF TypeOK
  <2> QED
    BY <1>0, <1>1, <2>5 DEF PrepareBlock, TypeOK, Goto, Labels, db, executorVars, Threads, Committers
<1>2. ASSUME NEW c \in Syncers, VerifyBest(c) PROVE TypeOK'
  <2>1. current.confirmed + 1 \in Nat /\ current.confirmed \in 0 .. confirmed
    BY <1>0 DEF TypeOK, SnapshotOrdered, Snapshots
  <2>2. PICK content \in Contents, gap \in 0 .. MaxExecutionGap + 1 :
          job' = [job EXCEPT ![c] = BuildBlock(current.confirmed + 1, gap, content)]
    BY <1>2 DEF VerifyBest
  <2>3. BuildBlock(current.confirmed + 1, gap, content) \in Blocks
    BY <1>0, <2>1, BuildBlockType, ConstantsAssumption
  <2>4. job' \in [Committers -> Blocks]
    BY <1>0, <2>2, <2>3 DEF TypeOK
  <2> QED
    BY <1>0, <1>2, <2>4 DEF VerifyBest, TypeOK, Goto, Labels, db, executorVars, Threads, Committers
<1>3. ASSUME NEW c \in Syncers, VerifyExecution(c) PROVE TypeOK'
  <2>1. pc' \in [Threads -> Labels]
    BY <1>0, <1>3 DEF VerifyExecution, TypeOK, Goto, Labels
  <2>2. job' \in [Committers -> Blocks]
    BY <1>0, <1>3 DEF VerifyExecution, TypeOK
  <2> QED
    BY <1>0, <1>3, <2>1, <2>2 DEF VerifyExecution, TypeOK, db, executorVars
<1>4. ASSUME NEW c \in Committers, CommitBlock(c) PROVE TypeOK'
  <2>1. confirmed' \in Nat /\ blocks' \in [0 .. confirmed' -> Blocks]
    BY <1>0, <1>4, CommitFacts DEF TypeOK
  <2> QED
    BY <1>0, <1>4, <2>1 DEF CommitBlock, TypeOK, Goto, Labels, executorVars, HeldToTheEnd
<1>5. ASSUME NEW c \in Committers, CommitRefused(c) PROVE TypeOK'
  BY <1>0, <1>5 DEF CommitRefused, TypeOK, Goto, Labels, db, executorVars
<1>5e. ASSUME NEW c \in Committers, CommitError(c) PROVE TypeOK'
  BY <1>0, <1>5e DEF CommitError, TypeOK, Goto, Labels, db, executorVars
<1>6. ASSUME NEW t \in Threads, UpdateCurrentState(t) PROVE TypeOK'
  <2>0. /\ snap[t] \in Snapshots
        /\ [confirmed |-> confirmed, executed |-> 0] \in Snapshots
        /\ [confirmed |-> snap[t].confirmed, executed |-> executed] \in Snapshots
    BY <1>0, <1>6 DEF TypeOK, Snapshots
  <2>1. CASE ReadConfirmed(t)
    BY <1>0, <1>6, <2>0, <2>1 DEF ReadConfirmed, TypeOK, Goto, Labels, db, executorVars
  <2>2. CASE ReadExecuted(t)
    BY <1>0, <1>6, <2>0, <2>2 DEF ReadExecuted, TypeOK, Goto, Labels, db, executorVars
  <2>3. CASE WriteCurrent(t)
    BY <1>0, <1>6, <2>0, <2>3 DEF WriteCurrent, TypeOK, Goto, Labels, db, executorVars
  <2> QED
    BY <1>6, <2>1, <2>2, <2>3 DEF UpdateCurrentState
<1>7. ASSUME NEW c \in Committers, NotifyBlockCommitted(c) PROVE TypeOK'
  <2>1. [kind |-> "BlockCommitted", number |-> job[c].number] \in Messages
    BY <1>0, <1>7 DEF TypeOK, Blocks, Messages
  <2> QED
    BY <1>0, <1>7, <2>1 DEF NotifyBlockCommitted, TypeOK, Goto, Labels, db, executorVars
<1>8. ASSUME NEW c \in Committers, InsertTask(c) PROVE TypeOK'
  BY <1>0, <1>8 DEF InsertTask, Enqueue, TypeOK, Goto, Labels, db, executorVars
<1>9. ASSUME TakeTask PROVE TypeOK'
  <2>1. Head(queue) \in Blocks /\ Tail(queue) \in Seq(Blocks)
    BY <1>0, <1>9 DEF TakeTask, TypeOK
  <2>2. FirstNumber(Head(queue)) \in Nat
    <3>1. Head(queue).number \in Nat /\ executed \in Nat
      BY <1>0, <2>1 DEF TypeOK, Blocks
    <3> QED
      BY <3>1 DEF FirstNumber
  <2> QED
    BY <1>0, <1>9, <2>1, <2>2 DEF TakeTask, TypeOK, Goto, Labels, db
<1>10. ASSUME ProcessNumber PROVE TypeOK'
  <2>1. CurrentTask \in Blocks /\ CurrentTask.parent \in DOMAIN executions
    BY <1>10, CurrentTaskFacts DEF ProcessNumber
  <2>2. /\ HashOf(CurrentTask) \in Hashes
        /\ ApplyPayload(ParentRoot(CurrentTask), CurrentTask) \in Seq(Hashes)
    BY <1>0, <2>1, HashFacts DEF ApplyPayload, ParentRoot, TypeOK
  <2>3. /\ DOMAIN executions' = DOMAIN executions \cup {HashOf(CurrentTask)}
        /\ executions' \in [DOMAIN executions' -> Seq(Hashes)]
        /\ DOMAIN executions' \subseteq Hashes
    BY <1>0, <1>10, <2>2 DEF ProcessNumber, TypeOK
  <2> QED
    BY <1>0, <1>10, <2>3
    DEF ProcessNumber, TypeOK, NumberExecuted, AfterExecution, Goto, Labels, executorVars
<1>11. ASSUME ProcessError PROVE TypeOK'
  BY <1>0, <1>11 DEF ProcessError, TypeOK, Goto, Labels, db, executorVars
<1>12. ASSUME NotifyExecutionCommitted PROVE TypeOK'
  <2>1. [kind |-> "ExecutionCommitted", number |-> next] \in Messages
    BY <1>0 DEF TypeOK, Messages
  <2>2. next' \in Nat /\ pc' \in [Threads -> Labels]
    <3>1. CASE next < task.number
      BY <1>0, <1>12, <3>1 DEF NotifyExecutionCommitted, TypeOK, Goto, Labels
    <3>2. CASE ~ (next < task.number)
      BY <1>0, <1>12, <3>2 DEF NotifyExecutionCommitted, TypeOK, Goto, Labels
    <3> QED
      BY <3>1, <3>2
  <2> QED
    BY <1>0, <1>12, <2>1, <2>2 DEF NotifyExecutionCommitted, TypeOK, db
<1>13. ASSUME Crash PROVE TypeOK'
  BY <1>0, <1>13 DEF Crash, TypeOK, Labels, Snapshots, Messages, db
<1> QED
  BY <1>1, <1>2, <1>3, <1>4, <1>5, <1>6, <1>7, <1>8, <1>9, <1>10, <1>11, <1>12, <1>13, <1>5e
  DEF Next, CommitterStep, ExecutorStep

-----------------------------------------------------------------------------
(* A committed block stays where it is, an executed block stays executed. *)
LEMMA DbGrows ==
  ASSUME Inv, Next
  PROVE  /\ confirmed <= confirmed'
         /\ \A n \in 0 .. confirmed : blocks'[n] = blocks[n]
         /\ \A n \in Nat : IsExecuted(n) => IsExecuted(n)'
         /\ \A b \in Blocks : IsCommitted(b) => IsCommitted(b)'
<1>0. TypeOK
  BY DEF Inv
<1>1. CASE UNCHANGED db
  BY <1>0, <1>1 DEF db, IsExecuted, IsCommitted, TypeOK
<1>2. ASSUME NEW c \in Committers, CommitBlock(c)
      PROVE  /\ confirmed <= confirmed'
             /\ \A n \in 0 .. confirmed : blocks'[n] = blocks[n]
             /\ \A n \in Nat : IsExecuted(n) => IsExecuted(n)'
             /\ \A b \in Blocks : IsCommitted(b) => IsCommitted(b)'
  <2>1. executions' = executions
    BY <1>2 DEF CommitBlock
  <2>2. confirmed <= confirmed' /\ \A n \in 0 .. confirmed : blocks'[n] = blocks[n]
    BY <1>0, <1>2, CommitFacts DEF TypeOK
  <2>3. ASSUME NEW n \in Nat, IsExecuted(n) PROVE IsExecuted(n)'
    BY <1>0, <1>2, <2>1, <2>3, CommitFacts DEF IsExecuted, HashOf, TypeOK
  <2>4. ASSUME NEW b \in Blocks, IsCommitted(b) PROVE IsCommitted(b)'
    BY <1>0, <1>2, <2>4, CommitFacts DEF IsCommitted, TypeOK
  <2> QED
    BY <2>2, <2>3, <2>4
<1>3. CASE ProcessNumber
  <2>1. UNCHANGED <<confirmed, blocks>> /\ DOMAIN executions \subseteq DOMAIN executions'
    BY <1>3 DEF ProcessNumber
  <2> QED
    BY <1>0, <2>1 DEF IsExecuted, IsCommitted, TypeOK
<1> QED
  BY <1>1, <1>2, <1>3, DbChanges

(* Every step keeps the database consistent: the chain is linked and its   *)
(* executed blocks are a prefix of it, with the state of that prefix.      *)
LEMMA DbStep ==
  ASSUME Inv, Next
  PROVE  DbInv'
<1>0. TypeOK /\ ChainLinked /\ ExecutedContiguous /\ ExecutionsInv /\ ExecutionIsChainPrefix
  BY DEF Inv, DbInv
<1>1. CASE UNCHANGED db
  <2>1. UNCHANGED <<confirmed, blocks, executed, executions>>
    BY <1>1 DEF db
  <2>2. \A n : IsExecuted(n)' <=> IsExecuted(n)
    BY <2>1 DEF IsExecuted, HashOf
  <2>3. ChainLinked'
    BY <1>0, <2>1 DEF ChainLinked, HashOf
  <2>4. ExecutedContiguous'
    BY <1>0, <2>1, <2>2 DEF ExecutedContiguous
  <2>5. ExecutionsInv'
    BY <1>0, <2>1 DEF ExecutionsInv, HashOf
  <2>6. ExecutionIsChainPrefix'
    BY <1>0, <2>1, <2>2 DEF ExecutionIsChainPrefix, HashOf
  <2> QED
    BY <2>3, <2>4, <2>5, <2>6 DEF DbInv
<1>2. ASSUME NEW c \in Committers, CommitBlock(c) PROVE DbInv'
  <2> DEFINE b == job[c]
  <2>0. UNCHANGED <<executed, executions>> /\ confirmed \in Nat
    BY <1>0, <1>2 DEF CommitBlock, TypeOK
  <2>f. /\ b \in Blocks
        /\ b.number = confirmed + 1
        /\ b.parent = HashOf(blocks[confirmed])
        /\ confirmed' = confirmed + 1
        /\ DOMAIN blocks = 0 .. confirmed
        /\ DOMAIN blocks' = 0 .. confirmed + 1
        /\ blocks'[confirmed + 1] = b
        /\ \A n \in 0 .. confirmed : blocks'[n] = blocks[n]
    BY <1>0, <1>2, CommitFacts
  <2> HIDE DEF b
  <2>1. ChainLinked'
    <3>1. blocks'[0] = Genesis
      BY <1>0, <2>0, <2>f DEF ChainLinked
    <3>2. ASSUME NEW n \in 1 .. confirmed + 1
          PROVE  blocks'[n].number = n /\ blocks'[n].parent = HashOf(blocks'[n - 1])
      <4>1. CASE n = confirmed + 1
        BY <2>0, <2>f, <4>1
      <4>2. CASE n # confirmed + 1
        BY <1>0, <2>0, <2>f, <4>2 DEF ChainLinked
      <4> QED
        BY <4>1, <4>2
    <3> QED
      BY <2>0, <2>f, <3>1, <3>2 DEF ChainLinked, HashOf
  <2>2. HashOf(b) \notin DOMAIN executions
    <3>1. HashOf(b).number = confirmed + 1
      BY <2>f, HashFacts
    <3> QED
      BY <1>0, <2>0, <3>1 DEF ExecutionsInv
  <2>3. \A n \in 0 .. confirmed + 1 : IsExecuted(n)' <=> n \in 0 .. confirmed /\ IsExecuted(n)
    BY <2>0, <2>f, <2>2 DEF IsExecuted, HashOf
  <2>4. ExecutedContiguous'
    <3>1. executed \in 0 .. confirmed /\ IsExecuted(executed)'
      BY <1>0, <2>0, <2>f DEF ExecutedContiguous, IsExecuted, HashOf, TypeOK
    <3> QED
      BY <1>0, <2>0, <2>f, <2>3, <3>1 DEF ExecutedContiguous
  <2>5. ExecutionsInv'
    BY <1>0, <2>0, <2>f DEF ExecutionsInv, HashOf, TypeOK
  <2>6. ExecutionIsChainPrefix'
    <3>1. ASSUME NEW n \in 0 .. confirmed + 1, IsExecuted(n)'
          PROVE  executions[HashOf(blocks'[n])] = [i \in 1 .. n |-> HashOf(blocks'[i])]
      <4>1. n \in 0 .. confirmed /\ IsExecuted(n)
        BY <2>3, <3>1
      <4>2. executions[HashOf(blocks[n])] = [i \in 1 .. n |-> HashOf(blocks[i])]
        BY <1>0, <4>1 DEF ExecutionIsChainPrefix
      <4>3. blocks'[n] = blocks[n] /\ \A i \in 1 .. n : blocks'[i] = blocks[i]
        BY <2>0, <2>f, <4>1
      <4> QED
        BY <4>2, <4>3
    <3> QED
      BY <2>0, <2>f, <3>1 DEF ExecutionIsChainPrefix, HashOf
  <2> QED
    BY <2>1, <2>4, <2>5, <2>6 DEF DbInv
<1>3. CASE ProcessNumber
  <2>0. UNCHANGED <<confirmed, blocks>> /\ executed' = next
    BY <1>3 DEF ProcessNumber, NumberExecuted
  <2>1. /\ next \in 1 .. confirmed
        /\ CurrentTask = blocks[next]
        /\ CurrentTask.parent = HashOf(blocks[next - 1])
        /\ IsExecuted(next - 1)
    BY <1>3, CurrentTaskFacts DEF ProcessNumber
  <2>2. executions' = [h \in DOMAIN executions \cup {HashOf(blocks[next])} |->
                         IF h = HashOf(blocks[next])
                           THEN ApplyPayload(ParentRoot(blocks[next]), blocks[next])
                           ELSE executions[h]]
    BY <1>3, <2>1 DEF ProcessNumber
  <2>3. \A n \in 0 .. confirmed :
          blocks[n] \in Blocks /\ blocks[n].number = n /\ HashOf(blocks[n]).number = n
    BY <1>0, HashFacts, GenesisFacts DEF ChainLinked, TypeOK
  <2>4. \A n \in 0 .. confirmed : IsExecuted(n)' <=> IsExecuted(n) \/ n = next
    <3>1. DOMAIN executions' = DOMAIN executions \cup {HashOf(blocks[next])}
      BY <2>2
    <3>2. DOMAIN blocks = 0 .. confirmed
      BY <1>0 DEF TypeOK
    <3> SUFFICES ASSUME NEW n \in 0 .. confirmed
                 PROVE  IsExecuted(n)' <=> IsExecuted(n) \/ n = next
      OBVIOUS
    <3>3. IsExecuted(n)' <=> HashOf(blocks[n]) \in DOMAIN executions'
      BY <2>0, <3>2 DEF IsExecuted, HashOf
    <3>4. IsExecuted(n) <=> HashOf(blocks[n]) \in DOMAIN executions
      BY <3>2 DEF IsExecuted
    <3>5. HashOf(blocks[n]) = HashOf(blocks[next]) <=> n = next
      BY <2>1, <2>3
    <3> QED
      BY <3>1, <3>3, <3>4, <3>5
  <2>5. ChainLinked'
    BY <1>0, <2>0 DEF ChainLinked, HashOf
  <2>6. ExecutedContiguous'
    <3>1. IsExecuted(executed)'
      BY <1>0, <2>0, <2>1, <2>2 DEF IsExecuted, TypeOK
    <3>2. ASSUME NEW n \in 0 .. confirmed, IsExecuted(n)', NEW m \in 0 .. n
          PROVE  IsExecuted(m)'
      <4>1. confirmed \in Nat /\ m \in 0 .. confirmed /\ next - 1 \in 0 .. confirmed
        BY <1>0, <2>1 DEF TypeOK
      <4>2. \A k \in 0 .. confirmed : IsExecuted(k) => \A l \in 0 .. k : IsExecuted(l)
        BY <1>0 DEF ExecutedContiguous
      <4>3. CASE IsExecuted(n)
        BY <2>4, <4>1, <4>2, <4>3
      <4>4. CASE n = next
        <5>1. m = next \/ m \in 0 .. next - 1
          BY <2>1, <4>1, <4>4
        <5>2. m \in 0 .. next - 1 => IsExecuted(m)
          BY <2>1, <4>1, <4>2
        <5> QED
          BY <2>4, <4>1, <5>1, <5>2
      <4> QED
        BY <2>4, <3>2, <4>3, <4>4
    <3> QED
      BY <1>0, <2>0, <2>1, <3>1, <3>2 DEF ExecutedContiguous, TypeOK
  <2>7. ExecutionsInv'
    BY <1>0, <2>0, <2>1, <2>2, <2>3 DEF ExecutionsInv, HashOf
  <2>8. ExecutionIsChainPrefix'
    <3>1. ASSUME NEW n \in 0 .. confirmed, n # next, IsExecuted(n)
          PROVE  executions'[HashOf(blocks[n])] = [i \in 1 .. n |-> HashOf(blocks[i])]
      BY <1>0, <2>1, <2>2, <2>3, <3>1 DEF ExecutionIsChainPrefix, IsExecuted
    <3>2. executions'[HashOf(blocks[next])] = [i \in 1 .. next |-> HashOf(blocks[i])]
      <4>1. executions'[HashOf(blocks[next])]
              = Append(executions[HashOf(blocks[next - 1])], HashOf(blocks[next]))
        BY <2>1, <2>2 DEF ApplyPayload, ParentRoot
      <4>2. executions[HashOf(blocks[next - 1])] = [i \in 1 .. next - 1 |-> HashOf(blocks[i])]
        BY <1>0, <2>1 DEF ExecutionIsChainPrefix, TypeOK
      <4>3. \A i \in 1 .. next : HashOf(blocks[i]) \in Hashes
        BY <2>1, <2>3, <1>0, HashFacts DEF TypeOK
      <4>4. Append([i \in 1 .. next - 1 |-> HashOf(blocks[i])], HashOf(blocks[next]))
              = [i \in 1 .. next |-> HashOf(blocks[i])]
        BY <2>1, <4>3, <1>0 DEF TypeOK
      <4> QED
        BY <4>1, <4>2, <4>4
    <3> QED
      BY <2>0, <2>4, <3>1, <3>2 DEF ExecutionIsChainPrefix
  <2> QED
    BY <2>5, <2>6, <2>7, <2>8 DEF DbInv
<1> QED
  BY <1>1, <1>2, <1>3, DbChanges

-----------------------------------------------------------------------------
(* Only the thread that holds the commit lock is between its write and the *)
(* end of commit_block.                                                    *)
LEMMA LockStep ==
  ASSUME Inv, Next
  PROVE  LabelsInv' /\ LockInv'
<1> USE ThreadFacts DEF LabelsInv, LockInv, Locked, Goto
<1>0. /\ LabelsInv /\ LockInv
      /\ pc \in [Threads -> Labels]
  BY DEF Inv, ThreadsInv, TypeOK
<1>1. ASSUME NEW c \in Proposers, PrepareBlock(c) PROVE LabelsInv' /\ LockInv'
  BY <1>0, <1>1 DEF PrepareBlock, Committers
<1>2. ASSUME NEW c \in Syncers, VerifyBest(c) \/ VerifyExecution(c)
      PROVE  LabelsInv' /\ LockInv'
  BY <1>0, <1>2 DEF VerifyBest, VerifyExecution, Committers
<1>3. ASSUME NEW c \in Committers, CommitBlock(c) PROVE LabelsInv' /\ LockInv'
  BY <1>0, <1>3 DEF CommitBlock, HeldToTheEnd
<1>4. ASSUME NEW c \in Committers, CommitRefused(c) \/ InsertTask(c)
      PROVE  LabelsInv' /\ LockInv'
  BY <1>0, <1>4 DEF CommitRefused, InsertTask
<1>5. ASSUME NEW t \in Threads, UpdateCurrentState(t) PROVE LabelsInv' /\ LockInv'
  BY <1>0, <1>5 DEF UpdateCurrentState, ReadConfirmed, ReadExecuted, WriteCurrent
<1>6. ASSUME NEW c \in Committers, NotifyBlockCommitted(c) \/ CommitError(c)
      PROVE  LabelsInv' /\ LockInv'
  BY <1>0, <1>6 DEF NotifyBlockCommitted, CommitError
<1>7. CASE TakeTask
  BY <1>0, <1>7 DEF TakeTask
<1>8. CASE ProcessNumber
  BY <1>0, <1>8 DEF ProcessNumber, AfterExecution
<1>9. CASE ProcessError
  BY <1>0, <1>9 DEF ProcessError
<1>10. CASE NotifyExecutionCommitted
  BY <1>0, <1>10 DEF NotifyExecutionCommitted
<1>11. CASE Crash
  BY <1>0, <1>11 DEF Crash
<1> QED
  BY <1>1, <1>2, <1>3, <1>4, <1>5, <1>6, <1>7, <1>8, <1>9, <1>10, <1>11
  DEF Next, CommitterStep, ExecutorStep

(* What a committer carries past its commit, and every task, is the block  *)
(* the chain holds at its number.                                          *)
LEMMA JobStep ==
  ASSUME Inv, Next
  PROVE  JobInv' /\ QueueInv'
<1> USE ThreadFacts DEF Locked, JobInv, QueueInv
<1>0. /\ TypeOK /\ LockInv /\ JobInv /\ QueueInv
      /\ confirmed \in Nat
      /\ job \in [Committers -> Blocks]
      /\ queue \in Seq(Blocks)
      /\ pc \in [Threads -> Labels]
  BY DEF Inv, ThreadsInv, TypeOK
<1>g. \A b \in Blocks : IsCommitted(b) => b.number \in 1 .. confirmed' /\ blocks'[b.number] = b
  BY DbGrows DEF IsCommitted
<1>1. ASSUME NEW c \in Committers, CommitBlock(c) PROVE JobInv' /\ QueueInv'
  <2>1. /\ job[c].number = confirmed + 1 /\ confirmed' = confirmed + 1
        /\ blocks'[confirmed + 1] = job[c]
    BY <1>0, <1>1, CommitFacts
  <2>2. lock = {} /\ UNCHANGED <<job, queue>> /\ pc' = [pc EXCEPT ![c] = "readConfirmed"]
    BY <1>1 DEF CommitBlock, Goto
  <2>3. ASSUME NEW d \in Committers, d # c, pc'[d] \in Locked \cup {"insert"}
        PROVE  IsCommitted(job[d]) /\ pc'[d] \notin Locked
    BY <1>0, <2>2, <2>3 DEF LockInv
  <2>4. JobInv'
    BY <1>0, <1>g, <2>1, <2>2, <2>3 DEF IsCommitted
  <2>5. QueueInv'
    BY <1>0, <1>g, <2>2 DEF IsCommitted
  <2> QED
    BY <2>4, <2>5
<1>2. ASSUME UNCHANGED <<confirmed, blocks>>, UNCHANGED <<job, queue>>,
             \A c \in Committers :
               pc'[c] = pc[c] \/ (pc[c] \in Locked /\ pc'[c] \in Locked \cup {"insert"})
      PROVE  JobInv' /\ QueueInv'
  BY <1>0, <1>2 DEF IsCommitted
<1>3. ASSUME NEW c \in Committers, UNCHANGED <<confirmed, blocks, queue>>,
             pc'[c] \in {"idle", "verify", "commit"},
             \A d \in Committers \ {c} : pc'[d] = pc[d] /\ job'[d] = job[d]
      PROVE  JobInv' /\ QueueInv'
  BY <1>0, <1>3 DEF IsCommitted
<1>4. ASSUME NEW c \in Proposers, PrepareBlock(c) PROVE JobInv' /\ QueueInv'
  BY <1>0, <1>3, <1>4 DEF PrepareBlock, Goto, db, Committers
<1>5. ASSUME NEW c \in Syncers, VerifyBest(c) \/ VerifyExecution(c) PROVE JobInv' /\ QueueInv'
  BY <1>0, <1>3, <1>5 DEF VerifyBest, VerifyExecution, Goto, db, Committers
<1>6. ASSUME NEW c \in Committers, CommitRefused(c) \/ CommitError(c)
      PROVE  JobInv' /\ QueueInv'
  BY <1>0, <1>3, <1>6 DEF CommitRefused, CommitError, Goto, db
<1>7. ASSUME NEW t \in Threads, UpdateCurrentState(t) PROVE JobInv' /\ QueueInv'
  BY <1>0, <1>2, <1>7 DEF UpdateCurrentState, ReadConfirmed, ReadExecuted, WriteCurrent, Goto, db
<1>8. ASSUME NEW c \in Committers, NotifyBlockCommitted(c) PROVE JobInv' /\ QueueInv'
  BY <1>0, <1>2, <1>8 DEF NotifyBlockCommitted, Goto, db
<1>9. ASSUME NEW c \in Committers, InsertTask(c) PROVE JobInv' /\ QueueInv'
  <2>1. IsCommitted(job[c]) /\ job[c] \in Blocks /\ queue' = Append(queue, job[c])
        /\ UNCHANGED <<confirmed, blocks>>
    BY <1>0, <1>9 DEF InsertTask, Enqueue, db
  <2>2. QueueInv'
    BY <1>0, <2>1 DEF IsCommitted
  <2>3. JobInv'
    BY <1>0, <1>9, <2>1 DEF InsertTask, Goto, IsCommitted
  <2> QED
    BY <2>2, <2>3
<1>10. CASE TakeTask
  <2>1. queue' = Tail(queue) /\ queue # << >> /\ UNCHANGED <<confirmed, blocks, job>>
        /\ pc' = [pc EXCEPT ![Executor] = "process"]
    BY <1>10 DEF TakeTask, Goto, db
  <2>2. QueueInv'
    BY <1>0, <2>1 DEF IsCommitted
  <2>3. JobInv'
    BY <1>0, <2>1 DEF IsCommitted
  <2> QED
    BY <2>2, <2>3
<1>11. CASE ProcessNumber
  BY <1>0, <1>2, <1>11 DEF ProcessNumber, Goto
<1>12. CASE ProcessError
  BY <1>0, <1>2, <1>12 DEF ProcessError, Goto, db
<1>13. CASE NotifyExecutionCommitted
  BY <1>0, <1>2, <1>13 DEF NotifyExecutionCommitted, Goto, db
<1>14. CASE Crash
  BY <1>0, <1>14 DEF Crash
<1> QED
  BY <1>1, <1>4, <1>5, <1>6, <1>7, <1>8, <1>9, <1>10, <1>11, <1>12, <1>13, <1>14
  DEF Next, CommitterStep, ExecutorStep

(* The executor stays at a committed block whose parent is executed. *)
LEMMA ExecutorStepInv ==
  ASSUME Inv, Next
  PROVE  ExecutorInv'
<1> USE ThreadFacts DEF ExecutorInv
<1>0. /\ TypeOK /\ ExecutorInv /\ QueueInv /\ ExecutedContiguous
      /\ confirmed \in Nat /\ executed \in Nat /\ next \in Nat
      /\ task \in Blocks /\ queue \in Seq(Blocks)
      /\ pc \in [Threads -> Labels]
  BY DEF Inv, DbInv, ThreadsInv, TypeOK
<1>g. /\ \A b \in Blocks : IsCommitted(b) => b.number \in 1 .. confirmed' /\ blocks'[b.number] = b
      /\ \A n \in Nat : IsExecuted(n) =>
           n \in DOMAIN blocks' /\ HashOf(blocks'[n]) \in DOMAIN executions'
  BY DbGrows DEF IsCommitted, IsExecuted, HashOf
<1>1. ASSUME UNCHANGED <<pc[Executor], task, next>> PROVE ExecutorInv'
  <2>1. CASE pc[Executor] = "idle"
    BY <1>1, <2>1
  <2>2. CASE pc[Executor] # "idle"
    <3>1. IsCommitted(task) /\ next \in 1 .. task.number /\ next - 1 \in Nat
          /\ IsExecuted(next - 1) /\ (pc[Executor] # "process" => IsExecuted(next))
      BY <1>0, <2>2 DEF IsCommitted
    <3> QED
      BY <1>0, <1>g, <1>1, <3>1 DEF IsCommitted, IsExecuted, HashOf
  <2> QED
    BY <2>1, <2>2
<1>2. CASE \E c \in Proposers : PrepareBlock(c)
  BY <1>0, <1>1, <1>2 DEF PrepareBlock, Goto, executorVars, Committers
<1>3. CASE \E c \in Syncers : VerifyBest(c) \/ VerifyExecution(c)
  BY <1>0, <1>1, <1>3 DEF VerifyBest, VerifyExecution, Goto, executorVars, Committers
<1>4. CASE \E c \in Committers : CommitterStep(c) \/ CommitError(c)
  BY <1>0, <1>1, <1>4
  DEF CommitterStep, CommitError, CommitBlock, CommitRefused, UpdateCurrentState, ReadConfirmed, ReadExecuted,
      WriteCurrent, NotifyBlockCommitted, InsertTask, Goto, executorVars
<1>5. CASE UpdateCurrentState(Executor)
  <2>1. UNCHANGED <<confirmed, blocks, executions, task, next>>
        /\ pc[Executor] \notin {"idle", "process"}
    BY <1>5 DEF UpdateCurrentState, ReadConfirmed, ReadExecuted, WriteCurrent, db, executorVars
  <2> QED
    BY <1>0, <2>1 DEF IsCommitted, IsExecuted, HashOf
<1>6. CASE TakeTask
  <2>1. /\ task' = Head(queue) /\ next' = FirstNumber(Head(queue)) /\ queue # << >>
        /\ UNCHANGED <<confirmed, blocks, executed, executions>>
        /\ pc'[Executor] = "process"
    BY <1>0, <1>6 DEF TakeTask, db, Goto
  <2>2. Head(queue) \in Blocks /\ IsCommitted(Head(queue))
    BY <1>0, <2>1 DEF QueueInv
  <2>3. /\ executed <= confirmed /\ IsExecuted(executed)
        /\ \A m \in 0 .. executed : IsExecuted(m)
    BY <1>0 DEF ExecutedContiguous
  <2>4. /\ next' \in 1 .. Head(queue).number
        /\ IsExecuted(next' - 1)
    <3>1. Head(queue).number \in 1 .. confirmed
      BY <2>2 DEF IsCommitted
    <3>2. CASE executed + 1 < Head(queue).number
      BY <1>0, <2>1, <2>3, <3>1, <3>2 DEF FirstNumber
    <3>3. CASE ~ (executed + 1 < Head(queue).number)
      BY <1>0, <2>1, <2>3, <3>1, <3>3 DEF FirstNumber
    <3> QED
      BY <3>2, <3>3
  <2> QED
    BY <2>1, <2>2, <2>4 DEF IsCommitted, IsExecuted, HashOf
<1>7. CASE ProcessNumber
  <2>1. /\ next \in 1 .. confirmed
        /\ CurrentTask = blocks[next]
        /\ IsExecuted(next - 1)
    BY <1>7, CurrentTaskFacts DEF ProcessNumber
  <2>2. /\ UNCHANGED <<confirmed, blocks, task, next>>
        /\ DOMAIN executions' = DOMAIN executions \cup {HashOf(blocks[next])}
    BY <1>7, <2>1 DEF ProcessNumber, executorVars
  <2>3. pc[Executor] # "idle" /\ IsCommitted(task) /\ next \in 1 .. task.number
    BY <1>0, <1>7 DEF ProcessNumber
  <2>4. DOMAIN blocks = 0 .. confirmed
    BY <1>0 DEF TypeOK
  <2> QED
    BY <1>0, <2>1, <2>2, <2>3, <2>4 DEF IsCommitted, IsExecuted, HashOf
<1>8. CASE ProcessError
  BY <1>0, <1>8 DEF ProcessError, Goto
<1>9. CASE NotifyExecutionCommitted
  <2>1. /\ UNCHANGED <<confirmed, blocks, executions, task>>
        /\ IsCommitted(task) /\ next \in 1 .. task.number
        /\ IsExecuted(next)
    BY <1>0, <1>9 DEF NotifyExecutionCommitted, db
  <2>2. CASE next < task.number
    <3>1. next' = next + 1 /\ pc'[Executor] = "process"
      BY <1>0, <1>9, <2>2 DEF NotifyExecutionCommitted, Goto
    <3>2. next' \in 1 .. task.number /\ next' - 1 = next
      BY <1>0, <2>1, <2>2, <3>1 DEF IsCommitted
    <3> QED
      BY <2>1, <3>1, <3>2 DEF IsCommitted, IsExecuted, HashOf
  <2>3. CASE ~ (next < task.number)
    BY <1>0, <1>9, <2>3 DEF NotifyExecutionCommitted, Goto
  <2> QED
    BY <2>2, <2>3
<1>10. CASE Crash
  BY <1>10 DEF Crash
<1> QED
  BY <1>2, <1>3, <1>4, <1>5, <1>6, <1>7, <1>8, <1>9, <1>10 DEF Next, ExecutorStep

-----------------------------------------------------------------------------
(* A snapshot is in order, half read, read or written, although the two    *)
(* reads of update_current_state are apart and the executor takes no lock. *)
LEMMA SnapStep ==
  ASSUME Inv, Next
  PROVE  SnapshotOrdered' /\ SnapInv'
<1> USE ThreadFacts DEF SnapshotOrdered, SnapInv
<1>0. /\ TypeOK /\ LabelsInv /\ LockInv /\ SnapshotOrdered /\ SnapInv
      /\ executed <= confirmed /\ IsExecuted(executed)
      /\ confirmed \in Nat /\ executed \in Nat
      /\ current \in Snapshots
      /\ snap \in [Threads -> Snapshots]
      /\ pc \in [Threads -> Labels]
  BY DEF Inv, DbInv, ThreadsInv, TypeOK, ExecutedContiguous
<1>r. \A z \in Snapshots : z.confirmed \in Nat /\ z.executed \in Nat
  BY DEF Snapshots
<1>g. /\ confirmed' \in Nat /\ confirmed <= confirmed'
      /\ \A n \in Nat : IsExecuted(n) =>
           n \in DOMAIN blocks' /\ HashOf(blocks'[n]) \in DOMAIN executions'
  BY DbGrows, TypeStep DEF TypeOK, IsExecuted, HashOf
<1>o. ASSUME UNCHANGED current PROVE SnapshotOrdered'
  BY <1>0, <1>r, <1>g, <1>o DEF IsExecuted, HashOf
(* Steps that move no thread of update_current_state and write neither     *)
(* number.                                                                 *)
<1>1. ASSUME UNCHANGED <<confirmed, executed, snap>>,
             \A t \in Threads : pc'[t] = pc[t] \/ pc'[t] \notin {"readExecuted", "writeCurrent"}
      PROVE  SnapInv'
  BY <1>0, <1>r, <1>g, <1>1 DEF IsExecuted, HashOf
<1>2. CASE \E c \in Proposers : PrepareBlock(c)
  BY <1>0, <1>1, <1>o, <1>2 DEF PrepareBlock, Goto, db, Committers
<1>3. CASE \E c \in Syncers : VerifyBest(c) \/ VerifyExecution(c)
  BY <1>0, <1>1, <1>o, <1>3 DEF VerifyBest, VerifyExecution, Goto, db, Committers
<1>4. ASSUME NEW c \in Committers, CommitBlock(c) PROVE SnapshotOrdered' /\ SnapInv'
  <2>1. /\ UNCHANGED <<executed, current, snap>> /\ lock = {}
        /\ pc' = [pc EXCEPT ![c] = "readConfirmed"]
    BY <1>4 DEF CommitBlock, Goto
  <2>2. \A d \in Committers : pc'[d] \notin {"readExecuted", "writeCurrent"}
    BY <1>0, <2>1 DEF LockInv, Locked
  <2>3. pc'[Executor] = pc[Executor]
    BY <1>0, <2>1
  <2>4. SnapInv'
    <3>1. \A t \in Threads : pc'[t] = "writeCurrent" => t = Executor /\ pc[t] = "writeCurrent"
      BY <2>2, <2>3 DEF Threads
    <3>2. snap[Executor].confirmed \in Nat /\ snap[Executor].executed \in Nat
      BY <1>0, <1>r
    <3>3. pc'[Executor] = "readExecuted" =>
            executed <= snap[Executor].confirmed /\ snap[Executor].confirmed <= confirmed'
      BY <1>0, <1>g, <2>3, <3>2
    <3>4. pc[Executor] = "writeCurrent" =>
            /\ snap[Executor].executed <= snap[Executor].confirmed
            /\ snap[Executor].confirmed <= confirmed'
            /\ snap[Executor].executed \in DOMAIN blocks'
            /\ HashOf(blocks'[snap[Executor].executed]) \in DOMAIN executions'
      BY <1>0, <1>g, <3>2
    <3> QED
      BY <2>1, <2>2, <3>1, <3>3, <3>4 DEF IsExecuted, HashOf
  <2> QED
    BY <1>o, <2>1, <2>4
<1>5. ASSUME NEW c \in Committers,
             CommitRefused(c) \/ InsertTask(c) \/ NotifyBlockCommitted(c) \/ CommitError(c)
      PROVE  SnapshotOrdered' /\ SnapInv'
  BY <1>0, <1>1, <1>o, <1>5
  DEF CommitRefused, InsertTask, NotifyBlockCommitted, CommitError, Goto, db
<1>6. ASSUME NEW t \in Threads, ReadConfirmed(t) PROVE SnapshotOrdered' /\ SnapInv'
  <2>1. /\ UNCHANGED <<confirmed, executed, current>>
        /\ snap' = [snap EXCEPT ![t] = [confirmed |-> confirmed, executed |-> 0]]
        /\ pc' = [pc EXCEPT ![t] = "readExecuted"]
    BY <1>6 DEF ReadConfirmed, Goto, db
  <2>2. SnapInv'
    BY <1>0, <1>r, <1>g, <2>1 DEF IsExecuted, HashOf
  <2> QED
    BY <1>o, <2>1, <2>2
<1>7. ASSUME NEW t \in Threads, ReadExecuted(t) PROVE SnapshotOrdered' /\ SnapInv'
  <2>1. /\ UNCHANGED <<confirmed, executed, current>>
        /\ snap' = [snap EXCEPT ![t] = [confirmed |-> snap[t].confirmed, executed |-> executed]]
        /\ pc' = [pc EXCEPT ![t] = "writeCurrent"]
    BY <1>7 DEF ReadExecuted, Goto, db
  <2>2. executed <= snap[t].confirmed /\ snap[t].confirmed <= confirmed
    BY <1>0, <1>7 DEF ReadExecuted, Threads
  <2>3. SnapInv'
    BY <1>0, <1>r, <1>g, <2>1, <2>2 DEF IsExecuted, HashOf
  <2> QED
    BY <1>o, <2>1, <2>3
<1>8. ASSUME NEW t \in Threads, WriteCurrent(t) PROVE SnapshotOrdered' /\ SnapInv'
  <2>1. /\ UNCHANGED <<confirmed, executed, snap>> /\ current' = snap[t]
        /\ pc[t] = "writeCurrent" /\ pc' = [pc EXCEPT ![t] = "notify"]
    BY <1>8 DEF WriteCurrent, Goto, db
  <2>2. SnapshotOrdered'
    BY <1>0, <1>r, <1>g, <2>1 DEF IsExecuted, HashOf
  <2>3. SnapInv'
    BY <1>0, <1>1, <2>1
  <2> QED
    BY <2>2, <2>3
<1>9. CASE TakeTask \/ ProcessError \/ NotifyExecutionCommitted
  BY <1>0, <1>1, <1>o, <1>9 DEF TakeTask, ProcessError, NotifyExecutionCommitted, Goto, db
<1>10. CASE ProcessNumber
  <2>1. /\ UNCHANGED <<confirmed, current, snap>>
        /\ pc' = [pc EXCEPT ![Executor] = "readConfirmed"]
    BY <1>10 DEF ProcessNumber, AfterExecution, Goto
  <2>2. SnapInv'
    BY <1>0, <1>r, <1>g, <2>1 DEF IsExecuted, HashOf
  <2> QED
    BY <1>o, <2>1, <2>2
<1>11. CASE Crash
  <2>1. SnapshotOrdered'
    BY <1>0, <1>11 DEF Crash, db, IsExecuted
  <2>2. SnapInv'
    BY <1>11 DEF Crash
  <2> QED
    BY <2>1, <2>2
<1> QED
  BY <1>2, <1>3, <1>4, <1>5, <1>6, <1>7, <1>8, <1>9, <1>10, <1>11
  DEF Next, CommitterStep, ExecutorStep, UpdateCurrentState

-----------------------------------------------------------------------------
(* As long as no execution fails somebody will refresh current_state, or   *)
(* it is fresh.                                                            *)
LEMMA FreshStep ==
  ASSUME Inv, Next
  PROVE  FreshInv'
<1> USE ThreadFacts DEF FreshInv, ExecutorFresh, IsFresh, Busy
<1>0. /\ TypeOK /\ LabelsInv /\ FreshInv
      /\ failures \in Nat /\ next \in Nat
      /\ pc \in [Threads -> Labels]
      /\ snap \in [Threads -> Snapshots]
      /\ queue \in Seq(Blocks)
  BY DEF Inv, ThreadsInv, TypeOK
(* Steps that move only a committer which is not past its commit. *)
<1>1. ASSUME NEW c \in Committers, ~ Busy(c),
             \A t \in Threads \ {c} : pc'[t] = pc[t],
             UNCHANGED <<confirmed, executed, current, queue, snap, task, next, failures>>
      PROVE  FreshInv'
  BY <1>0, <1>1
<1>2. ASSUME NEW c \in Proposers, PrepareBlock(c) PROVE FreshInv'
  BY <1>0, <1>1, <1>2 DEF PrepareBlock, Goto, db, executorVars, Committers
<1>3. ASSUME NEW c \in Syncers, VerifyBest(c) \/ VerifyExecution(c) PROVE FreshInv'
  BY <1>0, <1>1, <1>3 DEF VerifyBest, VerifyExecution, Goto, db, executorVars, Committers
<1>4. ASSUME NEW c \in Committers, CommitRefused(c) PROVE FreshInv'
  BY <1>0, <1>1, <1>4 DEF CommitRefused, Goto, db, executorVars
(* After these steps the committer still has its task to insert. *)
<1>5. ASSUME NEW c \in Committers,
             CommitBlock(c) \/ UpdateCurrentState(c) \/ NotifyBlockCommitted(c)
      PROVE  FreshInv'
  <2>1. Busy(c)'
    BY <1>0, <1>5
    DEF CommitBlock, UpdateCurrentState, ReadConfirmed, ReadExecuted, WriteCurrent,
        NotifyBlockCommitted, Goto
  <2> QED
    BY <2>1
<1>6. ASSUME NEW c \in Committers, InsertTask(c) PROVE FreshInv'
  <2>1. queue' # << >>
    BY <1>0, <1>6 DEF InsertTask, Enqueue, TypeOK
  <2> QED
    BY <2>1
<1>7. CASE TakeTask
  BY <1>0, <1>7 DEF TakeTask, Goto
<1>8. CASE ProcessNumber
  BY <1>0, <1>8 DEF ProcessNumber, AfterExecution, Goto
(* The executor's own snapshot. *)
<1>9. CASE ReadConfirmed(Executor)
  <2>1. /\ pc' = [pc EXCEPT ![Executor] = "readExecuted"]
        /\ snap'[Executor].confirmed = confirmed
        /\ UNCHANGED <<confirmed, queue, failures>>
    BY <1>0, <1>9 DEF ReadConfirmed, Goto, db
  <2> QED
    BY <1>0, <2>1
<1>10. CASE ReadExecuted(Executor)
  <2>1. /\ pc[Executor] = "readExecuted"
        /\ pc' = [pc EXCEPT ![Executor] = "writeCurrent"]
        /\ snap'[Executor].confirmed = snap[Executor].confirmed
        /\ snap'[Executor].executed = executed
        /\ UNCHANGED <<confirmed, executed, queue, failures>>
    BY <1>0, <1>10 DEF ReadExecuted, Goto, db
  <2> QED
    BY <1>0, <2>1
<1>11. CASE WriteCurrent(Executor)
  <2>1. /\ pc[Executor] = "writeCurrent"
        /\ pc' = [pc EXCEPT ![Executor] = "notify"]
        /\ current' = snap[Executor]
        /\ UNCHANGED <<confirmed, executed, queue, failures>>
    BY <1>0, <1>11 DEF WriteCurrent, Goto, db
  <2> QED
    BY <1>0, <2>1
<1>12. CASE NotifyExecutionCommitted
  <2>1. CASE next < task.number
    BY <1>0, <1>12, <2>1 DEF NotifyExecutionCommitted, Goto, db
  <2>2. CASE ~ (next < task.number)
    BY <1>0, <1>12, <2>2 DEF NotifyExecutionCommitted, Goto, db
  <2> QED
    BY <2>1, <2>2
<1>13. CASE ProcessError \/ \E c \in Committers : CommitError(c)
  BY <1>0, <1>13 DEF ProcessError, CommitError
<1>14. CASE Crash
  BY <1>0, <1>14 DEF Crash, db
<1> QED
  BY <1>2, <1>3, <1>4, <1>5, <1>6, <1>7, <1>8, <1>9, <1>10, <1>11, <1>12, <1>13, <1>14
  DEF Next, CommitterStep, ExecutorStep, UpdateCurrentState

-----------------------------------------------------------------------------
(* While a committer holds the lock, every message and every task is about *)
(* an older block, so its own message is the newest.                       *)
LEMMA MessagesStep ==
  ASSUME Inv, Next
  PROVE  MessagesInv'
<1> USE ThreadFacts
<1>0. /\ TypeOK /\ LockInv /\ JobInv /\ QueueInv /\ ExecutorInv
      /\ MessagesOrdered /\ NewestInv /\ OutboxInv
      /\ confirmed \in Nat /\ next \in Nat
      /\ job \in [Committers -> Blocks] /\ task \in Blocks
      /\ queue \in Seq(Blocks) /\ outbox \in Seq(Messages)
      /\ pc \in [Threads -> Labels]
  BY DEF Inv, ThreadsInv, MessagesInv, TypeOK
<1>n. /\ \A b \in Blocks : b.number \in Nat
      /\ \A i \in 1 .. Len(outbox) : outbox[i].number \in Nat
  <2>1. \A i \in 1 .. Len(outbox) : outbox[i] \in Messages
    BY <1>0
  <2>2. \A m \in Messages : m.number \in Nat
    BY DEF Messages
  <2> QED
    BY <2>1, <2>2 DEF Blocks
(* Steps that send nothing and take no further task. *)
<1>1. ASSUME UNCHANGED <<confirmed, outbox, lock, queue, task>>,
             pc'[Executor] # "idle" => pc[Executor] # "idle",
             \A c \in Committers : pc'[c] = "insert" => pc[c] = "insert" /\ job'[c] = job[c]
      PROVE  MessagesInv'
  BY <1>0, <1>1 DEF MessagesInv, MessagesOrdered, NewestInv, OutboxInv
<1>2. ASSUME NEW c \in Proposers, PrepareBlock(c) PROVE MessagesInv'
  BY <1>0, <1>1, <1>2 DEF PrepareBlock, Goto, db, executorVars, Committers
<1>3. ASSUME NEW c \in Syncers, VerifyBest(c) \/ VerifyExecution(c) PROVE MessagesInv'
  BY <1>0, <1>1, <1>3 DEF VerifyBest, VerifyExecution, Goto, db, executorVars, Committers
<1>4. ASSUME NEW c \in Committers, CommitRefused(c) PROVE MessagesInv'
  BY <1>0, <1>1, <1>4 DEF CommitRefused, Goto, db, executorVars
<1>5. ASSUME NEW t \in Threads, UpdateCurrentState(t) PROVE MessagesInv'
  BY <1>0, <1>1, <1>5
  DEF UpdateCurrentState, ReadConfirmed, ReadExecuted, WriteCurrent, Goto, db, executorVars
<1>6. ASSUME NEW c \in Committers, CommitBlock(c) PROVE MessagesInv'
  <2>1. /\ UNCHANGED <<outbox, queue, job, task>>
        /\ pc' = [pc EXCEPT ![c] = "readConfirmed"]
        /\ confirmed' = confirmed + 1
    BY <1>0, <1>6, CommitFacts DEF CommitBlock, Goto, executorVars
  <2>2. NewestInv'
    <3>1. \A d \in Committers : pc'[d] = "insert" => job[d].number < confirmed + 1
      BY <1>0, <1>n, <2>1 DEF JobInv, IsCommitted
    <3>2. \A i \in 1 .. Len(queue) : queue[i].number < confirmed + 1
      BY <1>0, <1>n DEF QueueInv, IsCommitted
    <3>3. pc'[Executor] # "idle" => task.number < confirmed + 1
      BY <1>0, <1>n, <2>1 DEF ExecutorInv, IsCommitted
    <3>4. \A i \in 1 .. Len(outbox) : outbox[i].number < confirmed + 1
      BY <1>0, <1>n DEF OutboxInv
    <3> QED
      BY <2>1, <3>1, <3>2, <3>3, <3>4 DEF NewestInv
  <2>3. MessagesOrdered' /\ OutboxInv'
    BY <1>0, <1>n, <2>1 DEF MessagesOrdered, OutboxInv
  <2> QED
    BY <2>2, <2>3 DEF MessagesInv
<1>7. ASSUME NEW c \in Committers, NotifyBlockCommitted(c) PROVE MessagesInv'
  <2>1. /\ lock = {c} /\ job[c].number = confirmed
    BY <1>0, <1>7 DEF NotifyBlockCommitted, LockInv, JobInv, Locked
  <2>2. /\ lock' = {} /\ UNCHANGED confirmed
        /\ outbox' = Append(outbox, [kind |-> "BlockCommitted", number |-> confirmed])
    BY <1>7, <2>1 DEF NotifyBlockCommitted, db
  <2>3. /\ Len(outbox') = Len(outbox) + 1
        /\ outbox'[Len(outbox) + 1] = [kind |-> "BlockCommitted", number |-> confirmed]
        /\ \A i \in 1 .. Len(outbox) : outbox'[i] = outbox[i]
    BY <1>0, <2>2
  <2>4. \A i \in 1 .. Len(outbox) : outbox[i].number < confirmed
    BY <1>0, <2>1 DEF NewestInv
  <2>5. MessagesOrdered'
    <3> SUFFICES ASSUME NEW j \in 1 .. Len(outbox'), outbox'[j].kind = "BlockCommitted",
                        NEW i \in 1 .. j - 1
                 PROVE  outbox'[i].number < outbox'[j].number
      BY DEF MessagesOrdered
    <3>1. Len(outbox) \in Nat
      BY <1>0
    <3>2. CASE j = Len(outbox) + 1
      BY <2>3, <2>4, <3>1, <3>2
    <3>3. CASE j # Len(outbox) + 1
      <4>1. j \in 1 .. Len(outbox) /\ i \in 1 .. Len(outbox)
        BY <2>3, <3>1, <3>3
      <4>2. outbox'[i] = outbox[i] /\ outbox'[j] = outbox[j]
        BY <2>3, <4>1
      <4>3. MessagesOrdered
        BY <1>0
      <4> QED
        BY <4>1, <4>2, <4>3 DEF MessagesOrdered
    <3> QED
      BY <3>2, <3>3
  <2>6. OutboxInv'
    BY <1>0, <2>2, <2>3 DEF OutboxInv
  <2> QED
    BY <2>2, <2>5, <2>6 DEF MessagesInv, NewestInv
<1>7e. ASSUME NEW c \in Committers, CommitError(c) PROVE MessagesInv'
  BY <1>0, <1>7e
  DEF CommitError, MessagesInv, MessagesOrdered, NewestInv, OutboxInv, db
<1>8. ASSUME NEW c \in Committers, InsertTask(c) PROVE MessagesInv'
  <2>1. /\ UNCHANGED <<confirmed, outbox, lock, task>>
        /\ queue' = Append(queue, job[c])
        /\ pc[c] = "insert" /\ pc' = [pc EXCEPT ![c] = "idle"]
        /\ \A d \in Committers \ {c} : job'[d] = job[d]
    BY <1>0, <1>8 DEF InsertTask, Enqueue, Goto, db, executorVars
  <2>2. lock # {} => \A i \in 1 .. Len(queue') : queue'[i].number < confirmed
    BY <1>0, <1>n, <2>1 DEF NewestInv
  <2>3. NewestInv'
    BY <1>0, <2>1, <2>2 DEF NewestInv
  <2> QED
    BY <1>0, <2>1, <2>3 DEF MessagesInv, MessagesOrdered, OutboxInv
<1>9. CASE TakeTask
  <2>1. /\ UNCHANGED <<confirmed, outbox, lock, job>>
        /\ queue # << >> /\ task' = Head(queue) /\ queue' = Tail(queue)
        /\ \A c \in Committers : pc'[c] = pc[c]
    BY <1>0, <1>9 DEF TakeTask, Goto, db
  <2>2. lock # {} => task'.number < confirmed
                     /\ \A i \in 1 .. Len(queue') : queue'[i].number < confirmed
    BY <1>0, <1>n, <2>1 DEF NewestInv
  <2>3. NewestInv'
    BY <1>0, <2>1, <2>2 DEF NewestInv
  <2> QED
    BY <1>0, <2>1, <2>3 DEF MessagesInv, MessagesOrdered, OutboxInv
<1>10. CASE ProcessNumber
  BY <1>0, <1>1, <1>10 DEF ProcessNumber, AfterExecution, Goto, executorVars
<1>11. CASE ProcessError
  BY <1>0, <1>1, <1>11 DEF ProcessError, Goto, db, executorVars
<1>12. CASE NotifyExecutionCommitted
  <2>1. /\ UNCHANGED <<confirmed, lock, queue, job, task>>
        /\ outbox' = Append(outbox, [kind |-> "ExecutionCommitted", number |-> next])
        /\ pc[Executor] # "idle"
        /\ \A c \in Committers : pc'[c] = pc[c]
    BY <1>0, <1>12 DEF NotifyExecutionCommitted, Goto, db
  <2>2. /\ next <= task.number /\ task.number <= confirmed
        /\ lock # {} => task.number < confirmed
        /\ task.number \in Nat
    BY <1>0, <1>n, <2>1 DEF ExecutorInv, IsCommitted, NewestInv
  <2>3. /\ Len(outbox') = Len(outbox) + 1
        /\ outbox'[Len(outbox) + 1] = [kind |-> "ExecutionCommitted", number |-> next]
        /\ \A i \in 1 .. Len(outbox) : outbox'[i] = outbox[i]
    BY <1>0, <2>1
  <2>4. MessagesOrdered'
    <3> SUFFICES ASSUME NEW j \in 1 .. Len(outbox'), outbox'[j].kind = "BlockCommitted",
                        NEW i \in 1 .. j - 1
                 PROVE  outbox'[i].number < outbox'[j].number
      BY DEF MessagesOrdered
    <3>1. Len(outbox) \in Nat /\ MessagesOrdered
      BY <1>0
    <3>2. j # Len(outbox) + 1
      BY <2>3
    <3>3. j \in 1 .. Len(outbox) /\ i \in 1 .. Len(outbox)
      BY <2>3, <3>1, <3>2
    <3>4. outbox'[i] = outbox[i] /\ outbox'[j] = outbox[j]
      BY <2>3, <3>3
    <3> QED
      BY <3>1, <3>3, <3>4 DEF MessagesOrdered
  <2>5. OutboxInv'
    BY <1>0, <1>n, <2>1, <2>2, <2>3 DEF OutboxInv
  <2>6. NewestInv'
    BY <1>0, <1>n, <2>1, <2>2, <2>3 DEF NewestInv
  <2> QED
    BY <2>4, <2>5, <2>6 DEF MessagesInv
<1>13. CASE Crash
  BY <1>13 DEF Crash, MessagesInv, MessagesOrdered, NewestInv, OutboxInv
<1> QED
  BY <1>2, <1>3, <1>4, <1>5, <1>6, <1>7, <1>8, <1>9, <1>10, <1>11, <1>12, <1>13, <1>7e
  DEF Next, CommitterStep, ExecutorStep

-----------------------------------------------------------------------------
(* The invariant is inductive. *)
LEMMA StepInv == Inv /\ [Next]_vars => Inv'
<1>1. ASSUME Inv, Next PROVE Inv'
  BY <1>1, TypeStep, DbStep, LockStep, JobStep, ExecutorStepInv, SnapStep, FreshStep, MessagesStep
  DEF Inv, ThreadsInv
<1>2. ASSUME Inv, UNCHANGED vars PROVE Inv'
  <2> USE <1>2 DEF vars
  <2>1. TypeOK'
    BY DEF Inv, TypeOK
  <2>2. DbInv'
    BY DEF Inv, DbInv, ChainLinked, ExecutedContiguous, ExecutionsInv, ExecutionIsChainPrefix,
           IsExecuted
  <2>3. ThreadsInv'
    BY DEF Inv, ThreadsInv, LabelsInv, LockInv, JobInv, QueueInv, ExecutorInv, IsCommitted,
           IsExecuted
  <2>4. SnapshotOrdered' /\ SnapInv'
    BY DEF Inv, SnapshotOrdered, SnapInv, IsExecuted
  <2>5. FreshInv'
    BY DEF Inv, FreshInv, ExecutorFresh, IsFresh, Busy
  <2>6. MessagesInv'
    BY DEF Inv, MessagesInv, MessagesOrdered, NewestInv, OutboxInv
  <2> QED
    BY <2>1, <2>2, <2>3, <2>4, <2>5, <2>6 DEF Inv
<1> QED
  BY <1>1, <1>2

(* Every reachable state of the chain satisfies the invariant. *)
THEOREM Invariance == Spec => []Inv
BY InitInv, StepInv, PTL DEF Spec

(* The variables of the chain keep their types, with blocks numbered from  *)
(* 0 to CONFIRMED_NUMBER without a gap.                                    *)
THEOREM TypeCorrect == Spec => []TypeOK
<1>1. Inv => TypeOK
  BY DEF Inv
<1> QED
  BY <1>1, Invariance, PTL

(* Backend::commit_block only ever extends a linked chain, whatever the    *)
(* callers race to commit.                                                 *)
THEOREM ChainIsLinked == Spec => []ChainLinked
<1>1. Inv => ChainLinked
  BY DEF Inv, DbInv
<1> QED
  BY <1>1, Invariance, PTL

(* The executed blocks are a prefix of the chain and each carries the      *)
(* state of that prefix, although tasks come out of order, fail, are lost  *)
(* in a crash and are executed again.                                      *)
THEOREM ExecutionFollowsChain == Spec => []ExecutionIsChainPrefix
<1>1. Inv => ExecutionIsChainPrefix
  BY DEF Inv, DbInv
<1> QED
  BY <1>1, Invariance, PTL

(* Everything up to EXECUTION_NUMBER is executed, wherever process_task    *)
(* starts and however often it fails.                                      *)
THEOREM NothingSkipped == Spec => []ExecutedContiguous
<1>1. Inv => ExecutedContiguous
  BY DEF Inv, DbInv
<1> QED
  BY <1>1, Invariance, PTL

(* current_state is never ahead of the database nor out of order, so the   *)
(* unsigned subtraction of prepare_block does not underflow.               *)
THEOREM SnapshotsAreOrdered == Spec => []SnapshotOrdered
<1>1. Inv => SnapshotOrdered
  BY DEF Inv
<1> QED
  BY <1>1, Invariance, PTL

(* The writers of current_state may overwrite each other's snapshots, but  *)
(* when all is quiet and no execution failed, it is what the database is.  *)
THEOREM QuietIsFresh == Spec => []QuiescentFresh
<1>1. Inv => QuiescentFresh
  <2> SUFFICES ASSUME Inv, failures = 0, queue = << >>, \A t \in Threads : ~ Busy(t)
               PROVE  current = [confirmed |-> confirmed, executed |-> executed]
    BY DEF QuiescentFresh
  <2>1. pc[Executor] = "idle"
    BY ThreadFacts DEF Inv, ThreadsInv, LabelsInv, Locked, Busy
  <2>2. IsFresh
    BY <2>1, ThreadFacts DEF Inv, FreshInv, ExecutorFresh
  <2> QED
    BY <2>2 DEF Inv, TypeOK, Snapshots, IsFresh
<1> QED
  BY <1>1, Invariance, PTL

(* BlockCommitted is sent under the commit lock, so these messages come in *)
(* the order of the blocks and after every message on an earlier block.    *)
THEOREM MessagesComeInOrder == Spec => []MessagesOrdered
<1>1. Inv => MessagesOrdered
  BY DEF Inv, MessagesInv
<1> QED
  BY <1>1, Invariance, PTL

-----------------------------------------------------------------------------
(* The gap of a block that has passed prepare_block or verify_execution. *)
GapOk(b) == GapHolds(b) \/ GapWrapped(b)
JobGapInv == \A c \in Committers : pc[c] = "commit" => GapOk(job[c])

(* A gap below half the range of an ExecutionGap is cast to itself. *)
LEMMA AsGapSmall ==
  ASSUME NEW n \in Nat, n < GapModulus \div 2
  PROVE  AsGap(n) = n
<1> DEFINE H == GapModulus \div 2
<1>1. GapModulus \in Nat /\ H \in Nat /\ GapModulus = H + H
  BY ConstantsAssumption
<1>2. n + H \in Nat /\ n + H < GapModulus
  BY <1>1
<1>3. \A a \in Nat : a < GapModulus => a % GapModulus = a
  BY <1>1
<1>4. (n + H) % GapModulus = n + H
  BY <1>2, <1>3
<1> QED
  BY <1>1, <1>4 DEF AsGap

(* What a database that only grows keeps of a gap. *)
LEMMA GapKept ==
  ASSUME Inv, Next, NEW b \in Blocks, GapOk(b)
  PROVE  GapOk(b)'
<1>1. \A n \in Nat : IsExecuted(n) => IsExecuted(n)'
  BY DbGrows
<1>2. ASSUME NEW e, IsExecuted(e) PROVE IsExecuted(e)'
  <2>1. e \in Nat
    BY <1>2 DEF IsExecuted, Inv, TypeOK
  <2> QED
    BY <1>1, <1>2, <2>1
<1> QED
  BY <1>2 DEF GapOk, GapHolds, GapWrapped

(* prepare_block compares the gap after the cast: it is the true gap, or   *)
(* it has wrapped.                                                         *)
LEMMA PreparedGap ==
  ASSUME Inv, NEW c \in Proposers, PrepareBlock(c)
  PROVE  GapOk(job'[c])
<1> DEFINE number == current.confirmed + 1
           d == number - current.executed
           b == job'[c]
<1>1. /\ current.confirmed \in Nat /\ current.executed \in Nat
      /\ current.executed <= current.confirmed
      /\ IsExecuted(current.executed)
      /\ job \in [Committers -> Blocks] /\ c \in Committers
  BY DEF Inv, TypeOK, Snapshots, SnapshotOrdered, Committers
<1>2. number \in Nat /\ d \in Nat /\ d >= 1 /\ number - d = current.executed
  BY <1>1
<1>3. b.number = number /\ b.gap = AsGap(d) /\ ~ AsGap(d) > MaxExecutionGap
  <2>1. PICK content \in Contents : job' = [job EXCEPT ![c] = BuildBlock(number, AsGap(d), content)]
    BY DEF PrepareBlock
  <2>2. b = BuildBlock(number, AsGap(d), content)
    BY <1>1, <2>1
  <2>3. ~ AsGap(d) > MaxExecutionGap
    BY DEF PrepareBlock, GapAllowed
  <2> QED
    BY <2>2, <2>3 DEF BuildBlock
<1>4. GapModulus \div 2 \in Nat /\ MaxExecutionGap \in Nat
  BY ConstantsAssumption
<1> HIDE DEF number, d, b
<1>5. CASE d < GapModulus \div 2
  <2>1. b.gap = d /\ d <= MaxExecutionGap
    BY <1>2, <1>3, <1>4, <1>5, AsGapSmall
  <2>2. b.gap \in 1 .. MaxExecutionGap /\ ExecutionNumber(b) = current.executed
    BY <1>2, <1>3, <1>4, <2>1 DEF ExecutionNumber
  <2> QED
    BY <1>1, <2>2 DEF GapOk, GapHolds, b
<1>6. CASE d >= GapModulus \div 2
  <2>1. current.executed \in 0 .. b.number - GapModulus \div 2
    BY <1>1, <1>2, <1>3, <1>4, <1>6
  <2>2. b.gap = AsGap(b.number - current.executed)
    BY <1>3 DEF d
  <2> QED
    BY <1>1, <2>1, <2>2 DEF GapOk, GapWrapped, b
<1> QED
  BY <1>2, <1>4, <1>5, <1>6

LEMMA GapStep ==
  ASSUME Inv, HeaderGapValid, JobGapInv, Next
  PROVE  HeaderGapValid' /\ JobGapInv'
<1>0. /\ TypeOK /\ confirmed \in Nat /\ job \in [Committers -> Blocks]
      /\ pc \in [Threads -> Labels] /\ blocks \in [0 .. confirmed -> Blocks]
      /\ TypeOK'
  BY TypeStep DEF Inv, TypeOK
(* GapOk of a block of the next state, with its definitions expanded. *)
<1>p. ASSUME NEW b \in Blocks, NEW n, blocks'[n] = b, GapOk(b)' PROVE GapOk(blocks[n])'
  BY <1>p DEF GapOk, GapHolds, GapWrapped, IsExecuted, ExecutionNumber
<1>q. ASSUME NEW b \in Blocks, NEW c, job'[c] = b, GapOk(b)' PROVE GapOk(job[c])'
  BY <1>q DEF GapOk, GapHolds, GapWrapped, IsExecuted, ExecutionNumber
<1>1. HeaderGapValid'
  <2>1. ASSUME NEW n \in 1 .. confirmed PROVE GapOk(blocks[n])'
    <3>1. PICK b \in Blocks : b = blocks[n]
      BY <1>0
    <3>2. GapOk(b) /\ blocks'[n] = b
      BY <3>1, DbGrows, <1>0 DEF HeaderGapValid, GapOk
    <3> QED
      BY <1>p, <3>2, GapKept
  <2>2. CASE UNCHANGED confirmed
    BY <2>1, <2>2 DEF HeaderGapValid, GapOk
  <2>3. ASSUME NEW c \in Committers, CommitBlock(c) PROVE HeaderGapValid'
    <3>1. PICK b \in Blocks : b = job[c]
      BY <1>0
    <3>2. confirmed' = confirmed + 1 /\ blocks'[confirmed + 1] = b
      BY <1>0, <2>3, <3>1, CommitFacts
    <3>3. GapOk(b)
      BY <2>3, <3>1 DEF JobGapInv, CommitBlock
    <3>4. PICK k \in Nat : k = confirmed + 1
      BY <1>0
    <3>5. GapOk(blocks[k])'
      BY <1>p, <3>2, <3>3, <3>4, GapKept
    <3>6. \A n \in 1 .. k : n \in 1 .. confirmed \/ n = k
      BY <1>0, <3>4
    <3>7. \A n \in 1 .. k : GapOk(blocks[n])'
      BY <2>1, <3>5, <3>6
    <3> QED
      BY <3>2, <3>4, <3>7 DEF HeaderGapValid, GapOk
  <2>4. UNCHANGED confirmed \/ \E c \in Committers : CommitBlock(c)
    BY DbChanges DEF db, ProcessNumber
  <2> QED
    BY <2>2, <2>3, <2>4
<1>2. JobGapInv'
  <2> SUFFICES ASSUME NEW c \in Committers, pc'[c] = "commit" PROVE GapOk(job[c])'
    BY DEF JobGapInv
  <2>0. c \in Threads /\ Committers = Proposers \cup Syncers /\ ~ Crash
    BY ThreadFacts, <1>0 DEF Committers, Crash
  <2>1. PICK b \in Blocks : b = job'[c]
    BY <1>0 DEF TypeOK
  <2> USE DEF Goto
  <2>2. CASE c \in Proposers /\ PrepareBlock(c)
    BY <1>q, <2>1, <2>2, PreparedGap, GapKept
  <2>3. CASE c \in Syncers /\ VerifyExecution(c)
    <3>1. ExecutionVerified(job[c]) /\ IsExecuted(ExecutionNumber(job[c])) /\ job' = job
      BY <1>0, <2>0, <2>3 DEF VerifyExecution
    <3>2. b.gap >= 1 /\ b.gap <= MaxExecutionGap /\ IsExecuted(ExecutionNumber(b)) /\ b.gap \in Int
      BY <2>1, <3>1 DEF ExecutionVerified, Blocks
    <3>3. GapOk(b)
      BY <3>2, ConstantsAssumption DEF GapOk, GapHolds
    <3> QED
      BY <1>q, <2>1, <3>3, GapKept
  <2>4. CASE pc[c] = "commit" /\ job'[c] = job[c]
    <3>1. GapOk(b)
      BY <2>1, <2>4 DEF JobGapInv
    <3> QED
      BY <1>q, <2>1, <3>1, GapKept
  <2>5. ASSUME NEW d \in Threads, NEW l, pc' = [pc EXCEPT ![d] = l], l # "commit"
        PROVE  pc[c] = "commit" /\ c # d
    BY <1>0, <2>0, <2>5
  <2>6. ASSUME NEW d \in Proposers, PrepareBlock(d) PROVE GapOk(job[c])'
    <3>1. CASE d # c
      BY <1>0, <2>0, <2>4, <2>6, <3>1 DEF PrepareBlock
    <3> QED
      BY <2>2, <2>6, <3>1
  <2>7. ASSUME NEW d \in Syncers, VerifyExecution(d) PROVE GapOk(job[c])'
    <3>1. CASE d # c
      BY <1>0, <2>0, <2>4, <2>7, <3>1 DEF VerifyExecution
    <3> QED
      BY <2>3, <2>7, <3>1
  <2>8. ASSUME NEW d \in Syncers, VerifyBest(d) PROVE GapOk(job[c])'
    BY <1>0, <2>0, <2>4, <2>5, <2>8 DEF VerifyBest
  <2>9. ASSUME NEW d \in Committers, CommitterStep(d) \/ CommitError(d) PROVE GapOk(job[c])'
    <3>1. /\ \E l : l # "commit" /\ pc' = [pc EXCEPT ![d] = l]
          /\ \A e \in Committers : e # d => job'[e] = job[e]
      BY <1>0, <2>9 DEF CommitterStep, CommitError, CommitBlock, CommitRefused, UpdateCurrentState,
         ReadConfirmed, ReadExecuted, WriteCurrent, NotifyBlockCommitted, InsertTask
    <3> QED
      BY <2>0, <2>4, <2>5, <3>1, ThreadFacts
  <2>10. ASSUME ExecutorStep \/ ProcessError PROVE GapOk(job[c])'
    <3>1. job' = job /\ \E l : l # "commit" /\ pc' = [pc EXCEPT ![Executor] = l]
      BY <2>10 DEF ExecutorStep, ProcessError, TakeTask, ProcessNumber, AfterExecution, UpdateCurrentState,
         ReadConfirmed, ReadExecuted, WriteCurrent, NotifyExecutionCommitted
    <3> QED
      BY <2>0, <2>4, <2>5, <3>1, ThreadFacts
  <2> QED
    BY <2>0, <2>6, <2>7, <2>8, <2>9, <2>10 DEF Next
<1> QED
  BY <1>1, <1>2

(* Every committed block carries a gap that verify_execution of another    *)
(* node accepts and that names an executed block, unless the execution     *)
(* number has fallen back by half the range of an ExecutionGap: then the   *)
(* cast before the comparison lets a wrapped gap through.                  *)
THEOREM GapsAreValid == Spec => []HeaderGapValid
<1> DEFINE GapInv == HeaderGapValid /\ JobGapInv
<1>1. Init => GapInv
  BY ThreadFacts DEF Init, HeaderGapValid, JobGapInv
<1>2. Inv /\ GapInv /\ [Next]_vars => GapInv'
  <2>1. ASSUME Inv, GapInv, UNCHANGED vars PROVE GapInv'
    BY <2>1 DEF vars, HeaderGapValid, JobGapInv, GapOk, GapHolds, GapWrapped, IsExecuted, ExecutionNumber
  <2> QED
    BY <2>1, GapStep
<1>3. GapInv => HeaderGapValid
  OBVIOUS
<1> HIDE DEF GapInv
<1> QED
  BY <1>1, <1>2, <1>3, Invariance, PTL DEF Spec

-----------------------------------------------------------------------------
(* The executed blocks are those up to some number. *)
IsTop(n) == n \in 0 .. confirmed /\ \A m \in 0 .. confirmed : IsExecuted(m) <=> m <= n

HasTop == \E n \in Nat : IsTop(n)

(* The executed blocks end at TopExecuted, and the payload state is the    *)
(* chain up to there.                                                      *)
LEMMA TopFacts ==
  (Inv /\ HasTop) =>
    /\ IsTop(TopExecuted)
    /\ TopExecuted \in 0 .. confirmed
    /\ PayloadState = [i \in 1 .. TopExecuted |-> HashOf(blocks[i])]
<1> SUFFICES ASSUME Inv, HasTop
             PROVE  /\ IsTop(TopExecuted)
                    /\ TopExecuted \in 0 .. confirmed
                    /\ PayloadState = [i \in 1 .. TopExecuted |-> HashOf(blocks[i])]
  OBVIOUS
<1>0. confirmed \in Nat
  BY DEF Inv, TypeOK
<1>1. PICK n \in Nat : IsTop(n)
  BY DEF HasTop
<1>2. IsExecuted(n) /\ (n < confirmed => ~ IsExecuted(n + 1))
  BY <1>0, <1>1 DEF IsTop
<1>3. ASSUME NEW m \in 0 .. confirmed, IsExecuted(m), m < confirmed => ~ IsExecuted(m + 1)
      PROVE  m = n
  BY <1>0, <1>1, <1>3 DEF IsTop
<1>4. TopExecuted = n
  BY <1>0, <1>1, <1>2, <1>3 DEF TopExecuted, IsTop
<1>5. executions[HashOf(blocks[n])] = [i \in 1 .. n |-> HashOf(blocks[i])]
  BY <1>1, <1>2 DEF Inv, DbInv, ExecutionIsChainPrefix, IsTop
<1> QED
  BY <1>1, <1>4, <1>5 DEF PayloadState, IsTop

(* A commit adds a block above the top, an execution moves the top to the  *)
(* block it executes or leaves it.                                         *)
LEMMA TopStep ==
  ASSUME Inv, Inv', [Next]_vars, NEW n \in Nat, IsTop(n)
  PROVE  \/ UNCHANGED <<confirmed, blocks>> /\ IsTop(n)'
         \/ UNCHANGED <<confirmed, blocks>> /\ n < confirmed /\ IsTop(n + 1)'
         \/ /\ confirmed' = confirmed + 1
            /\ blocks'[confirmed + 1].number = confirmed + 1
            /\ \A m \in 0 .. confirmed : blocks'[m] = blocks[m]
            /\ IsTop(n)'
<1>0. TypeOK /\ ChainLinked /\ ExecutionsInv /\ confirmed \in Nat /\ DOMAIN blocks = 0 .. confirmed
  BY DEF Inv, DbInv, TypeOK
<1>1. CASE UNCHANGED db
  BY <1>1 DEF db, IsTop, IsExecuted
<1>2. ASSUME NEW c \in Committers, CommitBlock(c)
      PROVE  /\ confirmed' = confirmed + 1
             /\ blocks'[confirmed + 1].number = confirmed + 1
             /\ \A m \in 0 .. confirmed : blocks'[m] = blocks[m]
             /\ IsTop(n)'
  <2>1. /\ confirmed' = confirmed + 1
        /\ blocks'[confirmed + 1] = job[c]
        /\ job[c] \in Blocks /\ job[c].number = confirmed + 1
        /\ DOMAIN blocks' = 0 .. confirmed + 1
        /\ \A m \in 0 .. confirmed : blocks'[m] = blocks[m]
    BY <1>0, <1>2, CommitFacts
  <2>2. executions' = executions
    BY <1>2 DEF CommitBlock
  <2>3. HashOf(job[c]) \notin DOMAIN executions
    <3>1. HashOf(job[c]).number = confirmed + 1
      BY <2>1, HashFacts
    <3> QED
      BY <1>0, <3>1 DEF ExecutionsInv
  <2>4. \A m \in 0 .. confirmed + 1 : IsExecuted(m)' <=> m \in 0 .. confirmed /\ IsExecuted(m)
    BY <1>0, <2>1, <2>2, <2>3 DEF IsExecuted, HashOf
  <2>5. IsTop(n)'
    BY <1>0, <2>1, <2>4 DEF IsTop
  <2> QED
    BY <2>1, <2>5
<1>3. CASE ProcessNumber
  <2>1. /\ next \in 1 .. confirmed
        /\ CurrentTask = blocks[next]
        /\ IsExecuted(next - 1)
    BY <1>3, CurrentTaskFacts DEF ProcessNumber
  <2>2. /\ UNCHANGED <<confirmed, blocks>>
        /\ DOMAIN executions' = DOMAIN executions \cup {HashOf(blocks[next])}
    BY <1>3, <2>1 DEF ProcessNumber
  <2>3. \A m \in 0 .. confirmed : HashOf(blocks[m]).number = m
    BY <1>0, HashFacts, GenesisFacts DEF ChainLinked, TypeOK
  <2>4. \A m \in 0 .. confirmed : IsExecuted(m)' <=> IsExecuted(m) \/ m = next
    BY <1>0, <2>1, <2>2, <2>3 DEF IsExecuted
  <2>5. n \in 0 .. confirmed /\ next - 1 <= n
    BY <1>0, <2>1 DEF IsTop
  <2>6. CASE next <= n
    BY <1>0, <2>1, <2>2, <2>4, <2>5, <2>6 DEF IsTop
  <2>7. CASE next = n + 1
    BY <1>0, <2>1, <2>2, <2>4, <2>5, <2>7 DEF IsTop
  <2> QED
    BY <1>0, <2>1, <2>5, <2>6, <2>7
<1>4. CASE UNCHANGED vars
  BY <1>1, <1>4 DEF vars, db
<1> QED
  BY <1>1, <1>2, <1>3, <1>4, DbChanges

(* There is always a highest executed block. *)
LEMMA TopInvariance == Spec => []HasTop
<1>1. Init => HasTop
  <2> SUFFICES ASSUME Init PROVE IsTop(0)
    BY DEF HasTop
  <2> QED
    BY DEF Init, IsTop, IsExecuted
<1>2. Inv /\ Inv' /\ HasTop /\ [Next]_vars => HasTop'
  <2> SUFFICES ASSUME Inv, Inv', HasTop, [Next]_vars PROVE HasTop'
    OBVIOUS
  <2>1. PICK n \in Nat : IsTop(n)
    BY DEF HasTop
  <2>2. IsTop(n)' \/ IsTop(n + 1)'
    BY <2>1, TopStep
  <2> QED
    BY <2>2 DEF HasTop
<1> QED
  BY <1>1, <1>2, Invariance, PTL DEF Spec

(* Every behaviour of the chain, with its races, crashes, failures and     *)
(* repeated executions, is a behaviour of the append-only ledger whose     *)
(* payload is applied block by block.                                      *)
THEOREM Refinement == Spec => ImplementsLedger
<1>1. Init => L!Init
  <2> SUFFICES ASSUME Init PROVE L!Init
    OBVIOUS
  <2>1. Inv /\ HasTop
    <3>1. IsTop(0)
      BY DEF Init, IsTop, IsExecuted
    <3> QED
      BY <3>1, InitInv DEF HasTop
  <2>2. confirmed = 0
    BY DEF Init
  <2>3. TopExecuted = 0 /\ PayloadState = [i \in 1 .. 0 |-> HashOf(blocks[i])]
    BY <2>1, <2>2, TopFacts
  <2> QED
    BY <2>2, <2>3 DEF L!Init, CommittedHashes
<1>2. Inv /\ Inv' /\ HasTop /\ HasTop' /\ [Next]_vars => [L!Next]_<<CommittedHashes, PayloadState>>
  <2> SUFFICES ASSUME Inv, Inv', HasTop, HasTop', [Next]_vars
               PROVE  [L!Next]_<<CommittedHashes, PayloadState>>
    OBVIOUS
  <2>0. confirmed \in Nat /\ \A i \in 1 .. confirmed : HashOf(blocks[i]) \in Hashes
    <3>1. confirmed \in Nat /\ blocks \in [0 .. confirmed -> Blocks]
      BY DEF Inv, TypeOK
    <3>2. \A i \in 1 .. confirmed : blocks[i] \in Blocks
      BY <3>1
    <3> QED
      BY <3>1, <3>2, HashFacts
  <2>1. PICK n \in Nat : n = TopExecuted /\ IsTop(n) /\ n <= confirmed
    BY <2>0, TopFacts
  <2>2. PayloadState = [i \in 1 .. n |-> HashOf(blocks[i])]
    BY <2>1, TopFacts
  <2>3. /\ IsTop(TopExecuted)'
        /\ TopExecuted' \in 0 .. confirmed'
        /\ PayloadState' = [i \in 1 .. TopExecuted' |-> HashOf(blocks'[i])]
    <3>1. (Inv /\ HasTop =>
            /\ IsTop(TopExecuted)
            /\ TopExecuted \in 0 .. confirmed
            /\ PayloadState = [i \in 1 .. TopExecuted |-> HashOf(blocks[i])])'
      BY TopFacts, PTL
    <3> QED
      BY <3>1 DEF HashOf
  <2>4. ASSUME NEW m \in Nat, IsTop(m)' PROVE TopExecuted' = m
    <3>1. confirmed' \in Nat
      BY DEF Inv, TypeOK
    <3> QED
      BY <2>3, <2>4, <3>1 DEF IsTop
  <2>5. CASE UNCHANGED <<confirmed, blocks>> /\ IsTop(n)'
    BY <2>1, <2>2, <2>3, <2>4, <2>5 DEF CommittedHashes, HashOf
  <2>6. CASE UNCHANGED <<confirmed, blocks>> /\ n < confirmed /\ IsTop(n + 1)'
    <3> DEFINE h == [i \in 1 .. confirmed |-> HashOf(blocks[i])]
               p == [i \in 1 .. n |-> HashOf(blocks[i])]
    <3>1. /\ PayloadState' = [i \in 1 .. n + 1 |-> HashOf(blocks[i])]
          /\ UNCHANGED CommittedHashes
          /\ CommittedHashes = h
      BY <2>1, <2>3, <2>4, <2>6 DEF CommittedHashes, HashOf
    <3>2. Len(p) = n /\ Len(h) = confirmed /\ h[n + 1] = HashOf(blocks[n + 1])
      BY <2>0, <2>1, <2>6
    <3>3. Append(p, h[n + 1]) = [i \in 1 .. n + 1 |-> HashOf(blocks[i])]
      BY <2>0, <2>1, <2>6, <3>2
    <3>4. L!ApplyBlock
      BY <2>2, <2>6, <3>1, <3>2, <3>3 DEF L!ApplyBlock
    <3> QED
      BY <3>4 DEF L!Next
  <2>7. CASE /\ confirmed' = confirmed + 1
             /\ blocks'[confirmed + 1].number = confirmed + 1
             /\ \A m \in 0 .. confirmed : blocks'[m] = blocks[m]
             /\ IsTop(n)'
    <3> DEFINE h == [i \in 1 .. confirmed |-> HashOf(blocks[i])]
               g == [i \in 1 .. confirmed + 1 |-> HashOf(blocks'[i])]
    <3>1. CommittedHashes = h /\ CommittedHashes' = g
      BY <2>7 DEF CommittedHashes, HashOf
    <3>2. PayloadState' = PayloadState
      BY <2>0, <2>1, <2>2, <2>3, <2>4, <2>7
    <3>3. Len(h) = confirmed /\ Len(g) = confirmed + 1
      BY <2>0
    <3>4. g[confirmed + 1].number = confirmed + 1
      BY <2>0, <2>7 DEF HashOf
    <3>5. g = Append(h, g[confirmed + 1])
      <4>1. \A i \in 1 .. confirmed : g[i] = h[i]
        BY <2>0, <2>7
      <4> QED
        BY <2>0, <3>3, <4>1
    <3>6. L!AppendBlock
      BY <3>1, <3>2, <3>3, <3>4, <3>5 DEF L!AppendBlock
    <3> QED
      BY <3>6 DEF L!Next
  <2> QED
    BY <2>1, <2>5, <2>6, <2>7, TopStep
<1> QED
  BY <1>1, <1>2, Invariance, TopInvariance, PTL DEF Spec, ImplementsLedger, L!Spec
=============================================================================
