------------------------------- MODULE Chain -------------------------------
(***************************************************************************)
(* The chain of one node: core/node/chain (backend.rs, execute.rs, lib.rs) *)
(* with the two ways a block reaches it, prepare_block of the consensus    *)
(* support (consensus/base) and verify_block of the coordinator.           *)
(*                                                                         *)
(* Several tokio tasks call Chain::commit_block (a consensus stream that   *)
(* proposes, the coordinator that syncs); one more task, the consumer of   *)
(* the execute queue, executes the payload of committed blocks.  Every     *)
(* step of these threads that another thread can observe is an action.     *)
(* The database survives a crash, everything else is lost.                 *)
(***************************************************************************)
EXTENDS Integers, Sequences

CONSTANTS
  Proposers,        \* threads that call prepare_block, build_block, commit_block
  Syncers,          \* threads that call verify_block, commit_block
  Executor,         \* the TaskStream of the execute queue
  Contents,         \* what else is in a block: timestamp, transactions
  GenesisContent,   \* the content of block 0
  ZeroHash,         \* the parent hash of block 0
  MaxExecutionGap,  \* system_meta.max_execution_gap
  GapModulus,       \* the number of values of an ExecutionGap (an i8: 256)
  MaxNumber,        \* bound: the highest block number
  MaxCrashes,       \* bound: how often the process is killed and restarted
  Failing,          \* the threads whose steps may fail
  MaxFailures       \* bound: how often an execution or a refresh of current_state fails

Committers == Proposers \cup Syncers
Threads == Committers \cup {Executor}

(***************************************************************************)
(* max_execution_gap is itself an ExecutionGap, and the first gap that it  *)
(* forbids has to be one too, or it would not be refused.                  *)
(***************************************************************************)
ASSUME ConstantsAssumption ==
  /\ Proposers \cap Syncers = {}
  /\ Executor \notin Committers
  /\ GenesisContent \in Contents
  /\ MaxExecutionGap \in Nat \ {0}
  /\ GapModulus \in Nat
  /\ 2 * (MaxExecutionGap + 1) < GapModulus
  /\ GapModulus % 2 = 0
  /\ MaxNumber \in Nat
  /\ MaxCrashes \in Nat
  /\ MaxFailures \in Nat
  /\ Failing \subseteq Threads

VARIABLES
  \* the database
  confirmed,   \* CONFIRMED_NUMBER
  blocks,      \* BLOCK_HASH and HEADER: the committed block of each number
  executed,    \* EXECUTION_NUMBER
  executions,  \* EXECUTION: the payload state root by block hash
  \* shared memory
  current,     \* Backend::current_state
  lock,        \* the holder of Backend::commit_block_lock, if any
  queue,       \* the channel of the execute queue
  outbox,      \* the messages sent on Backend::message_tx
  \* the threads
  pc,          \* where each thread is
  job,         \* the block a committer is committing
  snap,        \* what update_current_state has read so far
  task,        \* the task the executor is processing
  next,        \* the number the executor is processing
  \* bounds
  crashes, failures

db == <<confirmed, blocks, executed, executions>>
executorVars == <<task, next>>
vars == <<confirmed, blocks, executed, executions, current, lock, queue, outbox,
          pc, job, snap, task, next, crashes, failures>>

-----------------------------------------------------------------------------
(* Blocks. A hash determines the fields of the header except the parent:   *)
(* the parent is always the block this node holds at number - 1.           *)

Hashes == [number : Nat, gap : Int, content : Contents]
Blocks == [number : Nat, gap : Int, content : Contents, parent : Hashes \cup {ZeroHash}]
HashOf(b) == [number |-> b.number, gap |-> b.gap, content |-> b.content]

Genesis == [number |-> 0, gap |-> 0, content |-> GenesisContent, parent |-> ZeroHash]

(* "as ExecutionGap": two's complement truncation. *)
AsGap(n) == ((n + GapModulus \div 2) % GapModulus) - GapModulus \div 2

(* header.number - header.payload_execution_gap as u64. *)
ExecutionNumber(b) == b.number - b.gap

(* The payload state root after a block: the payloads applied to reach it. *)
GenesisRoot == << >>
ApplyPayload(root, b) == Append(root, HashOf(b))

Snapshots == [confirmed : Nat, executed : Nat]
Messages == [kind : {"BlockCommitted", "ExecutionCommitted"}, number : Nat]

(* get_header(block_hash).is_some() *)
IsKnown(b) == \E n \in DOMAIN blocks : HashOf(blocks[n]) = HashOf(b)

(* Faulty variant: an old number is not refused. *)
IsBestOrOlder(b) == b.number <= confirmed + 1

(* The check of Backend::commit_block against NotBest. *)
IsBest(b) == b.number = confirmed + 1 /\ b.parent = HashOf(blocks[confirmed])

(* Backend::build_block: the parent is the block held at number - 1. *)
BuildBlock(number, gap, content) ==
  [number |-> number, gap |-> gap, content |-> content,
   parent |-> HashOf(blocks[number - 1])]

IsExecuted(n) == n \in DOMAIN blocks /\ HashOf(blocks[n]) \in DOMAIN executions

(* The batch of commit_block writes the entries of the block's number. *)
PutBlock(b) ==
  [n \in DOMAIN blocks \cup {b.number} |-> IF n = b.number THEN b ELSE blocks[n]]

Goto(t, l) == pc' = [pc EXCEPT ![t] = l]

-----------------------------------------------------------------------------
(* Init: after init_genesis, block 0 is committed and executed. *)
Init ==
  /\ confirmed = 0
  /\ blocks = [n \in {0} |-> Genesis]
  /\ executed = 0
  /\ executions = [h \in {HashOf(Genesis)} |-> GenesisRoot]
  /\ current = [confirmed |-> 0, executed |-> 0]
  /\ lock = {}
  /\ queue = << >>
  /\ outbox = << >>
  /\ pc = [t \in Threads |-> "idle"]
  /\ job = [c \in Committers |-> Genesis]
  /\ snap = [t \in Threads |-> [confirmed |-> 0, executed |-> 0]]
  /\ task = Genesis
  /\ next = 0
  /\ crashes = 0
  /\ failures = 0

-----------------------------------------------------------------------------
(* Faulty variant: the gap is not compared with max_execution_gap. *)
AnyGapAllowed(gap) == TRUE

(* The comparison of prepare_block: "execution gap exceed max" otherwise. *)
GapAllowed(gap) == ~ gap > MaxExecutionGap

(* A proposer: prepare_block and build_block, from one read of the current *)
(* state.  The gap is compared after it has been cast.                     *)
PrepareBlock(c) ==
  LET number == current.confirmed + 1
      gap == AsGap(number - current.executed)
  IN /\ pc[c] = "idle"
     /\ number <= MaxNumber
     /\ GapAllowed(gap)
     /\ IsExecuted(current.executed)
     /\ \E content \in Contents :
          job' = [job EXCEPT ![c] = BuildBlock(number, gap, content)]
     /\ Goto(c, "commit")
     /\ UNCHANGED <<db, current, lock, queue, outbox, snap, executorVars,
                    crashes, failures>>

(* A syncer: verify_not_repeat and verify_best of a downloaded block.      *)
(* The block comes from a peer, so its gap is whatever the peer built.     *)
VerifyBest(c) ==
  LET number == current.confirmed + 1
  IN /\ pc[c] = "idle"
     /\ number <= MaxNumber
     /\ \E content \in Contents, gap \in 0 .. MaxExecutionGap + 1 :
          LET b == BuildBlock(number, gap, content)
          IN /\ ~ IsKnown(b)
             /\ job' = [job EXCEPT ![c] = b]
     /\ Goto(c, "verify")
     /\ UNCHANGED <<db, current, lock, queue, outbox, snap, executorVars,
                    crashes, failures>>

(* The condition under which verify_execution accepts block b. *)
ExecutionVerified(b) ==
  /\ b.gap >= 1
  /\ b.gap <= MaxExecutionGap
  /\ ExecutionNumber(b) >= ExecutionNumber(blocks[b.number - 1])
  /\ ExecutionNumber(b) <= current.executed

(* verify_execution, on a second read of the current state, then           *)
(* verify_header, which rebuilds the block; any error gives the block up.  *)
VerifyExecution(c) ==
  /\ pc[c] = "verify"
  /\ IF ExecutionVerified(job[c]) /\ IsExecuted(ExecutionNumber(job[c]))
       THEN Goto(c, "commit") /\ UNCHANGED job
       ELSE Goto(c, "idle") /\ job' = [job EXCEPT ![c] = Genesis]
  /\ UNCHANGED <<db, current, lock, queue, outbox, snap, executorVars,
                 crashes, failures>>

(* Faulty variant: the lock covers the checks and the batch only. *)
ReleasedAtOnce(c) == {}

(* The guard lives to the end of commit_block, on_block_committed included. *)
HeldToTheEnd(c) == {c}

(* Faulty variant: the confirmed number is not part of the batch. *)
NumberNotWritten(b) == confirmed

(* What the batch writes as CONFIRMED_NUMBER. *)
NumberWritten(b) == b.number

(* Backend::commit_block up to its write: the lock, the two checks and the *)
(* database batch.                                                         *)
CommitBlock(c) ==
  /\ pc[c] = "commit"
  /\ lock = {}
  /\ ~ IsKnown(job[c])
  /\ IsBest(job[c])
  /\ lock' = HeldToTheEnd(c)
  /\ confirmed' = NumberWritten(job[c])
  /\ blocks' = PutBlock(job[c])
  /\ Goto(c, "readConfirmed")
  /\ UNCHANGED <<executed, executions, current, queue, outbox, job, snap, executorVars,
                 crashes, failures>>

(* CommitBlockError::Duplicated or NotBest: nothing is written. *)
CommitRefused(c) ==
  /\ pc[c] = "commit"
  /\ lock = {}
  /\ IsKnown(job[c]) \/ ~ IsBest(job[c])
  /\ job' = [job EXCEPT ![c] = Genesis]
  /\ Goto(c, "idle")
  /\ UNCHANGED <<db, current, lock, queue, outbox, snap, executorVars, crashes, failures>>

-----------------------------------------------------------------------------
(* update_current_state, run by a committer that holds the commit lock and *)
(* by the executor, which holds no lock: two reads of the database, then   *)
(* the write of the snapshot.                                              *)
ReadConfirmed(t) ==
  /\ pc[t] = "readConfirmed"
  /\ snap' = [snap EXCEPT ![t] = [confirmed |-> confirmed, executed |-> 0]]
  /\ Goto(t, "readExecuted")
  /\ UNCHANGED <<db, current, lock, queue, outbox, job, executorVars, crashes, failures>>

ReadExecuted(t) ==
  /\ pc[t] = "readExecuted"
  /\ snap' = [snap EXCEPT ![t] = [confirmed |-> snap[t].confirmed, executed |-> executed]]
  /\ Goto(t, "writeCurrent")
  /\ UNCHANGED <<db, current, lock, queue, outbox, job, executorVars, crashes, failures>>

WriteCurrent(t) ==
  /\ pc[t] = "writeCurrent"
  /\ current' = snap[t]
  /\ Goto(t, "notify")
  /\ UNCHANGED <<db, lock, queue, outbox, job, snap, executorVars, crashes, failures>>

(* The end of on_block_committed; commit_block returns and the guard is    *)
(* dropped.                                                                *)
NotifyBlockCommitted(c) ==
  /\ pc[c] = "notify"
  /\ outbox' = Append(outbox, [kind |-> "BlockCommitted", number |-> job[c].number])
  /\ lock' = {}
  /\ Goto(c, "insert")
  /\ UNCHANGED <<db, current, queue, job, snap, executorVars, crashes, failures>>

(* on_block_committed fails (the database, the receiver of the messages):  *)
(* the block is written, commit_block returns the error, and Chain inserts *)
(* no task.                                                                *)
CommitError(c) ==
  /\ pc[c] \in {"readConfirmed", "readExecuted", "writeCurrent", "notify"}
  /\ c \in Failing
  /\ failures < MaxFailures
  /\ failures' = failures + 1
  /\ lock' = {}
  /\ job' = [job EXCEPT ![c] = Genesis]
  /\ Goto(c, "idle")
  /\ UNCHANGED <<db, current, queue, outbox, snap, executorVars, crashes>>

(* Faulty variant: a task is dropped when another one is waiting. *)
EnqueueUnlessFull(b) == IF queue = << >> THEN <<b>> ELSE queue

(* ExecuteQueue::insert_task: an unbounded channel. *)
Enqueue(b) == Append(queue, b)

(* Chain::commit_block after Backend::commit_block: no lock is held. *)
InsertTask(c) ==
  /\ pc[c] = "insert"
  /\ queue' = Enqueue(job[c])
  /\ job' = [job EXCEPT ![c] = Genesis]
  /\ Goto(c, "idle")
  /\ UNCHANGED <<db, current, lock, outbox, snap, executorVars, crashes, failures>>

-----------------------------------------------------------------------------
(* Faulty variant: process_task starts over from block 1. *)
FirstNumberOfAll(b) == 1

(* Where process_task starts: at the lowest number not executed, or at the *)
(* task's own number if that is executed already.                          *)
FirstNumber(b) == IF executed + 1 < b.number THEN executed + 1 ELSE b.number

(* The executor takes the next task from its channel. *)
TakeTask ==
  /\ pc[Executor] = "idle"
  /\ queue # << >>
  /\ task' = Head(queue)
  /\ next' = FirstNumber(Head(queue))
  /\ queue' = Tail(queue)
  /\ Goto(Executor, "process")
  /\ UNCHANGED <<db, current, lock, outbox, job, snap, crashes, failures>>

(* The block process_number works on: the task's, or one rebuilt from the  *)
(* database.                                                               *)
CurrentTask == IF next = task.number THEN task ELSE blocks[next]

(* Faulty variant: the payload is executed on the latest state. *)
LatestRoot(b) == executions[HashOf(blocks[executed])]

(* The state root a block's payload is executed on. *)
ParentRoot(b) == executions[b.parent]

(* Faulty variant: EXECUTION_NUMBER is set to the number of the task. *)
TaskNumberExecuted == task.number

(* What the batch of commit_execution writes as EXECUTION_NUMBER. *)
NumberExecuted == next

(* Faulty variant: the current state is not refreshed after an execution. *)
NotifyAtOnce == "notify"

(* commit_execution ends with on_execution_committed. *)
AfterExecution == "readConfirmed"

(* process_number: build_execution from the parent's execution, and the    *)
(* database batch of commit_execution.                                     *)
ProcessNumber ==
  LET b == CurrentTask
  IN /\ pc[Executor] = "process"
     /\ b.parent \in DOMAIN executions
     /\ executions' = [h \in DOMAIN executions \cup {HashOf(b)} |->
                         IF h = HashOf(b) THEN ApplyPayload(ParentRoot(b), b)
                                          ELSE executions[h]]
     /\ executed' = NumberExecuted
     /\ Goto(Executor, AfterExecution)
     /\ UNCHANGED <<confirmed, blocks, current, lock, queue, outbox, job, snap,
                    executorVars, crashes, failures>>

(* An error of process_number ends process_task: start() logs it and drops *)
(* the task.  It may come before the write (the payload, a missing         *)
(* execution of the parent) or from on_execution_committed after it.       *)
ProcessError ==
  /\ pc[Executor] # "idle"
  /\ \/ pc[Executor] = "process" /\ CurrentTask.parent \notin DOMAIN executions
     \/ Executor \in Failing /\ failures < MaxFailures
  /\ failures' = failures + 1
  /\ Goto(Executor, "idle")
  /\ UNCHANGED <<db, current, lock, queue, outbox, job, snap, executorVars, crashes>>

(* The end of on_execution_committed, and the loop of process_task. *)
NotifyExecutionCommitted ==
  /\ pc[Executor] = "notify"
  /\ outbox' = Append(outbox, [kind |-> "ExecutionCommitted", number |-> next])
  /\ IF next < task.number
       THEN next' = next + 1 /\ Goto(Executor, "process")
       ELSE next' = next /\ Goto(Executor, "idle")
  /\ UNCHANGED <<db, current, lock, queue, job, snap, task, crashes, failures>>

-----------------------------------------------------------------------------
(* The process is killed and Chain::new runs again on the database: the    *)
(* queue and the messages are lost, the current state is read afresh.      *)
Crash ==
  /\ crashes < MaxCrashes
  /\ crashes' = crashes + 1
  /\ current' = [confirmed |-> confirmed, executed |-> executed]
  /\ lock' = {}
  /\ queue' = << >>
  /\ outbox' = << >>
  /\ pc' = [t \in Threads |-> "idle"]
  /\ job' = [c \in Committers |-> Genesis]
  /\ snap' = [t \in Threads |-> [confirmed |-> 0, executed |-> 0]]
  /\ task' = Genesis
  /\ next' = 0
  /\ UNCHANGED <<db, failures>>

UpdateCurrentState(t) == ReadConfirmed(t) \/ ReadExecuted(t) \/ WriteCurrent(t)

CommitterStep(c) ==
  \/ CommitBlock(c)
  \/ CommitRefused(c)
  \/ UpdateCurrentState(c)
  \/ NotifyBlockCommitted(c)
  \/ InsertTask(c)

ExecutorStep ==
  \/ TakeTask
  \/ ProcessNumber
  \/ UpdateCurrentState(Executor)
  \/ NotifyExecutionCommitted

Next ==
  \/ \E c \in Proposers : PrepareBlock(c)
  \/ \E c \in Syncers : VerifyBest(c) \/ VerifyExecution(c)
  \/ \E c \in Committers : CommitterStep(c)
  \/ ExecutorStep
  \/ \E c \in Committers : CommitError(c)
  \/ ProcessError
  \/ Crash

Spec == Init /\ [][Next]_vars

(* A thread that has begun a step runs on, and proposers are woken by      *)
(* their scheduler at every block interval; nothing makes a peer send      *)
(* blocks, a step fail or the process crash.                               *)
Fairness ==
  /\ \A c \in Proposers : WF_vars(PrepareBlock(c))
  /\ \A c \in Syncers : WF_vars(VerifyExecution(c))
  /\ \A c \in Committers : WF_vars(CommitterStep(c))
  /\ WF_vars(ExecutorStep)

FairSpec == Spec /\ Fairness

-----------------------------------------------------------------------------
(* Type invariant of the chain's database, shared memory and threads. *)
Labels == {"idle", "verify", "commit", "readConfirmed", "readExecuted",
           "writeCurrent", "notify", "insert", "process"}

TypeOK ==
  /\ confirmed \in Nat
  /\ blocks \in [0 .. confirmed -> Blocks]
  /\ executed \in Nat
  /\ DOMAIN executions \subseteq Hashes
  /\ executions \in [DOMAIN executions -> Seq(Hashes)]
  /\ current \in Snapshots
  /\ lock \in SUBSET Committers
  /\ queue \in Seq(Blocks)
  /\ outbox \in Seq(Messages)
  /\ pc \in [Threads -> Labels]
  /\ job \in [Committers -> Blocks]
  /\ snap \in [Threads -> Snapshots]
  /\ task \in Blocks
  /\ next \in Nat
  /\ crashes \in Nat
  /\ failures \in Nat

(* The block committed at each number is linked to the block before it:    *)
(* whatever the committers built from stale states and in whatever order   *)
(* they reach commit_block, its checks admit only the next block.          *)
ChainLinked ==
  /\ blocks[0] = Genesis
  /\ \A n \in DOMAIN blocks \ {0} :
       /\ blocks[n].number = n
       /\ blocks[n].parent = HashOf(blocks[n - 1])

(* The state a thread reads from current_state is one the database was in  *)
(* or has passed: never ahead of it, and never with an execution ahead of  *)
(* the confirmed block.  prepare_block subtracts the two as unsigned       *)
(* numbers and casts the result.                                           *)
SnapshotOrdered ==
  /\ current.executed <= current.confirmed
  /\ current.confirmed <= confirmed
  /\ IsExecuted(current.executed)

(* The gap b carries is one that the verifier of another node accepts: at  *)
(* least 1, at most max_execution_gap, and the block it names has been     *)
(* executed here.                                                          *)
GapHolds(b) == b.gap \in 1 .. MaxExecutionGap /\ IsExecuted(ExecutionNumber(b))

(* The execution number b was built on was so far back that the cast of    *)
(* the gap has wrapped.                                                    *)
GapWrapped(b) ==
  \E e \in 0 .. b.number - GapModulus \div 2 : IsExecuted(e) /\ b.gap = AsGap(b.number - e)

(* Every committed block carries a valid gap, and a true one: it is built  *)
(* from one snapshot and verified on another, and meanwhile blocks are     *)
(* committed and executed.  The exception is what the check after the cast *)
(* lets through, half the range of an ExecutionGap behind.                 *)
HeaderGapValid == \A n \in 1 .. confirmed : GapHolds(blocks[n]) \/ GapWrapped(blocks[n])

(* The payload state of an executed block is the result of applying the    *)
(* payloads of exactly the blocks up to it, each once and in order, even   *)
(* when tasks arrive out of order and a block is executed again.           *)
ExecutionIsChainPrefix ==
  \A n \in 0 .. confirmed :
    IsExecuted(n) =>
      executions[HashOf(blocks[n])] = [i \in 1 .. n |-> HashOf(blocks[i])]

(* Everything up to EXECUTION_NUMBER is executed: a later task makes up    *)
(* for the ones that failed or were lost before it.                        *)
ExecutedContiguous ==
  /\ executed <= confirmed
  /\ \A n \in 0 .. confirmed : IsExecuted(n) => \A m \in 0 .. n : IsExecuted(m)
  /\ IsExecuted(executed)

(* A thread is in the middle of commit_block or process_task. *)
Busy(t) == pc[t] \in {"readConfirmed", "readExecuted", "writeCurrent", "notify",
                      "insert", "process"}

(* current_state is written without a lock that covers both its writers,   *)
(* so a stale snapshot can overwrite a newer one; yet once no thread is at *)
(* work and no task is left, it says what the database says, provided no   *)
(* execution failed.                                                       *)
QuiescentFresh ==
  (failures = 0 /\ queue = << >> /\ \A t \in Threads : ~ Busy(t))
    => current = [confirmed |-> confirmed, executed |-> executed]

(* A BlockCommitted message is about a block newer than every message sent *)
(* before it: the coordinator and the consensus take them in this order.   *)
MessagesOrdered ==
  \A j \in 1 .. Len(outbox) :
    outbox[j].kind = "BlockCommitted" =>
      \A i \in 1 .. j - 1 : outbox[i].number < outbox[j].number

(* "Ensure execution is committed one by one" (process_task): the          *)
(* persisted EXECUTION_NUMBER moves to the next block or stays.            *)
ExecutedOneByOne ==
  [][executed' = executed \/ executed' = executed + 1]_executed

(* A block this node commits passes verify_execution against its parent:   *)
(* the execution number it names is not below its parent's.                *)
ExecutionNumberMonotone ==
  \A n \in 1 .. confirmed :
    ExecutionNumber(blocks[n]) >= ExecutionNumber(blocks[n - 1])

(* While no execution fails and the process is not killed, every block     *)
(* that is committed is executed: no task is lost, whatever the threads    *)
(* overwrite of each other's current_state.                                *)
CommittedIsExecuted ==
  \A n \in 1 .. MaxNumber : (confirmed = n) ~> IsExecuted(n)

(* "The former failed task will be processed again" (process_task): a      *)
(* committed block is executed in the end although its task failed or was  *)
(* lost.  At MaxNumber no block follows that would bring a further task,   *)
(* so the model says nothing there.                                        *)
FormerTaskProcessedAgain ==
  \A n \in 1 .. MaxNumber - 1 :
    (confirmed = n) ~> (IsExecuted(n) \/ confirmed = MaxNumber)
=============================================================================
