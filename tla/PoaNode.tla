------------------------------ MODULE PoaNode ------------------------------
(***************************************************************************)
(* A node that proposes blocks (PoaStream::work of consensus/poa, with     *)
(* prepare_block of consensus/base), receives blocks from its peers        *)
(* (verify_body and on_verify_ok of the coordinator) and takes             *)
(* transactions into its pool, all at once and on one chain.               *)
(*                                                                         *)
(* The pool is TxPool.  The chain is reduced to what Chain establishes: an *)
(* append-only sequence of blocks, a commit that refuses all but the next  *)
(* block, and a current_state that its two writers may set back.           *)
(***************************************************************************)
EXTENDS TxPool

CONSTANTS
  Worker,       \* the consensus stream
  Syncer,       \* the coordinator
  Until,        \* by transaction: witness.until
  MaxUntilGap,  \* system_meta.max_until_gap
  MaxNumber,    \* bound: the highest block number
  MaxBlockTxs   \* bound: the transactions of a block from a peer

ASSUME PoaNodeAssumption ==
  /\ Removers = {Worker, Syncer}
  /\ Worker # Syncer
  /\ Until \in [Txs -> Nat]
  /\ MaxUntilGap \in Nat
  /\ MaxNumber \in Nat
  /\ MaxBlockTxs \in Nat

VARIABLES
  chain,    \* the transactions of the block of each number, in order
  lock,     \* the holder of commit_block_lock, if any
  current,  \* current_state.confirmed_number
  reading,  \* the executor's snapshot of the confirmed number, if any
  pc,       \* where Worker and Syncer are
  number,   \* the number of the block each of them is at
  rest,     \* the transactions each has yet to validate
  chosen,   \* the transactions each has validated
  invalid   \* the transactions prepare_block found invalid

nodeVars == <<chain, lock, current, reading, pc, number, rest, chosen, invalid>>
vars == <<poolVars, nodeVars>>

Committers == {Worker, Syncer}
OnChain == UNION {Elements(chain[n]) : n \in 1 .. Len(chain)}
SeqsUpTo(n) == UNION {[1 .. m -> Txs] : m \in 0 .. n}
Goes(c, l) == pc' = [pc EXCEPT ![c] = l]

(* The handler of c returns; its local variables are gone. *)
Returns(c) ==
  /\ Goes(c, "idle")
  /\ number' = [number EXCEPT ![c] = 0]
  /\ rest' = [rest EXCEPT ![c] = << >>]
  /\ chosen' = [chosen EXCEPT ![c] = << >>]

NodeInit ==
  /\ Init
  /\ chain = << >>
  /\ lock = {}
  /\ current = 0
  /\ reading = {}
  /\ pc = [c \in Committers |-> "idle"]
  /\ number = [c \in Committers |-> 0]
  /\ rest = [c \in Committers |-> << >>]
  /\ chosen = [c \in Committers |-> << >>]
  /\ invalid = {}

-----------------------------------------------------------------------------
(* The part of validate_transaction that does not depend on the executor:  *)
(* until against current_state, duplication against the database.          *)
MayBeValid(tx) ==
  /\ Until[tx] <= current + MaxUntilGap
  /\ Until[tx] > current
  /\ tx \notin OnChain

(* validate_transaction: executor.validate_tx may refuse the rest. *)
Answers(tx) == IF MayBeValid(tx) THEN BOOLEAN ELSE {FALSE}

(* PoaStream::work: prepare_block reads current_state ... *)
Work ==
  /\ pc[Worker] = "idle"
  /\ at[Worker] = "idle"
  /\ number' = [number EXCEPT ![Worker] = current + 1]
  /\ Goes(Worker, "clone")
  /\ UNCHANGED <<poolVars, chain, lock, current, reading, rest, chosen, invalid>>

(* ... clones the queue ... *)
CloneQueue ==
  /\ pc[Worker] = "clone"
  /\ rest' = [rest EXCEPT ![Worker] = queue]
  /\ Goes(Worker, "validate")
  /\ UNCHANGED <<poolVars, chain, lock, current, reading, number, chosen, invalid>>

(* ... validates every transaction of it ... *)
ValidateQueued ==
  LET tx == Head(rest[Worker])
  IN /\ pc[Worker] = "validate"
     /\ rest[Worker] # << >>
     /\ \E valid \in Answers(tx) :
          IF valid
            THEN /\ chosen' = [chosen EXCEPT ![Worker] = Append(@, tx)]
                 /\ UNCHANGED invalid
            ELSE /\ invalid' = invalid \cup {tx}
                 /\ UNCHANGED chosen
     /\ rest' = [rest EXCEPT ![Worker] = Tail(@)]
     /\ UNCHANGED <<poolVars, chain, lock, current, reading, pc, number>>

(* Faulty variant: an invalid transaction is left out and stays queued. *)
InvalidStays == {}

(* What prepare_block takes off the pool. *)
InvalidRemoved == invalid

(* ... and removes the invalid ones from the pool. *)
RemoveInvalid ==
  /\ pc[Worker] = "validate"
  /\ rest[Worker] = << >>
  /\ CallRemove(Worker, InvalidRemoved)
  /\ invalid' = {}
  /\ Goes(Worker, "commit")
  /\ UNCHANGED <<chain, lock, current, reading, number, rest, chosen>>

-----------------------------------------------------------------------------
(* The coordinator has downloaded a block; verify_best has read            *)
(* current_state.  verify_body refuses a transaction that occurs twice in  *)
(* the list of meta or of payload transactions; which list a transaction   *)
(* belongs to is decided by is_meta_call, so the lists are disjoint.       *)
Downloaded ==
  /\ pc[Syncer] = "idle"
  /\ at[Syncer] = "idle"
  /\ current < MaxNumber
  /\ number' = [number EXCEPT ![Syncer] = current + 1]
  /\ \E txs \in SeqsUpTo(MaxBlockTxs) :
       /\ \A i, j \in 1 .. Len(txs) : txs[i] = txs[j] => i = j
       /\ rest' = [rest EXCEPT ![Syncer] = txs]
  /\ Goes(Syncer, "verify")
  /\ UNCHANGED <<poolVars, chain, lock, current, reading, chosen, invalid>>

(* verify_transaction; the first invalid one gives the block up. *)
VerifyTransaction ==
  LET tx == Head(rest[Syncer])
  IN /\ pc[Syncer] = "verify"
     /\ rest[Syncer] # << >>
     /\ \E valid \in Answers(tx) :
          IF valid
            THEN /\ chosen' = [chosen EXCEPT ![Syncer] = Append(@, tx)]
                 /\ rest' = [rest EXCEPT ![Syncer] = Tail(@)]
                 /\ UNCHANGED <<pc, number>>
            ELSE Returns(Syncer)
     /\ UNCHANGED <<poolVars, chain, lock, current, reading, invalid>>

VerifiedBody ==
  /\ pc[Syncer] = "verify"
  /\ rest[Syncer] = << >>
  /\ Goes(Syncer, "commit")
  /\ UNCHANGED <<poolVars, chain, lock, current, reading, number, rest, chosen, invalid>>

-----------------------------------------------------------------------------
(* prepare_block: "execution gap exceed max".  The model takes this way out *)
(* at MaxNumber too, where no further block is committed.                   *)
GapExceeded ==
  /\ pc[Worker] = "commit"
  /\ at[Worker] = "idle"
  /\ Returns(Worker)
  /\ UNCHANGED <<poolVars, chain, lock, current, reading, invalid>>

(* Faulty variant: commit_block takes a block of any number. *)
AnyIsBest(c) == TRUE

(* commit_block: the block is the next one.  Its parent is then the last   *)
(* block, see ChainLinked.                                                 *)
IsNext(c) == number[c] = Len(chain) + 1

(* commit_block: the batch. *)
CommitBlock(c) ==
  /\ pc[c] = "commit"
  /\ at[c] = "idle"
  /\ lock = {}
  /\ number[c] <= MaxNumber
  /\ IsNext(c)
  /\ chain' = Append(chain, chosen[c])
  /\ lock' = {c}
  /\ Goes(c, "update")
  /\ UNCHANGED <<poolVars, current, reading, number, rest, chosen, invalid>>

(* Faulty variant: the coordinator removes after every refusal. *)
AlwaysRemoves(c) == c = Syncer

(* on_verify_ok: the transactions of a duplicated block are removed from   *)
(* the pool, those of a block that is not the best are not.                *)
RemovesRefused(c) ==
  c = Syncer /\ number[c] <= Len(chain) /\ chain[number[c]] = chosen[c]

(* commit_block: Duplicated or NotBest; work returns the error. *)
CommitRefused(c) ==
  /\ pc[c] = "commit"
  /\ at[c] = "idle"
  /\ lock = {}
  /\ ~ IsNext(c)
  /\ IF RemovesRefused(c)
       THEN Goes(c, "remove") /\ UNCHANGED <<number, rest, chosen>>
       ELSE Returns(c)
  /\ UNCHANGED <<poolVars, chain, lock, current, reading, invalid>>

(* commit_block: on_block_committed, still under the lock. *)
UpdateCurrent(c) ==
  /\ pc[c] = "update"
  /\ current' = Len(chain)
  /\ lock' = {}
  /\ Goes(c, "remove")
  /\ UNCHANGED <<poolVars, chain, reading, number, rest, chosen, invalid>>

(* work and on_verify_ok: txpool_remove_transactions of the block. *)
RemoveCommitted(c) ==
  /\ pc[c] = "remove"
  /\ CallRemove(c, Elements(chosen[c]))
  /\ Returns(c)
  /\ UNCHANGED <<chain, lock, current, reading, invalid>>

-----------------------------------------------------------------------------
(* update_current_state of the execute queue's task, which takes no lock:  *)
(* it reads the confirmed number and writes current_state later.  How      *)
(* often it does so is left open, as a block may be executed again.        *)
ExecutorRead ==
  /\ reading = {}
  /\ chain # << >>
  /\ reading' = {Len(chain)}
  /\ UNCHANGED <<poolVars, chain, lock, current, pc, number, rest, chosen, invalid>>

ExecutorWrite ==
  /\ reading # {}
  /\ current' \in reading
  /\ reading' = {}
  /\ UNCHANGED <<poolVars, chain, lock, pc, number, rest, chosen, invalid>>

-----------------------------------------------------------------------------
(* The pool's own steps, with the chain's answer to validate_transaction. *)
InsertGoesOn(i) ==
  \/ CheckPoolExist(i)
  \/ \E valid \in Answers(arg[i]) : ValidateTransaction(i, valid)
  \/ MapInsert(i)
  \/ SendToBuffer(i)
  \/ OnTxInserted(i)

PoolStep ==
  /\ \/ \E i \in Inserters, tx \in Txs : CheckCapacity(i, tx)
     \/ \E i \in Inserters : InsertGoesOn(i)
     \/ MoveToQueue
     \/ \E r \in Removers : RemoveStep(r)
  /\ UNCHANGED nodeVars

NodeNext ==
  \/ PoolStep
  \/ Work \/ CloneQueue \/ ValidateQueued \/ RemoveInvalid \/ GapExceeded
  \/ Downloaded \/ VerifyTransaction \/ VerifiedBody
  \/ \E c \in Committers :
       \/ CommitBlock(c) \/ CommitRefused(c) \/ UpdateCurrent(c) \/ RemoveCommitted(c)
  \/ ExecutorRead \/ ExecutorWrite

NodeSpec == NodeInit /\ [][NodeNext]_vars

WorkerStep ==
  \/ Work \/ CloneQueue \/ ValidateQueued \/ RemoveInvalid \/ GapExceeded
  \/ CommitBlock(Worker) \/ CommitRefused(Worker)
  \/ UpdateCurrent(Worker) \/ RemoveCommitted(Worker)

(* The scheduler wakes the worker at every block interval, a handler that  *)
(* has begun runs to its end, and BufferStream is always served.           *)
FairNodeSpec ==
  /\ NodeSpec
  /\ WF_vars(WorkerStep)
  /\ WF_vars(MoveToQueue /\ UNCHANGED nodeVars)
  /\ \A i \in Inserters : WF_vars(InsertGoesOn(i) /\ UNCHANGED nodeVars)
  /\ \A r \in Removers : WF_vars(RemoveStep(r) /\ UNCHANGED nodeVars)
  /\ \A c \in Committers : WF_vars(UpdateCurrent(c))

-----------------------------------------------------------------------------
(* No transaction is committed twice, neither in one block nor in two,     *)
(* although the worker validates it against a chain that the coordinator   *)
(* extends meanwhile and the pool may hold it twice.                       *)
NoTxTwice ==
  \A n, m \in 1 .. Len(chain) :
    \A i \in 1 .. Len(chain[n]), j \in 1 .. Len(chain[m]) :
      chain[n][i] = chain[m][j] => n = m /\ i = j

(* How often tx is in the queue or on its way to it. *)
Copies(tx) ==
  Cardinality({i \in 1 .. Len(queue) : queue[i] = tx})
    + Cardinality({i \in 1 .. Len(buffer) : buffer[i] = tx})
    + Cardinality({i \in Inserters : at[i] = "send" /\ arg[i] = tx})

(* remove can miss a transaction that is still in the buffer, and then the *)
(* map no longer protects the queue from a second copy; but that happens   *)
(* only to transactions the chain already refuses as duplicates.           *)
CopiesAreOnChain == \A tx \in Txs : Copies(tx) > 1 => tx \in OnChain

(* No block contains a transaction past the number it is valid until:      *)
(* validate_transaction refuses it with "Exceed min until".                *)
ExpiredNotPacked ==
  \A n \in 1 .. Len(chain) : \A tx \in Elements(chain[n]) : Until[tx] >= n

(* A committed transaction that the pool still holds (an insert that had   *)
(* validated it before, a removal that came too early) leaves the queue.   *)
CommittedLeavesQueue ==
  \A tx \in Txs :
    (tx \in OnChain /\ tx \in Elements(queue)) ~> (tx \notin Elements(queue))
=============================================================================
