# A TLA+ model of finastate

finastate is a permissioned blockchain node written in Rust. This directory
models the parts of it whose correctness depends on the order in which threads,
messages, failures and restarts happen, checks them with TLC on small instances
and proves the most important results with TLAPS for all values of the constants.

Source paths below are relative to `src/core/node/`, unless they begin with `module/`
(`src/core/module/`).

## 1. Inventory

| part | state | operations | who calls it |
|---|---|---|---|
| chain `chain/src/backend.rs`, `lib.rs` | the database (confirmed number, headers, executions, execution number), `current_state`, `commit_block_lock`, the message channel | `build_block`, `commit_block`, `commit_execution`, `update_current_state`, `validate_transaction`, restart | consensus streams, coordinator, execute queue, txpool |
| execute queue `chain/src/execute.rs` | an unbounded channel, one consumer task | `insert_task`, `process_task`, `process_number` | `Chain::commit_block` |
| txpool `txpool/src/lib.rs` | a concurrent map, a queue behind a lock, a buffer channel | `insert`, `remove`, the `BufferStream` task | RPC, coordinator, consensus |
| consensus support `consensus/base/src/support.rs` | none | `prepare_block` and forwarding getters | every consensus |
| PoA `consensus/poa/src/lib.rs` | the authority, the scheduler | `work`, `verify_proof` | its scheduler, coordinator |
| Raft `consensus/raft/src/` | term, vote, log, commit index (persisted); role, votes, match indices | append entries, request vote, proposals, timers | peers, timers, chain messages |
| HotStuff `consensus/hotstuff/src/` | view, prepare and locked certificates (persisted); votes, proposal | prepare, pre-commit, commit, decide, new view, timeout certificates | peers, timers, chain messages |
| verifier `coordinator/src/verifier.rs` | none | `verify_block` in the order data, repetition, best, execution, proof, body, header | sync |
| sync `coordinator/src/sync.rs`, `stream.rs` | pending blocks by number with a download state, peers with requests, propagated transactions | announce, request, response, timer, verification and commit, propagation | network, chain and txpool messages |
| peer manager `peer-manager/src/lib.rs` | active and inactive peers, slots, scores, the reserved set | discovered, dropped, incoming, report, reserved changes | network, coordinator |
| network `network/src/` | `Protocol`: the connections of each peer, opened or not, pending dials; a handler per connection | the peer manager's messages, connections established and closed, commands and events of handlers | libp2p, peer manager |
| executor `executor/src/` | a context: the state of the last block, the buffer of the block and that of the transaction, events | `execute_txs`, apply and drain of the buffers, `commit_block` | consensus support, execute queue |
| vm `vm/src/`, contract module `module/contract/` | the nested contexts of a call, each with an overlay | host calls: storage, transfer, pay, nested and error-aware nested calls, create | executor |
| balance module `module/balance/` | balances | `transfer` | executor, contracts |
| poa, raft, hotstuff, contract modules `module/` | administrators with weights and a threshold, the authority or the code, the pending proposals | propose and vote on administrators, authorities, code | executor |
| statedb, db, crypto, api, service, binary | see PROJECT.json | | |

What is hard in this code:

* **One chain, several writers.** A consensus stream and the coordinator may
  call `Chain::commit_block` at the same time. The commit itself is under a lock, but
  the decision what to commit is taken before, from an unlocked `current_state`, and
  the execution task is queued after, when the lock is gone.
* **A shared snapshot with two writers.** `update_current_state` reads the
  database twice and writes `current_state` later. Committers run it under the commit
  lock, the executor without it.
* **Execution lags behind.** The header of a block commits to the execution of
  an earlier one (`payload_execution_gap`, an `i8`); a gap above
  `max_execution_gap` stops the chain. The queue of executions is in memory only.
* **A pool without a lock over its steps.** `insert` checks, validates, writes
  the map, sends to a buffer; `remove` filters queue and map in two steps.
* **Messages and restarts** in sync, Raft and HotStuff: late, short or lost
  answers, persisted state written in several steps, certificates and votes that
  come after the view or the term they belong to.
* **A commit index that comes before its entries.** A Raft follower believes the
  leader's commit index before it compares the logs.
* **Counters beside maps, answers that cross.** The peer manager counts slots beside
  the map of active peers; its answers, the remote's substreams and the end of the
  connection reach `Protocol` and the handlers in any order.
* **Overlays that fail separately.** What a transaction or a contract writes goes
  through stacked buffers, each applied or drained by itself.
* **Votes for something that was replaced.** Proposals, administrators and what
  they govern change between a vote's sending and its counting.

The full list of hazards, each at its line and with the properties that would
catch it, is in PROJECT.json.

## 2. Modules

| module | models | extends / instantiates |
|---|---|---|
| `Chain` | chain, execute queue, and the way a block gets there (`prepare_block`, `verify_block`) | |
| `Ledger` | abstract: an append-only ledger with a payload state applied in order | |
| `ChainLedger` | the refinement mapping from `Chain` to `Ledger` | EXTENDS `Chain`, INSTANCE `Ledger` |
| `ChainProofs` | the theorems about them | EXTENDS `ChainLedger` |
| `TxPool` | the pool, its environment open | |
| `PoaNode` | a proposing and syncing node: the pool composed with the chain as `Chain` establishes it | EXTENDS `TxPool` |
| `Propagation` | the coordinator's propagation of transactions, composed with the pool | EXTENDS `TxPool` |
| `TxPoolProofs` | the theorems about the pool and its two compositions | EXTENDS `Propagation`, `PoaNode` |
| `Sync`, `SyncProofs` | the coordinator's download and verification of blocks, with its chain and peers; its theorems | |
| `Raft`, `RaftProofs` | the Raft consensus of a set of nodes, their storage, chains and connections; its theorems | |
| `HotStuff`, `HotStuffProofs` | the HotStuff consensus of a set of weighted validators; its theorems | |
| `PeerManager` | the peer manager, as functions of its state | |
| `Network` | `Protocol`, the handlers and libp2p's connections, with the peer manager | EXTENDS `PeerManager` |
| `Executor`, `ExecutorProofs` | a block's transactions, contracts and nested calls over the state; its theorems | |
| `Governance`, `GovernanceProofs` | the votes of the poa, raft, hotstuff and contract modules; their theorems | |
| `FiniteLemmas` | least numbers, minimal sets, maxima and sums over finite sets, remainders, for the proofs | |
| `MCChain`, `MCTxPool`, `MCPoaNode`, `MCPropagation`, `MCSync`, `MCRaft`, `MCHotStuff`, `MCNetwork`, `MCExecutor`, `MCGovernance` | the instances for TLC | |

A definition that is commented as a faulty variant is a plausible bug in the
definition that follows it; it is no part of the specification. Each property
is checked to be violated when such a variant takes the definition's place.

### Chain

*State.* `confirmed`, `blocks`, `executed`, `executions` are the database
columns; the rest is memory and is lost in `Crash`. A block is its number, its
execution gap, its parent's hash and a `content` that stands for everything else.
Hashes are injective by construction. The hash record omits the parent, because a
block is always built on the block the node holds at `number - 1`. A payload state
root is the sequence of blocks whose payloads were applied.

*Threads.* `Proposers` and `Syncers` are tasks that call `commit_block`,
`Executor` is the consumer of the execute queue. Every step that another thread can
see is an action: `PrepareBlock` (one read of `current_state`), `VerifyBest` and
`VerifyExecution` (two reads), `CommitBlock` / `CommitRefused` (the lock, the checks,
the batch, which RocksDB writes atomically), `ReadConfirmed`, `ReadExecuted`,
`WriteCurrent` (the steps of `update_current_state`), `NotifyBlockCommitted` (the
message; the lock is released), `InsertTask` (after the lock), and for the executor
`TakeTask`, `ProcessNumber`, the three steps of `update_current_state` and
`NotifyExecutionCommitted`. `CommitError` and `ProcessError` are the error paths after
a write and anywhere in a task; `Crash` is a kill and a restart on the database.
Blocks that a peer sends have any gap, so that every branch of `verify_execution` is
taken.

*Left out.* The transactions themselves (see `PoaNode`), the meta state, which is
part of the block, and consensus proofs.

### TxPool and PoaNode

`TxPool` has one action per step of `insert` and of `remove` and one for
`BufferStream`. Its environment is arbitrary: any transaction may be found valid or
not, any set may be removed.

`PoaNode` closes the environment. `Work`, `CloneQueue`, `ValidateQueued`,
`RemoveInvalid`, `GapExceeded` are `prepare_block` as called by `PoaStream::work`;
`Downloaded`, `VerifyTransaction`, `VerifiedBody` are the coordinator's
verification; both then commit, refresh `current_state` and remove the block's
transactions from the pool. The pool's validation asks this chain.
`ExecutorRead` and `ExecutorWrite` stand for the unlocked `update_current_state` of
the execute queue. The chain is simpler than `Chain`, by what `Chain` establishes: a
commit appends the next block or is refused (`ChainLinked`), and
`current_state.confirmed_number` is a value the database had (`SnapshotOrdered`).
`executor.validate_tx` may refuse anything.

### Propagation

The coordinator's stream over the pool: `OnProtocolOpen` sends a new peer the queue
(`InitialTxs`), `OnTxpoolMessage` sends what a TxInserted message names to all, if the
map still has it, and `OnTxPropagate` inserts what a peer sent, through the steps of
`TxPool` and with the stream busy meanwhile. `known` is `known_txs`; it is an LRU cache
in the code, whose evictions only repeat messages. Whether a chain is too far
behind (`should_tx_propagate`) may go either way. `skipped` is history: what the pool held
when a peer connected and `InitialTxs` left out.

### Sync

*State.* `confirmed`, `executed`, `current`, `chainRx`: the node's chain, the
`current_state` that the coordinator reads, and the chain's messages to the coordinator;
`refreshing`, the threads that have written the database and not yet `current_state`.
`peers`, `pending`, `requests`: `peers`, `pending_blocks` and the requests on their way. A
pending block is Seen, Downloading under a request id, or Downloaded. `pc` is how far
`maintain_downloaded` is, `left` is history: the blocks that a handler has left with nobody
to move them on.

*Actions.* The handlers of the coordinator's stream: `OnProtocolOpen`,
`OnProtocolClose`, `OnBlockAnnounce`, `OnBlockResponse`, `OnBlockRequestTimerTrigger`,
`OnBlockCommitted`, `OnExecutionCommitted`. All but `OnBlockCommitted` end with `sync`
(`SyncWith`): `maintain_new` and the requests for groups of successive Seen blocks. A response
and an execution first run the loop of `maintain_downloaded`, and the chain's other threads
run between its steps: `VerifyNotRepeat` (the database), `VerifyBlock` (the checks against
`current_state`, and the commit), `EndDownloaded`. The loop ends at a block that waits, is
discarded, or fails, which reports the peer and resets its downloaded blocks.

`ConsensusCommit` and `Execute` are the chain's other writers, and `UpdateCurrentState` their
later write of `current_state`: an executor that has read the confirmed number before
a commit sets it back. A response (`Answers`) covers what was requested or any shorter
part of it, at least one block, because the peer reads its own `current_state`; the peers in
`Forked` have blocks that do not verify and answer with any. `OnBlockResponse` leaves
what was left out Downloading, and the peer vacant, as the code does. `LoseRequest` is a
peer that never answers. Blocks are numbers.

*Coarser than the code.* A handler outside the loop reads `current_state` once. The coordinator's
own commit is one step, since it holds `commit_block_lock` and runs in the handler;
the executor's write to the database and its read of the confirmed number are
one step, and it reads the executed number when it writes `current_state` (nobody else
changes it). A block is executed after its commit has returned, as its task is inserted
then. Every header has the largest execution gap. Errors of the database are left out,
and so is `SyncLatencyUpdated`: `latency` may wrap, but Raft only delays an election by it
(`consensus/raft/src/stream.rs:236`) and nothing else reads it.

### Raft

*State.* `term`, `votedFor`, `commit`, `log`, `base` are persisted (`stream/state.rs`,
`storage.rs`); roles, votes, match indices and the proposal in work are lost in
`Crash`. `ballots` and `won` are history. Between two nodes messages keep their order, as on one
libp2p substream, and are lost together in `Disconnect` or `Crash`; messages of
different nodes overtake each other freely.

*Actions.* `StartElection`, `OnReqRequestVote` and `OnResRequestVote` (elections);
`Replicate`, `OnReqAppendEntries`, `OnResAppendEntries` (the replication tasks and
their answers); `Work` (a leader's proposal), `OnReqRequestProposal`,
`OnResRequestProposal` (the transfer of the block); `OnLogUpdated` (commit to the
chain), `OnBlockCommitted` (the storage's `refresh`), `Sync` (a block taken from a peer by
the coordinator), `Disconnect`, `Crash`. `Crash` also stands for a stop between the writes
of the term and of the vote.

### HotStuff

*State.* View, base, prepare and locked certificate are persisted; the phase and
the proposal of a leader are not. Messages stay in `msgs`, so they come late, in any
order or never, and what a node has collected is any part of what was sent to it.
A leader's own NewView is no message: `send_new_view_to_self` collects it when the view
begins, after the pending ones, so it is `own` of the LeaderState (`lead`) and no older
one of the same node can take its place.

*Actions.* `CreateProposal` and `ReuseProposal` (a leader with a quorum of NewView
messages), `OnRemoteProposal` (the proposal fetched from another validator), one action per
phase for the leader (`LeaderPrepare`, `LeaderPreCommit`, `LeaderCommit`) and the replica
(`OnPrepare`, `OnPreCommit`, `OnCommit`, `OnDecide`), `OnTimeout`, `OnTimeoutQuorum` and
`OnTimeoutDecide` (timeout certificates), `OnBlockCommitted`, `Sync`, `Restart`, and
`UnexpectedVote`: a vote that reaches a leader without a proposal ends its task with
a panic (`stream/state.rs:604`).

### PeerManager and Network

`PeerManager` has an operator for every function of `peer-manager/src/lib.rs`, from
one state to the next. `Network` composes it with `Protocol`, which keeps for each peer
lists of connections, opened or not, and with the handler of each connection, which
has a queue of commands and one of events. `PollOut` and `PollIn` take a message of the
peer manager and one to it; the other actions are the callbacks that libp2p makes
and the steps of handlers. libp2p is external: it dials a peer unless it is
connected to it, and reports every connection and its end once.

### Executor

*State.* `db` is the trie after the last block, `buffer` and `txBuffer` the block's
and the transaction's writes, `levels` the nested contexts with their overlays, `frames`
the running calls. A level, once created, is used for later calls at its depth in the
same transaction, as the code does. `receipts` and `logged` sum up the Transferred
events.

*Actions.* A transaction of the balance or the contract module (`TransferTx`,
`CreateTx`, `ExecuteTx`) or of another one (`MetaTx`); what contract code may ask of
the host, in any order (`StorageWrite`, `BalanceTransfer`, `Pay`, `ContractExecute`,
`ContractNotFound`, `NestDepthExceeded`, `ErrorReturn`); the ends (`NestedReturn`,
`Return`); and the block (`EndBatch`, `Discard`, `CommitBlock`). The contracts are wasm
modules run by wasmer; their code is any sequence of host calls.

### Governance

A board is the chain, under the module of its consensus, or a contract. `UpdateAdmin`,
`UpdateAuthority`, `UpdateCode` and their `...Vote` are transactions that succeed (a failed
one changes nothing, see `Executor`). The raft and hotstuff modules have actions of
their own, since their code does. Weights are `u32` and wrap, as they do in a build
without overflow checks; the model uses two bits. `made`, `cast` and `passed` are
history.

## 3. Runs

| run | checks | bounds |
|---|---|---|
| `chain` | `TypeOK`, `ChainLinked`, `SnapshotOrdered`, `HeaderGapValid`, `ExecutionIsChainPrefix`, `ExecutedContiguous`, `QuiescentFresh`, `MessagesOrdered`, and `ImplementsLedger` as a refinement | 1 proposer, 1 syncer, 3 blocks, largest gap 2, 1 crash, 1 failure of the syncer or the executor |
| `chain_live` | `CommittedIsExecuted` | 1 proposer, 1 syncer, 3 blocks, no failure |
| `propagation` | `NoOrphanInMap`, `CapacityOvershoot`, `EveryTxAnnounced` of the pool, `QueuedIsPropagated` | the coordinator, another inserter, 1 remover, 1 peer, 3 transactions, capacity 1, symmetric |
| `poa_node` | `NoTxTwice`, `CopiesAreOnChain`; `CommittedLeavesQueue`, `InMapIsQueuedOrRemoved` (liveness) | 1 transaction, 1 inserter, 3 blocks |
| `sync` | `TypeOK`, `HolesCommitted`, `DownloadAwaited`; `CatchUp` (liveness) | 2 peers with 3 and 4 blocks, one connected at a time, the second with blocks that do not verify; 4 blocks, of which the consensus commits up to 3, 3 pending, groups of 2, gap 1, 1 fault |
| `raft` | `ElectedOnce`, `VoteKept` | 3 nodes, 2 terms, 1 block, 1 fault, elections while up to 2 links are busy, 2 replication requests or elections with a busy link, symmetric |
| `raft_fork` | `Agreement`, violated | 3 nodes, 2 terms, 1 block, 4 replication requests, no fault, elections when no link is busy, symmetric |
| `hotstuff` | `TypeOK`, `Agreement`, `ViewsGrow` | 3 validators of weights 2, 1, 1, 1 height, 2 different blocks, 1 timeout or restart, so up to 3 views |
| `network` | `TypeOK`, `SlotsCounted`, `ReservedOnlyKept`, `OpenedAlive`, `HandlerSupervised` | 2 peers, 1 incoming and 1 outgoing slot, 2 connections, 2 failures or requests from outside |
| `executor` | `TypeOK`, `AccountedUnnested`, `RolledBack`, `OwnFunds` | 2 users, 2 contracts, balances up to 3, nesting of 3, 2 transactions, 4 host calls |
| `executor_nested` | `AccountedNested`, violated | the same |
| `governance` | `IdsNameOne`, `PassedOnce`, `ChangedBySupport` | 3 members, the boards of the three consensus modules and a contract, 3 proposals, weights of 2 bits, items symmetric |

Two committers with three blocks are enough for one thread to overtake the other by
two blocks, for tasks to be queued in the wrong order and for a stale snapshot to be
two commits old; a gap of 2 is reached and exceeded. Capacity 1 is the smallest at
which the pool is both empty and full. In `MCPoaNode`, `t1` is valid up to block 2
of 3, so that expiry happens. In `sync` a request for two blocks can be
answered with one; after `current_state` was set back from 2 to 1, blocks 2 to 4 are
pending although the chain has block 2, and the consensus' block 3 is then taken from
their middle, which needs the fourth block and three pending ones. A closed connection, the one
fault, lets the other peer take over; two connected peers and two faults in a row are
configurations of their own (`SyncPeers`, `SyncLive` below). Two Raft terms and one
fault are enough for a second candidate and for a stop between the two writes of a
vote. Elections may start while two links are busy (`MaxLate`), so that a candidate's second
election meets the votes of its first, and requests and answers of two elections overtake
each other; the mutant of `ElectedOnce`, which counts an answer to an older candidacy,
is caught for that reason. `MaxSends` bounds these elections together with the
replication requests; the theorem has none of these bounds. Two HotStuff blocks of the same height compete, in different views after a
timeout or in the same one after a restart, and a quorum (3 of the weight 4) needs
the heavy validator and one of the others. With two connections a peer can have two at once, or
reconnect after one. Four host calls are a nested call that writes, transfers and fails, and two
transactions let the second one see what the first has left. A sum of two weights
wraps at two bits. Deadlock checking is off because every instance ends at its bounds.

`TypeOK` of `Raft` and `Governance` documents their state and is no part of a run; that of
`Governance` is proved. Proposal ids are natural numbers in `Governance` and `u32` in the
code, which would take 2^32 proposals to matter.

What the properties mean, beside those of the chain and the pool:

* `QueuedIsPropagated`: a transaction that can be packed is known to every connected
  peer, or the message that makes the coordinator send it is on its way. The
  exception, `skipped`, is real: when TxInserted is taken before `BufferStream` has moved
  the transaction to the queue, a peer that connects in between finds it in neither
  place and is never sent it.
* `HolesCommitted`: `maintain_new` appends above the last pending block, so a block
  that the chain lacks and that is missing between two pending ones would never be requested.
  Holes do arise: after `current_state` was set back, blocks that the chain has are pending
  again, and the consensus' next block is taken from their middle. What is missing is then
  always on the chain. `DownloadAwaited`: a Downloading block has a connected peer and
  a running timer, or it is in `left`, because an answer came without it.
  `CatchUp`: the node reaches every connected peer's number or stops in one of three ways,
  each of which happens: at a block in `left` that a short answer has left out (no timer
  matches it, `sync.rs:250`); at a downloaded block behind one that was discarded, as the loop
  ends there and only another response or execution starts it again; or after it has reported a
  peer, which ends the connection, and which a stale `current_state` brings upon an honest one.
* `ElectedOnce`, `VoteKept`: election safety, and the persistence it rests on. `ElectedOnce` is
  about the term of the candidacy: nobody else wins its votes. That at most one leader acts in a
  term does not follow and is false (`RaftActing.cfg` below). The
  model has the code's own vote rule (both the index and the term of the
  candidate's last entry must be at least the voter's) and the answers that carry
  an old term.
* `Agreement` of `HotStuff` holds although NewView messages of any view are
  counted, leaders do not check their own proposal against their lock, and, in the
  run's bounds, a validator forgets in a restart what it has voted. It is proved without
  restarts, and with them for views that have one proposal; the model itself forks
  when several leaders restart in their view and messages survive all that (section 4). `ViewsGrow`: `advance_view` does not
  compare the views itself; the checks at the entry have to.
* `SlotsCounted`: the counters are the sizes of the map's parts, and nobody is active
  twice or active and inactive at once. `ReservedOnlyKept`: in reserved-only mode only reserved peers hold slots.
  `OpenedAlive`: what `Protocol` holds for opened is a live connection.
  `HandlerSupervised`: a handler that waits has a command or an answer on its way.
* `AccountedUnnested`: each balance is its endowment plus the events of the receipts.
  `RolledBack`: the storage is what it would be if every failure restored what there was
  before (`meant` is that storage, `frames[n].before` what call n has to restore), as the
  running contract, the next block and the state see it. A failed error-aware call drains
  one level only, so the property excepts behaviours in which an error came from deeper than the call
  that caught it and something had been stored there (`leftover`). `OwnFunds`: nobody but a user's own transaction spends the user's funds.
* `ChangedBySupport`: what is put in force is what a proposal of that id said, and the
  voters for that id have the threshold, with the weights of that moment.
  `IdsNameOne`, `PassedOnce`: an id names one proposal, which passes once.

### Where the code does not do what it says

Two runs end in a violation of what the repository says.

* `raft_fork`: `on_req_append_entries` stores the leader's commit index before it
  looks at the entries (`consensus/raft/src/stream.rs:444`). A leader whose entry was
  replicated to nobody is replaced; an empty heartbeat of the new leader, with a
  commit index that reaches that entry, makes the old one commit its own block where
  the others committed another. No crash is needed.
* `executor_nested`: a contract's transfer is applied one overlay too low
  (`module/contract/src/vm.rs:460`), so that a failed error-aware call keeps it while its
  event is dropped. The tests' own VM context applies it to the contract's own
  level (`vm/tests/base.rs:504`). Without nesting the accounts are right (`AccountedUnnested`).

Further configurations, not among the runs, answer questions about modules that
have one already. They are run with the MC module their name begins with. All but
`ChainSingle`, `MCTxPool`, `SyncPeers` and `SyncLive` end in a violation.

* `ChainSingle.cfg`: with one committing thread, blocks are executed one by one and
  the execution number in the headers never decreases.
* `MCTxPool.cfg`: the pool's invariants with two inserters and two removers.
* `ChainOneByOne.cfg`: with two, tasks are queued out of order and a block is
  executed a second time, which sets the execution number back ("Ensure execution is
  committed one by one", `chain/src/execute.rs:104`). What matters most survives: no
  execution is ever wrong (`ExecutionIsChainPrefix`).
* `ChainVerifiable.cfg`: from a set-back execution number the proposer builds a block
  that its own `commit_block` takes and that `verify_execution` of every other node
  refuses (`coordinator/src/verifier.rs:182`).
* `ChainCrash.cfg`: "The former failed task will be processed again"
  (`chain/src/execute.rs:105`) needs a later task, and after a crash at the largest
  gap, which loses the queue, none can come.
* `TxPoolCapacity.cfg`: the "Max transaction count" (`txpool/src/lib.rs:36`) is
  exceeded by concurrent inserts, by less than their number (`CapacityOvershoot`).
* `PoaNodeExpired.cfg`: a block can contain an expired transaction, because the block's
  number and the validation of `until` come from different reads of `current_state`.
* `SyncPeers.cfg`: the properties of `sync` with the two peers connected at once, whose
  downloads cross, and three blocks. `SyncLive.cfg`: the same with one honest peer and two
  faults, such as a short answer and a lost one, or an answer that crosses its timer twice.
* `SyncStops.cfg`: one short answer of an honest peer stops the download
  (`CatchUpAlways`): the block it leaves out stays Downloading, with no timer
  and no request, until the peer's connection closes (`coordinator/src/sync.rs:302`).
* `RaftActing.cfg`: `refresh` raises the term of a leader that synchronises a newer leader's
  block (`consensus/raft/src/storage.rs:87`), and it goes on as a leader, in a term that another
  node has won (`OneLeaderPerTerm`).
* `ExecutorLeftover.cfg`: A calls B error-aware, B calls C, C writes and fails. The level of B
  is drained, that of C is not (`vm/src/import.rs:496`); the next call at that depth finds what was
  written there, and its return hands it to its callers (`RolledBackFully`). No document of the repository
  promises otherwise.
* `NetworkSlots.cfg`: a second incoming connection of a peer is told to close and
  not kept (`network/src/protocol.rs:599`). When the first one ends before it, the peer is
  dropped, activated again and dialed; libp2p ignores the dial because the second
  connection is still there, and the outgoing slot is never given back (`SlotBacked`).

Seen while modelling and kept in the models, but contrary to no statement of the
repository: a second nested callee runs under the first one's address, because the
nested context is created once (`module/contract/src/vm.rs:485`); at the nesting limit the
error-aware call panics instead of failing (`vm.rs:541`); a vote without a proposal,
and a highest certificate that only the leader reports, end the task of HotStuff
(`consensus/hotstuff/src/stream/state.rs:604`, `217`); a Drop for a peer that is being dialed does
nothing (`network/src/protocol.rs:285`).

### Fairness

Safety needs none. `Chain!Fairness` is weak fairness of each thread's steps: a
tokio task that has begun a call runs on, the lock is released by steps that never
wait, and the executor's loop awaits only its channel. `PrepareBlock` is weakly fair
because the consensus scheduler wakes the stream at every block interval. Nothing
obliges a peer to send blocks, a step to fail or the process to crash.
`PoaNode!FairNodeSpec` has the worker woken by its scheduler, `BufferStream` served,
and calls of `insert` and `remove` that have begun run on; nobody has to submit a
transaction or send a block.
`Sync!Fairness`: the coordinator's stream takes every message of its channels, a
request is answered or, when it is lost, its timer expires, and the executor goes on. Its
first three conjuncts spell weak fairness out with the action's guard in place of
ENABLED. The chain's messages are taken with strong fairness, because a handler that is at work
disables taking them and its steps would let weak fairness wait for ever; the channel
keeps them, and `tokio::select!` polls its branches in random order after every handler
(`coordinator/src/stream.rs:92`).
Raft and HotStuff have no liveness property: whether an election or a view ends
depends on randomised timeouts, which the models leave open.

## 4. Proofs

All theorems are for every value of the constants that the named assumptions of
the modules allow: any sets of threads, nodes, transactions and peers, and any bounds.

| module | theorem | property |
|---|---|---|
| `ChainProofs` | `TypeCorrect`, `ChainIsLinked`, `ExecutionFollowsChain`, `NothingSkipped`, `SnapshotsAreOrdered`, `QuietIsFresh`, `MessagesComeInOrder`, `GapsAreValid` | `TypeOK`, `ChainLinked`, `ExecutionIsChainPrefix`, `ExecutedContiguous`, `SnapshotOrdered`, `QuiescentFresh`, `MessagesOrdered`, `HeaderGapValid` |
| | `Refinement` | `ImplementsLedger` |
| `TxPoolProofs` | `OvershootBounded`, `NoOrphans`, `Announced` | `CapacityOvershoot`, `NoOrphanInMap`, `EveryTxAnnounced` |
| | `StreamIsInserter`, `Propagated` | `PropagationSpec => Spec`, `QueuedIsPropagated` |
| | `NodeUsesPool`, `NeverTwice`, `CopiesCommitted` | `NodeSpec => Spec`, `NoTxTwice`, `CopiesAreOnChain` |
| `SyncProofs` | `TypeCorrect`, `OnlyCommittedMissing`, `DownloadsAwaited` | `TypeOK`, `HolesCommitted`, `DownloadAwaited` |
| `ExecutorProofs` | `TypeCorrect`, `BalancesAccounted`, `FailuresUndone`, `OnlyOwnFundsSpent` | `TypeOK`, `AccountedUnnested`, `RolledBack`, `OwnFunds` |
| `RaftProofs` | `ElectionSafety`, `VotesKept` | `ElectedOnce`, `VoteKept` |
| `HotStuffProofs` | `NoForkWithoutRestart`, `AgreementHolds`, `OneProposalPerView`, `ViewsNeverShrink` | `Agreement` (under a hypothesis), `ViewsGrow` |
| `GovernanceProofs` | `TypeCorrect`, `ChangesSupported`, `IdsUnique`, `ForcedOnce` | `TypeOK`, `ChangedBySupport`, `IdsNameOne`, `PassedOnce` |

### Chain

None of the chain's invariants is inductive alone. They follow from one inductive
invariant `Inv`:

* `DbInv`: the chain is linked, the executed blocks are a prefix and their roots are
  right. A task may be processed late or again, so this needs `ThreadsInv`:
  whatever is in `job` after the commit, in `queue` or in `task` is the committed block of
  its number, and the executor's next block has an executed parent. That is why
  `process_number` never meets a missing execution.
* `ThreadsInv` also says that exactly the holder of the lock is between the batch
  and the message.
* `SnapInv`: a snapshot on its way is ordered, and one taken under the lock holds
  the confirmed number. A committer's two reads agree because the lock keeps the
  confirmed number still; the executor's do because it alone moves the executed one.
* `FreshInv`: if `current_state` is not what the database says and nothing failed,
  some thread is still going to refresh it or a task is left that will. This is what
  carries `QuiescentFresh` through stale overwrites.
* `MessagesInv`: the numbers sent are at most the confirmed one, and while a thread
  holds the lock, the newest block is known to nobody else: neither queued, nor being
  executed, nor announced.

`HeaderGapValid` has an exception that the attempt to prove it brought up: `prepare_block`
casts the gap to an `i8` before it compares it, and since the execution number may step
back, the difference can be so large on a long chain that the cast wraps to a small
gap (`GapWrapped`). `GapsAreValid` shows that this is the only way to a wrong gap.

`Refinement` proves `Spec => ImplementsLedger`. The ledger is
the sequence of committed hashes, the payload state that of the highest executed
block (not of the execution number, which may step back). `HasTop` and `IsTop` show
from `ExecutedContiguous` that there is exactly one such block; a commit is then
`AppendBlock`, a first execution is `ApplyBlock`, and everything else stutters.

### Pool, propagation, PoA node

`OvershootBounded`: the map plus the inserters that have passed `check_capacity` and not
yet written stay below the capacity plus the number of inserters. `NoOrphans` and
`Announced` need where each inserter and remover is, and that `retain` keeps exactly the
other elements in their order; `Retained` says so as a property of the result, which
TLC and the provers can both use.

`Propagation` and `PoaNode` close the pool's environment. `StreamIsInserter` and
`NodeUsesPool` prove that they do so within the pool's specification, so the pool's
theorems hold for them. `Propagated` adds the stream's own messages to the invariant.
`NeverTwice` rests on the number of the block: one that is still the next block was validated
against the whole chain (`BlockInv`), and any other is refused by the commit.
`CopiesCommitted` shows that a transaction that is not on the chain is in the pool once,
protected by its entry of the map (`CopyInv`). The coordinator removes only what is on
the chain. The worker also removes what it has found invalid; that was in the queue
when it was cloned and nobody else takes it off, so the copy goes with the entry
(`RemoveInv`).

### Sync

Most handlers end in `sync`, which is given peers, pending blocks and requests that
the handler has changed but not stored. So the parts of the invariant are operators of such
values (`KnownOK`, `BlocksOK`, `Holes`, `Awaited`): `SyncStep` proves once that `sync` gives back in
order what it was given in order, and `HandlerStep` brings the parts together; a handler's lemma
then only has to show what it hands over. `TypeCorrect` includes that the pending blocks stay
within `PENDING_BLOCKS_SIZE`, which keeps the unsigned difference in `maintain_new` from
wrapping.

* `ChainOK` has all that is assumed of `current_state`: neither it nor what a thread is about
  to write is ahead of the database. How far behind it is does not matter to what follows.
* `HolesCommitted` is `Holes`. `maintain_new` appends above the last pending block, or, when nothing is
  pending, in one piece; what is removed from the middle is removed by a message about a block
  that the chain has (`Messages` in `ChainOK`), and a block that is discarded is the first one.
* `DownloadAwaited` is `Awaited`. A handler that makes a peer vacant either makes all its blocks of
  that request Seen or Downloaded, or puts them into `left`; a request number may be used again
  once nothing refers to it, not even a block that was left behind, and that there is always one
  left (`FreshFacts`) is the pigeonhole principle. The code counts up instead.

### Executor

What is settled between two transactions says nothing about a running one, whose writes
are spread over the transaction's overlay and one for every nested context. The
invariant has three parts, and a second one, `Storage`, rests on it.

* `Types`: every overlay holds values in range, there are at least as many contexts as running
  calls, since a context is kept for the next call at its depth, and only the sender of the
  first one is a user.
* `Accounts`: while no contract has called another one, no context's own overlay holds a
  balance, because a transfer is applied one overlay too low, which at the first level is the
  transaction's; there the balances differ from the block's by exactly the events that the
  running contract has emitted. This is where the defect that `executor_nested` shows does no harm, and why
  `AccountedUnnested` has its condition.
* `Funds`: no overlay holds less for a user than the block does, unless the user is the sender.
  A contract may spend its own funds and, by `pay`, those of its sender; `Types` makes that
  sender a contract at every level but the first.
* `Storage`: the storage that level n - 1 sees is what call n has to restore (`frames[n].before`), the
  running level sees `meant`, and no level above it has storage in its overlay. A nested call
  writes above its caller, and its transfers, although applied one level too low, write
  balances only, so draining the one level of a failed call restores the caller's view, provided that
  the levels above it are empty. They are when the failing call is the last one (`NestedReturn`
  drains a level too); otherwise `leftover` is set.

The proof needs `MaxBalance` to be at least 1, as the cells of storage and code hold a bit.

### Raft

The invariant follows a vote from the ballot over the answer on its way (`AnswersInv`)
and the candidate's count (`GrantedInv`) to the majority of the winner (`WonInv`). A node
has no ballot beyond its persisted term, and its ballot of that term is its
persisted vote (`BallotsInv`), which a stop between the two writes and a refresh of the storage
have to keep. So it has one ballot per term, and two majorities meet.

### HotStuff

The invariant `SafetyInv` says of every message what the messages before it must
contain: a certificate stands for a quorum of votes, a pre-commit vote for a prepared
block, and so on (`Grounded`); of every vote that it is safe (`SafeVote`); of every node that its
certificates are as late as its votes (`VoteAt`); and, the heart of it, that as long
as a block may still be committed in a view, every later certificate is for it or for a
higher block (`CommitsLast`).

The code differs from HotStuff as published in two points that make the argument harder: a
leader votes for its own proposal without the check against its lock, and it counts
NewView messages of any view. So two quorums that meet in the leader alone prove
nothing by themselves. `Quorums` shows that either the other validators are a quorum
without the leader, and then two quorums also meet in a replica, which made the check; or they are
none, and then the leader's own NewView, which is always that of its present
certificate, is among those it has counted (`HighFacts`).

`AgreementHolds` assumes that no view has two different proposals. `OneProposalPerView` proves
that without restarts; for that the validators have to agree on the leader of a view,
although each computes it from the last commit certificate it knows (`LeaderOfView`). With
restarts the hypothesis is needed in the model: a leader that restarts in its view
may propose again there, and with three such restarts, a timeout and four equal validators there is a
sequence of 39 steps that ends in a fork. It needs votes that were sent to a leader before its restart to be
counted after it, and messages of one sender to overtake each other; the code's
connections keep the order and lose what was on them, so this is a limit of what
the model shows and not a statement about the code.

### Governance

What is pending is the last proposal made, with exactly the votes cast for its id, and was
not put in force (`PendingInv`); an id at or above the counter is new to every history
(`FreshInv`). `Word > 1` is assumed, since the creator of a contract has weight 1.

### How

Induction over the size of a set or over numbers is done without the library's
induction rules: `LeastNatural` and `MinimalSet` of `FiniteLemmas` give a least counterexample, which is then
refuted. Sums of weights are defined by the community modules' folds;
`SumTake` and `SumUnion` make them usable. Large invariants are operators of the state they speak
of (`NodeOK(M, n, ...)`), so that what they say of the next state needs no expansion.

Assumptions: `ConstantsAssumption`, `TxPoolAssumption`, `HotStuffAssumption` and so on, named in the
module that declares the constants, and evaluated by TLC in every run. That of `Chain` asks that
`max_execution_gap + 1` be representable as an `ExecutionGap`; that of `HotStuff` that the
weights be positive.

*Only model-checked.* Liveness (`CommittedIsExecuted`, `InMapIsQueuedOrRemoved`, `CommittedLeavesQueue`, `CatchUp`),
which needs fairness. `TypeOK` of `HotStuff`, whose bound on the view counts the faults of all
nodes. `Agreement` of `HotStuff` with a leader's restart. The single-committer configuration of the chain.
The invariants of `Network`: the peer manager filters sequences and activates peers in a
loop (`SelectSeq`, `FoldLeft`), so that what one of its operations returns is an induction over data.

## 5. Not modelled, and the plan

Parts of modelled components that are left out:

* sync: the announcement of own blocks and `known_blocks`, which saves repeated ones;
  what a peer announces is `OnBlockAnnounce`. A handshake may be built before a
  block is committed and be delivered after it (`OnProtocolOpen` has this); then the
  node learns of that block with the next one, and `CatchUp` is about what it learned.
* network: messages on opened connections, ping and identify, discovery beyond the
  peers it finds, transport and encryption.
* Raft and HotStuff: the registration of validators on a new connection; signatures
  are right; the authorities do not change during a run (their change is `Governance`).
* executor: the validation of a transaction's own fields; the wasm code, its metering and the copying of bytes.

Left out for good: the database engine, the trie, cryptography, RPC marshalling,
configuration and command line: sequential code, I/O or libraries, whose promises
the models use (an atomic batch, a root that determines the state, injective hashes).

What is left to prove is `PeerManager` and `Network`: `SlotsCounted` for one operation at a time,
with a lemma on filters first, since the counters are lengths of a filtered sequence; `OpenedAlive`, which
needs the connections and handlers alone; and `HandlerSupervised`, for which the peer manager's
operations must be shown to keep the answers that are not taken yet.
