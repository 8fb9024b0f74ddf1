------------------------------ MODULE Executor ------------------------------
(***************************************************************************)
(* The executor: a context over the state of the last block, transactions  *)
(* run one by one on it, and the contracts' calls into the host.           *)
(*                                                                         *)
(* Writes pass through overlays.  A transaction writes txBuffer, which     *)
(* goes into buffer when the call succeeds and is thrown away when it      *)
(* fails; the block takes buffer.  A contract runs on a level: an overlay  *)
(* of its own (base) above those of its callers.  A level is created at    *)
(* the first nested call made from the level below and KEPT for the later  *)
(* ones of the same transaction, so that levels may be longer than frames, *)
(* the stack of running calls.                                             *)
(*                                                                         *)
(* Abstracted: the code of a contract makes any sequence of host calls;    *)
(* it has one storage cell; the events are the transfers, as the net       *)
(* change of each balance.  The meta and payload parts of a context have   *)
(* disjoint keys and are applied and drained together, so they are one     *)
(* overlay here.  The module overlay of a level is empty between two host  *)
(* calls: a transfer that fails has not written, one that succeeds is      *)
(* drained at once.                                                        *)
(***************************************************************************)
EXTENDS Integers, Sequences, FiniteSets, FiniteSetsExt

CONSTANTS
  User, Contract,  \* the addresses: key holders and contracts
  Deployed,        \* the contracts that the chain starts with
  Endow,           \* balance module: the endowment of each address
  MaxBalance,      \* the largest value of a balance (u64::MAX in the code)
  MaxNestDepth,    \* VMConfig.max_nest_depth
  Amount,          \* the values sent
  MaxTxs,          \* bound: transactions in a behaviour
  MaxCalls         \* bound: host calls in a behaviour

Address == User \cup Contract

ASSUME ExecutorAssumption ==
  /\ User \cap Contract = {} /\ Deployed \subseteq Contract
  /\ Endow \in [Address -> 0..MaxBalance]
  /\ MaxBalance \in Nat \ {0} /\ MaxNestDepth \in Nat \ {0} /\ Amount \subseteq Nat

VARIABLES
  db,        \* the state at the last block
  buffer,    \* Context.buffer: the writes of the block's transactions
  txBuffer,  \* Context.tx_buffer: the writes of the running transaction
  levels,    \* the VM contexts of the transaction: base and events each
  frames,    \* the running calls; frame n runs on level n
  batch,     \* execute_txs: the kind of the batch being executed
  payload,   \* Context.payload_phase
  logged,    \* the transfers of the block's receipts, a sum for each address
  receipts,  \* the same of the receipts of the blocks before it
  txs,       \* transactions started
  calls,     \* host calls made
  nested,    \* whether a contract has called another one
  meant,     \* the contracts' storage if failures undid all they should
  leftover   \* whether a failed call has left storage in a deeper level

vars == <<db, buffer, txBuffer, levels, frames, batch, payload, logged, receipts,
          txs, calls, nested, meant, leftover>>

-----------------------------------------------------------------------------
(* Keys and overlays *)

Balance(a) == <<"balance", a>>
Data(c) == <<"data", c>>
Code(c) == <<"code", c>>
Meta == <<"meta", "meta">>
Key == {Balance(a) : a \in Address} \cup {Data(c) : c \in Contract}
         \cup {Code(c) : c \in Contract} \cup {Meta}

Empty == [k \in {} |-> 0]
At(key, v) == [k \in {key} |-> v]
Over(upper, lower) == [k \in DOMAIN upper \cup DOMAIN lower |->
                         IF k \in DOMAIN upper THEN upper[k] ELSE lower[k]]
NoEvents == [a \in Address |-> 0]
AddEvents(e, f) == [a \in Address |-> e[a] + f[a]]

(* StateDB: what the trie of the last block has *)
Stored(k) == db[k]

(* StateDB::prepare_update: the trie after the writes *)
Updated(writes) == Over(writes, db)

(* Context::payload_get, meta_get: the overlay of the transaction first *)
Get(k) ==
  LET written == Over(txBuffer, buffer)
  IN  IF k \in DOMAIN written THEN written[k] ELSE Stored(k)

(* The contract has a code of its current version. *)
Known(c) == Get(Code(c)) # 0

(* StackedExecutorContext::payload_get from level n *)
BaseGet(n, k) ==
  LET written == {i \in 1..n : k \in DOMAIN levels[i].base}
  IN  IF written = {} THEN Get(k) ELSE levels[Max(written)].base[k]

(* StackedExecutorContext::payload_apply: items of level n go to the level
   below, or to the executor's context from the first one. *)
Apply(n, lv, items) ==
  \/ /\ n = 1
     /\ txBuffer' = Over(items, txBuffer)
     /\ levels' = lv
  \/ /\ n > 1
     /\ levels' = [lv EXCEPT ![n - 1].base = Over(items, @)]
     /\ UNCHANGED txBuffer

Level(self, sender) == [self |-> self, sender |-> sender, base |-> Empty, events |-> NoEvents]

(* A level is drained; what a level has drained is applied to the one below. *)
Drained(level) == [level EXCEPT !.base = Empty, !.events = NoEvents]
Absorbed(level, inner) == [level EXCEPT !.base = Over(inner.base, @),
                                        !.events = AddEvents(@, inner.events)]

-----------------------------------------------------------------------------
(* The balance module *)

(* Faulty variant: the overflow of the recipient is not looked at. *)
OverflowMissed(from, to, value, fromBalance, toBalance) ==
  from # to /\ fromBalance >= value

(* transfer: refused to oneself, beyond the balance and at an overflow *)
Transferable(from, to, value, fromBalance, toBalance) ==
  /\ from # to
  /\ fromBalance >= value
  /\ toBalance + value <= MaxBalance

TransferItems(from, to, value, fromBalance, toBalance) ==
  Over(At(Balance(from), fromBalance - value), At(Balance(to), toBalance + value))

Transferred(from, to, value) ==
  [a \in Address |-> IF a = from THEN -value ELSE IF a = to THEN value ELSE 0]

-----------------------------------------------------------------------------
(* Transactions *)

Init ==
  /\ db = [k \in Key |-> CASE k[1] = "balance" -> Endow[k[2]]
                           [] k[1] = "code" /\ k[2] \in Deployed -> 1
                           [] OTHER -> 0]
  /\ buffer = Empty /\ txBuffer = Empty
  /\ levels = <<>> /\ frames = <<>>
  /\ batch = "none" /\ payload = FALSE
  /\ logged = NoEvents /\ receipts = NoEvents
  /\ txs = 0 /\ calls = 0 /\ nested = FALSE
  /\ meant = [c \in Contract |-> 0] /\ leftover = FALSE

(* execute_txs takes the next transaction: none is running, and it is of the
   kind of its batch.  A mixed batch is an error of the whole batch: see
   Discard. *)
NextTx(kind) ==
  /\ frames = <<>> /\ txs < MaxTxs
  /\ batch \in {"none", kind}
  /\ batch' = kind
  /\ txs' = txs + 1
  /\ UNCHANGED <<db, payload, receipts, calls>>

(* The end of a transaction that succeeded: what it wrote goes to the block,
   its events to the receipt. *)
Accept(items, events) ==
  /\ buffer' = Over(Over(items, txBuffer), buffer)
  /\ txBuffer' = Empty
  /\ logged' = AddEvents(logged, events)

(* Faulty variant: a failed transaction's writes are left for the next one. *)
RefuseUndrained == UNCHANGED <<txBuffer, buffer, logged>>

(* The end of one that failed: both are drained. *)
Refuse ==
  /\ txBuffer' = Empty
  /\ UNCHANGED <<buffer, logged>>

(* A transfer, a call of the balance module *)
TransferTx(sender, to, value) ==
  /\ NextTx("payload")
  /\ LET x == Get(Balance(sender))
         y == Get(Balance(to))
     IN  IF Transferable(sender, to, value, x, y)
         THEN Accept(TransferItems(sender, to, value, x, y), Transferred(sender, to, value))
         ELSE Refuse
  /\ UNCHANGED <<levels, frames, nested, meant, leftover>>

(* A call of a meta module, accepted or refused *)
MetaTx(ok) ==
  /\ NextTx("meta")
  /\ IF ok THEN Accept(At(Meta, 1 - Get(Meta)), NoEvents) ELSE Refuse
  /\ UNCHANGED <<levels, frames, nested, meant, leftover>>

(* A call, with the storage that is to be there again if it fails *)
Frame(code, pay, ea) ==
  [code |-> code, pay |-> pay, ea |-> ea, before |-> meant]

(* Contract create: the code is stored, then the init method runs.  The
   address comes from the hash of the transaction: it is new. *)
CreateTx(sender, c, pay) ==
  /\ ~Known(c)
  /\ NextTx("payload")
  /\ txBuffer' = Over(At(Code(c), 1), txBuffer)
  /\ levels' = <<Level(c, sender)>>
  /\ frames' = <<Frame(c, pay, FALSE)>>
  /\ UNCHANGED <<buffer, logged, nested, meant, leftover>>

(* Contract execute: refused when the contract is not known *)
ExecuteTx(sender, c, pay) ==
  /\ NextTx("payload")
  /\ IF ~Known(c)
     THEN Refuse /\ UNCHANGED <<levels, frames>>
     ELSE /\ levels' = <<Level(c, sender)>>
          /\ frames' = <<Frame(c, pay, FALSE)>>
          /\ UNCHANGED <<buffer, txBuffer, logged>>
  /\ UNCHANGED <<nested, meant, leftover>>

-----------------------------------------------------------------------------
(* Host calls of the contract that runs on the last level *)

Depth == Len(frames)
Running == levels[Depth]

HostCall ==
  /\ frames # <<>> /\ calls < MaxCalls
  /\ calls' = calls + 1
  /\ UNCHANGED <<db, batch, payload, receipts, txs>>

StorageWrite(v) ==
  /\ HostCall
  /\ levels' = [levels EXCEPT ![Depth].base = Over(At(Data(Running.self), v), @)]
  /\ meant' = [meant EXCEPT ![Running.self] = v]
  /\ UNCHANGED <<buffer, txBuffer, frames, logged, nested, leftover>>

(* An error unwinds the calls from the n-th on: the storage is meant to be what it
   was before them. *)
Undo(n) ==
  /\ meant' = frames[n].before
  /\ frames' = SubSeq(frames, 1, n - 1)

(* Something that a contract stored is in a level above the n-th. *)
StoredAbove(n) ==
  \E i \in n + 1..Len(levels), c \in Contract : Data(c) \in DOMAIN levels[i].base

(* Faulty variant: an error-aware call that fails keeps its writes. *)
UnwindUndrained ==
  LET aware == {n \in 2..Depth : frames[n].ea}
      n == Max(aware)
  IN  IF aware = {}
      THEN Undo(1) /\ levels' = <<>> /\ Refuse /\ UNCHANGED leftover
      ELSE /\ Undo(n)
           /\ leftover' = (leftover \/ StoredAbove(n))
           /\ levels' = [levels EXCEPT ![n - 1].base = Over(levels[n].base, @)]
           /\ UNCHANGED <<txBuffer, buffer, logged>>

(* An error of the running contract unwinds its callers up to the nearest
   error-aware call, whose level alone is drained, or ends the transaction:
   inner_vm_execute then drains a context that is dropped anyway. *)
Unwind ==
  LET aware == {n \in 2..Depth : frames[n].ea}
      n == Max(aware)
  IN  IF aware = {}
      THEN Undo(1) /\ levels' = <<>> /\ Refuse /\ UNCHANGED leftover
      ELSE /\ Undo(n)
           /\ leftover' = (leftover \/ StoredAbove(n))
           /\ levels' = [levels EXCEPT ![n] = Drained(@)]
           /\ UNCHANGED <<txBuffer, buffer, logged>>

(* module_balance_transfer and module_payload_apply.  The event is kept on
   the contract's level; the items are applied as if they were the level's
   own, one level further down. *)
MoveFunds(from, to, value) ==
  LET x == BaseGet(Depth, Balance(from))
      y == BaseGet(Depth, Balance(to))
      lv == [levels EXCEPT ![Depth].events = AddEvents(@, Transferred(from, to, value))]
  IN  /\ Transferable(from, to, value, x, y)
      /\ Apply(Depth, lv, TransferItems(from, to, value, x, y))
      /\ UNCHANGED <<buffer, frames, logged, meant, leftover>>

CannotMove(from, to, value) ==
  ~Transferable(from, to, value, BaseGet(Depth, Balance(from)), BaseGet(Depth, Balance(to)))

(* balance_transfer; its error-aware form returns an error and does nothing *)
BalanceTransfer(to, value) ==
  /\ HostCall
  /\ \/ MoveFunds(Running.self, to, value)
     \/ CannotMove(Running.self, to, value) /\ Unwind
  /\ UNCHANGED nested

(* Faulty variant: pay does not look at who sent the call. *)
PayFromOther ==
  /\ HostCall
  /\ frames[Depth].pay > 0
  /\ \E u \in User : MoveFunds(u, Running.self, frames[Depth].pay)
  /\ UNCHANGED nested

(* pay: the value sent with the call, from the sender of this level *)
Pay ==
  /\ HostCall
  /\ frames[Depth].pay > 0
  /\ \/ MoveFunds(Running.sender, Running.self, frames[Depth].pay)
     \/ CannotMove(Running.sender, Running.self, frames[Depth].pay) /\ Unwind
  /\ UNCHANGED nested

(* The nested level: the one kept from an earlier call, or a new one *)
NestedLevels(c) ==
  IF Len(levels) > Depth THEN levels ELSE Append(levels, Level(c, Running.self))

(* contract_execute and contract_execute_ea of contract c *)
ContractExecute(c, pay, ea) ==
  /\ HostCall
  /\ Len(levels) > Depth \/ Depth < MaxNestDepth
  /\ Known(c)
  /\ levels' = NestedLevels(c)
  /\ frames' = Append(frames, Frame(c, pay, ea))
  /\ nested' = TRUE
  /\ UNCHANGED <<buffer, txBuffer, logged, meant, leftover>>

(* NestedContractNotFound: the level has been made; an error-aware call drains
   it and goes on, another one ends the caller. *)
ContractNotFound(c, ea) ==
  /\ HostCall
  /\ Len(levels) > Depth \/ Depth < MaxNestDepth
  /\ ~Known(c)
  /\ IF ea
     THEN /\ levels' = [NestedLevels(c) EXCEPT ![Depth + 1] = Drained(@)]
          /\ UNCHANGED <<buffer, txBuffer, frames, logged, meant, leftover>>
     ELSE Unwind
  /\ UNCHANGED nested

(* NestDepthExceeded ends the caller of contract_execute.  The error-aware
   form drains a nested context that does not exist: see Discard. *)
NestDepthExceeded ==
  /\ HostCall
  /\ Len(levels) = Depth /\ Depth >= MaxNestDepth
  /\ Unwind
  /\ UNCHANGED nested

(* error_return, abort, a trap of the code *)
ErrorReturn ==
  /\ HostCall
  /\ Unwind
  /\ UNCHANGED nested

(* A nested call returns: its level is applied to its caller's. *)
NestedReturn ==
  /\ Depth > 1
  /\ frames' = SubSeq(frames, 1, Depth - 1)
  /\ levels' = [levels EXCEPT ![Depth] = Drained(@), ![Depth - 1] = Absorbed(@, Running)]
  /\ UNCHANGED <<db, buffer, txBuffer, batch, payload, logged, receipts, txs, calls, nested,
                 meant, leftover>>

(* The contract called by the transaction returns. *)
Return ==
  /\ Depth = 1
  /\ Accept(Running.base, Running.events)
  /\ frames' = <<>> /\ levels' = <<>>
  /\ UNCHANGED <<db, batch, payload, receipts, txs, calls, nested, meant, leftover>>

-----------------------------------------------------------------------------
(* Batches and blocks *)

(* execute_txs returns.  A meta batch is refused in the payload phase. *)
EndBatch ==
  /\ frames = <<>> /\ batch # "none"
  /\ ~(payload /\ batch = "meta")
  /\ payload' = (payload \/ batch = "payload")
  /\ batch' = "none"
  /\ UNCHANGED <<db, buffer, txBuffer, levels, frames, logged, receipts, txs, calls, nested,
                 meant, leftover>>

(* execute_txs fails: a mixed batch, a meta batch too late, a system error
   anywhere, as is the missing context of NestDepthExceeded.  Its callers
   drop the context. *)
Discard ==
  /\ batch # "none"
  /\ buffer' = Empty /\ txBuffer' = Empty
  /\ frames' = <<>> /\ levels' = <<>>
  /\ batch' = "none" /\ payload' = FALSE
  /\ logged' = NoEvents
  /\ meant' = [c \in Contract |-> Stored(Data(c))]
  /\ UNCHANGED <<db, receipts, txs, calls, nested, leftover>>

(* get_meta_update, get_payload_update: the block's state *)
CommitBlock ==
  /\ batch = "none" /\ buffer # Empty
  /\ db' = Updated(buffer)
  /\ buffer' = Empty /\ payload' = FALSE
  /\ receipts' = AddEvents(receipts, logged) /\ logged' = NoEvents
  /\ UNCHANGED <<txBuffer, levels, frames, batch, txs, calls, nested, meant, leftover>>

Next ==
  \/ \E u \in User, v \in Amount :
       \/ \E to \in Address : TransferTx(u, to, v)
       \/ \E c \in Contract : CreateTx(u, c, v) \/ ExecuteTx(u, c, v)
  \/ \E ok \in BOOLEAN : MetaTx(ok)
  \/ ErrorReturn
  \/ \E v \in 0..1 : StorageWrite(v)
  \/ \E to \in Address, v \in Amount : BalanceTransfer(to, v)
  \/ Pay
  \/ \E c \in Contract, ea \in BOOLEAN :
       \/ \E v \in Amount : ContractExecute(c, v, ea)
       \/ ContractNotFound(c, ea)
  \/ NestDepthExceeded
  \/ NestedReturn \/ Return
  \/ EndBatch \/ Discard \/ CommitBlock

Spec == Init /\ [][Next]_vars

-----------------------------------------------------------------------------
(* Properties *)

(* Balances stay within u64 in every overlay; a running call has a level of its
   own within the nesting limit. *)
TypeOK ==
  /\ db \in [Key -> 0..MaxBalance]
  /\ \A o \in {buffer, txBuffer} \cup {levels[i].base : i \in DOMAIN levels} :
       DOMAIN o \subseteq Key /\ \A k \in DOMAIN o : o[k] \in 0..MaxBalance
  /\ \A i \in DOMAIN levels :
       /\ levels[i].self \in Contract
       /\ levels[i].sender \in IF i = 1 THEN User ELSE Contract
  /\ Depth <= Len(levels) /\ Len(levels) <= MaxNestDepth
  /\ frames = <<>> => levels = <<>>
  /\ batch \in {"none", "meta", "payload"} /\ payload \in BOOLEAN

Settled(a) == Updated(buffer)[Balance(a)]

Accounted ==
  \A a \in Address : Settled(a) = Endow[a] + receipts[a] + logged[a]

(* The receipts account for every balance: as long as no contract has called
   another one, each balance is its endowment plus the Transferred events of
   the receipts, whatever contracts moved before they failed. *)
AccountedUnnested == ~nested => Accounted

(* The same with nested calls: a VM context applies the transfers of a
   contract to the contract's own level (node/vm/tests/base.rs:504), so what a
   failed nested call moved is undone with its events. *)
AccountedNested == Accounted

(* The storage is what it would be if every write took effect at once and every
   failure restored what there was before: the failed call of an error-aware
   one, the failed transaction, the block that is dropped.  The running contract
   sees it so through the levels, kept and used again, and so do the block and
   the state.  Excepted are behaviours where a caught error came from deeper
   than the call that caught it and something was stored there: see
   RolledBackFully. *)
RolledBack ==
  ~leftover => \A c \in Contract : BaseGet(Depth, Data(c)) = meant[c]

(* The same without the exception.  The code does not promise it: one level is
   drained after a failed call, and what the calls below it had written is
   found there by the next ones (vm/src/import.rs:496). *)
RolledBackFully ==
  \A c \in Contract : BaseGet(Depth, Data(c)) = meant[c]

(* Only a transaction of its own takes funds from a user: contracts, however
   nested, spend theirs. *)
OwnFunds ==
  [][\A u \in User : Settled(u)' < Settled(u) =>
       \/ batch' = "none"
       \/ levels # <<>> /\ levels[1].sender = u
       \/ \E to \in Address, v \in Amount : TransferTx(u, to, v)]_vars
=============================================================================
