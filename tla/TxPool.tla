------------------------------- MODULE TxPool -------------------------------
(***************************************************************************)
(* The transaction pool: core/node/txpool/src/lib.rs.                      *)
(*                                                                         *)
(* insert runs in any number of threads (RPC handlers, the coordinator)    *)
(* and holds no lock over its steps: it compares the size of the map with  *)
(* the capacity, looks the hash up, validates against the chain, writes    *)
(* the concurrent map, sends to the buffer and announces the transaction.  *)
(* The BufferStream task moves the buffer to the queue.  remove filters    *)
(* the queue and then, in a second step, the map.                          *)
(*                                                                         *)
(* The environment is left open: validate_transaction may accept or refuse *)
(* anything, and any set may be removed.                                   *)
(***************************************************************************)
EXTENDS Naturals, Sequences, FiniteSets

CONSTANTS
  Txs,        \* transactions, identified with their hashes
  Inserters,  \* threads that call insert
  Removers,   \* threads that call remove
  Capacity,   \* config.pool_capacity
  MaxPending  \* bound: the length of queue and buffer at which inserting stops

Threads == Inserters \cup Removers

ASSUME TxPoolAssumption ==
  /\ IsFiniteSet(Txs)
  /\ IsFiniteSet(Inserters)
  /\ Inserters # {}
  /\ Inserters \cap Removers = {}
  /\ Capacity \in Nat
  /\ MaxPending \in Nat

VARIABLES
  map,       \* TxPool::map, its keys
  queue,     \* TxPool::queue
  buffer,    \* the channel from insert to BufferStream
  announced, \* the transactions sent on TxPool::message_tx
  at,        \* where each thread is
  arg,       \* the transaction an inserter works on
  removing   \* the set a remover works on

poolVars == <<map, queue, buffer, announced, at, arg, removing>>

Elements(s) == {s[i] : i \in 1 .. Len(s)}
Goto(t, l) == at' = [at EXCEPT ![t] = l]

Init ==
  /\ map = {}
  /\ queue = << >>
  /\ buffer = << >>
  /\ announced = {}
  /\ at = [t \in Threads |-> "idle"]
  /\ arg \in [Inserters -> Txs]
  /\ removing = [r \in Removers |-> {}]

-----------------------------------------------------------------------------
(* Faulty variant: a full pool takes one transaction more. *)
HasRoomOffByOne == Cardinality(map) <= Capacity

(* check_capacity passes. *)
HasRoom == Cardinality(map) < Capacity

(* insert: check_capacity. *)
CheckCapacity(i, tx) ==
  /\ at[i] = "idle"
  /\ Len(queue) + Len(buffer) < MaxPending
  /\ HasRoom
  /\ arg' = [arg EXCEPT ![i] = tx]
  /\ Goto(i, "exist")
  /\ UNCHANGED <<map, queue, buffer, announced, removing>>

(* insert: check_pool_exist, DuplicatedTx if the map has the hash. *)
CheckPoolExist(i) ==
  /\ at[i] = "exist"
  /\ Goto(i, IF arg[i] \in map THEN "idle" ELSE "validate")
  /\ UNCHANGED <<map, queue, buffer, announced, arg, removing>>

(* insert: validate_transaction, with the chain's answer. *)
ValidateTransaction(i, valid) ==
  /\ at[i] = "validate"
  /\ Goto(i, IF valid THEN "insert" ELSE "idle")
  /\ UNCHANGED <<map, queue, buffer, announced, arg, removing>>

(* map.insert returns no earlier entry. *)
InsertsNew(i) == arg[i] \notin map

(* insert: map.insert; DuplicatedTx if another thread has been faster. *)
MapInsert(i) ==
  /\ at[i] = "insert"
  /\ map' = map \cup {arg[i]}
  /\ Goto(i, IF InsertsNew(i) THEN "send" ELSE "idle")
  /\ UNCHANGED <<queue, buffer, announced, arg, removing>>

(* Faulty variant: insert returns without announcing the transaction. *)
ReturnAfterSend == "idle"

(* insert goes on to on_tx_inserted. *)
AnnounceAfterSend == "announce"

(* insert: buffer_tx.unbounded_send.  It fails only when BufferStream is   *)
(* gone, which runs as long as the pool exists.                            *)
SendToBuffer(i) ==
  /\ at[i] = "send"
  /\ buffer' = Append(buffer, arg[i])
  /\ Goto(i, AnnounceAfterSend)
  /\ UNCHANGED <<map, queue, announced, arg, removing>>

(* insert: on_tx_inserted. *)
OnTxInserted(i) ==
  /\ at[i] = "announce"
  /\ announced' = announced \cup {arg[i]}
  /\ Goto(i, "idle")
  /\ UNCHANGED <<map, queue, buffer, arg, removing>>

(* BufferStream: one transaction from the buffer to the end of the queue. *)
MoveToQueue ==
  /\ buffer # << >>
  /\ queue' = Append(queue, Head(buffer))
  /\ buffer' = Tail(buffer)
  /\ UNCHANGED <<map, announced, at, arg, removing>>

-----------------------------------------------------------------------------
(* remove is called with a set of hashes. *)
CallRemove(r, txs) ==
  /\ at[r] = "idle"
  /\ removing' = [removing EXCEPT ![r] = txs]
  /\ Goto(r, "retainQueue")
  /\ UNCHANGED <<map, queue, buffer, announced, arg>>

(* queue.retain: what is left of the queue q, in its order, when txs go.   *)
Retained(q, txs) ==
  LET kept[n \in 0 .. Len(q)] ==
        IF n = 0 THEN << >>
        ELSE IF q[n] \in txs THEN kept[n - 1]
        ELSE Append(kept[n - 1], q[n])
  IN  kept[Len(q)]

(* remove: queue.retain, under the queue's write lock. *)
RetainQueue(r) ==
  /\ at[r] = "retainQueue"
  /\ queue' = Retained(queue, removing[r])
  /\ Goto(r, "retainMap")
  /\ UNCHANGED <<map, buffer, announced, arg, removing>>

(* Faulty variant: only the hashes found in the queue leave the map. *)
OnlyQueued(r) == removing[r] \cap Elements(queue)

(* The keys map.retain drops. *)
Dropped(r) == removing[r]

(* remove: map.retain. *)
RetainMap(r) ==
  /\ at[r] = "retainMap"
  /\ map' = map \ Dropped(r)
  /\ removing' = [removing EXCEPT ![r] = {}]
  /\ Goto(r, "idle")
  /\ UNCHANGED <<queue, buffer, announced, arg>>

-----------------------------------------------------------------------------
InsertStep(i) ==
  \/ CheckPoolExist(i)
  \/ \E valid \in BOOLEAN : ValidateTransaction(i, valid)
  \/ MapInsert(i)
  \/ SendToBuffer(i)
  \/ OnTxInserted(i)

RemoveStep(r) == RetainQueue(r) \/ RetainMap(r)

Next ==
  \/ \E i \in Inserters, tx \in Txs : CheckCapacity(i, tx)
  \/ \E i \in Inserters : InsertStep(i)
  \/ MoveToQueue
  \/ \E r \in Removers, txs \in SUBSET Txs : CallRemove(r, txs)
  \/ \E r \in Removers : RemoveStep(r)

Spec == Init /\ [][Next]_poolVars

-----------------------------------------------------------------------------
(* The places of a thread in insert and in remove. *)
InsertLabels == {"idle", "exist", "validate", "insert", "send", "announce"}
RemoveLabels == {"idle", "retainQueue", "retainMap"}

(* A thread has put tx in the map and is about to send it. *)
IsSending(tx) == \E i \in Inserters : at[i] = "send" /\ arg[i] = tx

(* A remover has filtered the queue and is about to take tx off the map. *)
IsBeingRemoved(tx) == \E r \in Removers : at[r] = "retainMap" /\ tx \in removing[r]

(* The map and the queue are written by different steps of different       *)
(* threads.  An entry of the map that has no counterpart in the queue or   *)
(* on the way to it, and that no remover is about to take away, could be   *)
(* neither packed into a block nor submitted again: there is none.         *)
NoOrphanInMap ==
  \A tx \in map :
    \/ tx \in Elements(queue)
    \/ tx \in Elements(buffer)
    \/ IsSending(tx)
    \/ IsBeingRemoved(tx)

(* An inserter has passed check_capacity and not yet written the map. *)
Admitted == {i \in Inserters : at[i] \in {"exist", "validate", "insert"}}

(* check_capacity and map.insert are apart, so concurrent inserts can push *)
(* the pool over its capacity, by less than the number of inserters.       *)
CapacityOvershoot == Cardinality(map) < Capacity + Cardinality(Inserters)

(* pool_capacity is documented as "Max transaction count". *)
PoolWithinCapacity == Cardinality(map) <= Capacity

(* A transaction in the queue or the buffer has been announced to the      *)
(* coordinator, which propagates it, or its inserter is about to do so.    *)
EveryTxAnnounced ==
  \A tx \in Elements(queue) \cup Elements(buffer) :
    tx \in announced \/ \E i \in Inserters : at[i] = "announce" /\ arg[i] = tx

(* An entry of the map is packable (in the queue) or gone in the end, when *)
(* calls that have begun run on and BufferStream is served.                *)
InMapIsQueuedOrRemoved ==
  \A tx \in Txs : (tx \in map) ~> (tx \in Elements(queue) \/ tx \notin map)
=============================================================================
