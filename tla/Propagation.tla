---------------------------- MODULE Propagation ----------------------------
(***************************************************************************)
(* The propagation of transactions (ChainSync of the coordinator) over the *)
(* transaction pool: a transaction that enters the pool is sent to every   *)
(* peer that is not known to have it, and a peer that connects is sent the *)
(* pool's queue.                                                           *)
(*                                                                         *)
(* The coordinator's stream takes one message at a time: those of the      *)
(* network, and TxInserted from the pool through txRx.  To insert what a   *)
(* peer sent it calls the pool like any other thread, and meanwhile takes  *)
(* nothing else.  The pool's other threads run beside it.                  *)
(*                                                                         *)
(* Which chain is ahead, and so what should_tx_propagate says, may go      *)
(* either way.  A message with several transactions is taken like as many  *)
(* messages in a row.  A report of the peer for an invalid transaction is  *)
(* a message to the peer manager (module Network) and changes nothing      *)
(* here.                                                                   *)
(***************************************************************************)
EXTENDS TxPool, Functions

CONSTANTS
  Peer,
  Coordinator, \* the coordinator's stream, among the Inserters
  MaxMessages  \* bound: the length of txRx at which inserting stops

ASSUME PropagationAssumption == Coordinator \in Inserters /\ MaxMessages \in Nat

VARIABLES
  txRx,    \* txpool_rx: the TxInserted messages not taken yet
  known,   \* by connected peer: known_txs
  skipped  \* history, by connected peer: what the pool held and initial_propagate_txs left out

propagationVars == <<poolVars, txRx, known, skipped>>

(* The stream waits for its next message. *)
Idle == at[Coordinator] = "idle"
With(f, p, S) == [q \in DOMAIN f \cup {p} |-> IF q = p THEN S ELSE f[q]]

PropagationInit ==
  /\ Init
  /\ txRx = << >>
  /\ known = [p \in {} |-> {}]
  /\ skipped = [p \in {} |-> {}]

(* Its TxInserted message is still to be taken. *)
Unannounced(tx) ==
  \/ tx \in Elements(txRx)
  \/ \E i \in Inserters : at[i] \in {"send", "announce"} /\ arg[i] = tx

(* propagate_txs: known_txs of the peers f, after each of the targets was sent
   what it was not known to have. *)
PropagateTxs(f, txs, targets) == [p \in DOMAIN f |-> IF p \in targets THEN f[p] \cup txs ELSE f[p]]

(* initial_propagate_txs reads the queue, for a peer that is near enough. *)
InitialTxs(near) == IF near THEN Elements(queue) ELSE {}

(* on_protocol_open.  A peer of another chain is reported and not entered. *)
OnProtocolOpen(p, near) ==
  /\ Idle
  /\ p \notin DOMAIN known
  /\ known' = PropagateTxs(With(known, p, {}), InitialTxs(near), {p})
  /\ skipped' = With(skipped, p,
                     {tx \in map \cup Elements(buffer) : ~Unannounced(tx) /\ tx \notin known'[p]})
  /\ UNCHANGED <<poolVars, txRx>>

OnProtocolClose(p) ==
  /\ Idle
  /\ p \in DOMAIN known
  /\ known' = Restrict(known, DOMAIN known \ {p})
  /\ skipped' = Restrict(skipped, DOMAIN skipped \ {p})
  /\ UNCHANGED <<poolVars, txRx>>

(* Faulty variant: the transaction is looked up in the queue. *)
IsQueued(tx) == tx \in Elements(queue)

(* txpool_get_transaction reads the map. *)
PoolHas(tx) == tx \in map

(* on_tx_inserted: propagate_txs to all, if the pool still has the
   transaction. *)
OnTxpoolMessage ==
  /\ Idle
  /\ txRx # << >>
  /\ txRx' = Tail(txRx)
  /\ known' = IF PoolHas(Head(txRx)) THEN PropagateTxs(known, {Head(txRx)}, DOMAIN known) ELSE known
  /\ UNCHANGED <<poolVars, skipped>>

(* on_tx_propagate: a transaction that the peer is not known to have is
   inserted, or refused at once by a full pool.  A node that is too far behind
   takes no notice. *)
OnTxPropagate(p, tx) ==
  /\ Idle
  /\ Len(txRx) < MaxMessages
  /\ p \in DOMAIN known
  /\ tx \notin known[p]
  /\ known' = [known EXCEPT ![p] = @ \cup {tx}]
  /\ CheckCapacity(Coordinator, tx) \/ (~HasRoom /\ UNCHANGED poolVars)
  /\ UNCHANGED <<txRx, skipped>>

(* The end of insert: TxInserted is sent to the coordinator. *)
Announce(i) ==
  /\ OnTxInserted(i)
  /\ txRx' = Append(txRx, arg[i])
  /\ UNCHANGED <<known, skipped>>

(* The other steps of the pool. *)
PoolGoesOn ==
  /\ \/ \E i \in Inserters \ {Coordinator}, tx \in Txs : Len(txRx) < MaxMessages /\ CheckCapacity(i, tx)
     \/ \E i \in Inserters : at[i] # "announce" /\ InsertStep(i)
     \/ MoveToQueue
     \/ \E r \in Removers, txs \in SUBSET Txs : CallRemove(r, txs)
     \/ \E r \in Removers : RemoveStep(r)
  /\ UNCHANGED <<txRx, known, skipped>>

PropagationNext ==
  \/ \E p \in Peer, near \in BOOLEAN : OnProtocolOpen(p, near)
  \/ \E p \in Peer : OnProtocolClose(p)
  \/ OnTxpoolMessage
  \/ \E p \in Peer, tx \in Txs : OnTxPropagate(p, tx)
  \/ \E i \in Inserters : Announce(i)
  \/ PoolGoesOn

PropagationSpec == PropagationInit /\ [][PropagationNext]_propagationVars

-----------------------------------------------------------------------------
(* A transaction that can be packed reaches the peers: each connected peer has
   it or was sent it, or the message that makes the coordinator send it is on
   its way, over peers that connect, threads that insert and remove, and the
   same transaction coming from several sides.  Excepted is what the pool held
   when the peer connected and initial_propagate_txs did not see: a peer that
   is far behind gets nothing, and a transaction whose TxInserted was taken
   before BufferStream had moved it to the queue is in neither place. *)
QueuedIsPropagated ==
  \A p \in DOMAIN known : \A tx \in map \cap Elements(queue) :
    tx \in known[p] \/ tx \in skipped[p] \/ Unannounced(tx)
=============================================================================
