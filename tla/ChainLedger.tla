---------------------------- MODULE ChainLedger ----------------------------
(* The chain of a node implements the abstract ledger. *)
EXTENDS Chain

(* The highest executed block; the executed blocks have no gaps, although  *)
(* EXECUTION_NUMBER itself may step back when a block is executed again.   *)
TopExecuted ==
  CHOOSE n \in 0 .. confirmed : IsExecuted(n) /\ (n < confirmed => ~ IsExecuted(n + 1))

CommittedHashes == [n \in 1 .. confirmed |-> HashOf(blocks[n])]
PayloadState == executions[HashOf(blocks[TopExecuted])]

L == INSTANCE Ledger WITH ledger <- CommittedHashes, state <- PayloadState

(* Every behaviour of the chain, crashes and repeated executions included, *)
(* is one of an append-only ledger whose payload is applied in order.      *)
ImplementsLedger == L!Spec
=============================================================================
