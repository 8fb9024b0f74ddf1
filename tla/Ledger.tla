------------------------------- MODULE Ledger -------------------------------
(***************************************************************************)
(* What the chain of a node promises to everything above it: an append-only *)
(* sequence of blocks, and a payload state that is the result of applying   *)
(* them one by one, in order.  Threads, locks, queues, crashes and          *)
(* repeated executions are invisible here.                                  *)
(***************************************************************************)
EXTENDS Naturals, Sequences

VARIABLES
  ledger,  \* the hashes of the committed blocks after genesis
  state    \* the hashes of the blocks whose payload has been applied

Init ==
  /\ ledger = << >>
  /\ state = << >>

(* One block, numbered next, is added at the end. *)
AppendBlock ==
  /\ Len(ledger') = Len(ledger) + 1
  /\ ledger' = Append(ledger, ledger'[Len(ledger) + 1])
  /\ ledger'[Len(ledger) + 1].number = Len(ledger) + 1
  /\ UNCHANGED state

(* The payload of the first block not yet applied is applied. *)
ApplyBlock ==
  /\ Len(state) < Len(ledger)
  /\ state' = Append(state, ledger[Len(state) + 1])
  /\ UNCHANGED ledger

Next == AppendBlock \/ ApplyBlock

Spec == Init /\ [][Next]_<<ledger, state>>
=============================================================================
