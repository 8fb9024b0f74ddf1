----------------------------- MODULE Governance -----------------------------
(***************************************************************************)
(* How the administrators change what they govern: the block authorities   *)
(* and the administrators themselves in the module of the chain's          *)
(* consensus (poa, raft or hotstuff), the code and the administrators of a *)
(* contract in the contract module.  A member proposes (and votes by       *)
(* proposing), members vote, and the vote that reaches the threshold puts  *)
(* the proposal in force.  A new proposal takes the place of the pending   *)
(* one.                                                                    *)
(*                                                                         *)
(* Each action is a transaction that succeeds; one that is refused leaves  *)
(* the state alone (module Executor).  A board is a thing governed: the    *)
(* chain, through the module of its consensus, or a contract.              *)
(***************************************************************************)
EXTENDS Integers, Sequences, FiniteSets, FiniteSetsExt

CONSTANTS
  Member,        \* the addresses
  Poa, Raft, HotStuff,  \* the boards of the consensus modules
  Contract,      \* the boards of the contract module
  AdminParams,   \* the admin parameters: [threshold, members], a list of pairs
  Item,          \* what is governed: authorities, codes
  Word,          \* 2^32: weights and their sums wrap there
  MaxProposals,  \* bound: proposals in a behaviour
  NoProposal, NoAdmin

Consensus == {Poa, Raft, HotStuff}
Board == Consensus \cup Contract
Subject == {"admin", "item"}

ASSUME GovernanceAssumption ==
  /\ Word \in Nat \ {0, 1} /\ MaxProposals \in Nat
  /\ Cardinality(Consensus) = 3 /\ Consensus \cap Contract = {} /\ Item # {}
  /\ AdminParams \subseteq [threshold : 0..Word - 1, members : Seq(Member \X (0..Word - 1))]

VARIABLES
  admin,     \* for each board [threshold, weights]; weights on the members only
  item,      \* for each board the authority or the code in force; any code of a
             \* contract that is not there yet
  version,   \* for each board the number of items put in force
  nextId,    \* the proposal id counters
  proposal,  \* the pending proposals: [id, content, vote]
  made,      \* history: all proposals
  cast,      \* history: who voted for which proposal id
  passed     \* history: the proposals put in force, in order

vars == <<admin, item, version, nextId, proposal, made, cast, passed>>

-----------------------------------------------------------------------------
(* Administrators *)

(* aggregate_admin: the weights of one address are added, members without
   weight are left out. *)
Aggregate(params) ==
  LET positive == {i \in DOMAIN params.members : params.members[i][2] > 0}
  IN  [threshold |-> params.threshold,
       weights |-> [m \in {params.members[i][1] : i \in positive} |->
                      MapThenSumSet(LAMBDA i : params.members[i][2],
                                    {i \in positive : params.members[i][1] = m}) % Word]]

(* The genesis parameters are stored as they are; reading them into a map, the
   last entry of an address stands. *)
Genesis(params) ==
  [threshold |-> params.threshold,
   weights |-> [m \in {params.members[i][1] : i \in DOMAIN params.members} |->
                  params.members[Max({i \in DOMAIN params.members : params.members[i][1] = m})][2]]]

(* verify_sender *)
IsMember(b, m) == admin[b] # NoAdmin /\ m \in DOMAIN admin[b].weights

WeightOf(m, weights) == IF m \in DOMAIN weights THEN weights[m] ELSE 0

(* The sum of the weights that the voters have now *)
Support(votes, weights) == MapThenSumSet(LAMBDA m : WeightOf(m, weights), votes)

-----------------------------------------------------------------------------
(* Proposals *)

(* The genesis block initialises one consensus module; the calls of another one
   end with "Admin not found". *)
Init ==
  /\ \E params \in AdminParams, c \in Consensus :
       admin = [b \in Board |-> IF b = c THEN Genesis(params) ELSE NoAdmin]
  /\ \E i \in Item : item = [b \in Board |-> i]
  /\ version = [b \in Board |-> 0]
  /\ nextId = [b \in Board |-> [s \in Subject |-> 1]]
  /\ proposal = [b \in Board |-> [s \in Subject |-> NoProposal]]
  /\ made = {} /\ cast = {} /\ passed = <<>>

(* The sum of a vote reaches the threshold; it wraps as u32 does. *)
Reaches(votes, b) == Support(votes, admin[b].weights) % Word >= admin[b].threshold

(* Faulty variant: the pending proposal survives its own success. *)
StillPending(p, pass) == p

(* A proposal that passes is deleted, another one stored. *)
PendingAfter(p, pass) == IF pass THEN NoProposal ELSE p

(* Faulty variant: the counter moves on success only. *)
CountedIfPassed(p, pass) == IF pass THEN p.id + 1 ELSE p.id

(* The counter after a proposal or a vote on it *)
NextIdAfter(p, pass) == p.id + 1

(* update_admin_vote_and_pass and its sibling for the item: vote, sum, put in
   force or store, and move the counter past the proposal *)
VoteAndPass(b, subject, m, unvoted) ==
  LET p == [unvoted EXCEPT !.vote = @ \cup {m}]
      pass == Reaches(p.vote, b)
  IN  /\ proposal' = [proposal EXCEPT ![b][subject] = PendingAfter(p, pass)]
      /\ nextId' = [nextId EXCEPT ![b][subject] = NextIdAfter(p, pass)]
      /\ admin' = IF pass /\ subject = "admin" THEN [admin EXCEPT ![b] = p.content] ELSE admin
      /\ item' = IF pass /\ subject = "item" THEN [item EXCEPT ![b] = p.content] ELSE item
      /\ version' = IF pass /\ subject = "item" THEN [version EXCEPT ![b] = @ + 1] ELSE version
      /\ passed' = IF pass THEN Append(passed, <<b, subject, p.id>>) ELSE passed

(* A proposal by a member, with its own vote *)
Propose(b, subject, m, content) ==
  LET id == nextId[b][subject]
  IN  /\ IsMember(b, m)
      /\ Cardinality(made) < MaxProposals
      /\ VoteAndPass(b, subject, m, [id |-> id, content |-> content, vote |-> {}])
      /\ made' = made \cup {<<b, subject, id, content>>}
      /\ cast' = cast \cup {<<b, subject, id, m>>}

(* Faulty variant: the id of the vote is not compared with the pending proposal's. *)
AnyPending(b, subject, id) == proposal[b][subject] # NoProposal

(* A vote is for the pending proposal only, named by its id. *)
IsPending(b, subject, id) ==
  proposal[b][subject] # NoProposal /\ proposal[b][subject].id = id

VoteFor(b, subject, m, id) ==
  /\ IsPending(b, subject, id)
  /\ IsMember(b, m)
  /\ VoteAndPass(b, subject, m, proposal[b][subject])
  /\ cast' = cast \cup {<<b, subject, id, m>>}
  /\ UNCHANGED made

-----------------------------------------------------------------------------
(* The calls of the PoA module *)

UpdateAdmin(m, params) == Propose(Poa, "admin", m, Aggregate(params))
UpdateAdminVote(m, id) == VoteFor(Poa, "admin", m, id)
UpdateAuthority(m, authority) == Propose(Poa, "item", m, authority)
UpdateAuthorityVote(m, id) == VoteFor(Poa, "item", m, id)

(* The calls of the Raft and of the HotStuff module, by what they change: the
   lists of authorities are not aggregated. *)

RaftAdmin(m) ==
  \/ \E params \in AdminParams : Propose(Raft, "admin", m, Aggregate(params))
  \/ \E id \in 1..MaxProposals : VoteFor(Raft, "admin", m, id)

RaftAuthorities(m) ==
  \/ \E authorities \in Item : Propose(Raft, "item", m, authorities)
  \/ \E id \in 1..MaxProposals : VoteFor(Raft, "item", m, id)

HotStuffAdmin(m) ==
  \/ \E params \in AdminParams : Propose(HotStuff, "admin", m, Aggregate(params))
  \/ \E id \in 1..MaxProposals : VoteFor(HotStuff, "admin", m, id)

HotStuffAuthorities(m) ==
  \/ \E authorities \in Item : Propose(HotStuff, "item", m, authorities)
  \/ \E id \in 1..MaxProposals : VoteFor(HotStuff, "item", m, id)

(* The calls of the contract module *)

(* create: the sender is the only administrator of the code it brings *)
Create(c, m, code) ==
  /\ admin[c] = NoAdmin
  /\ admin' = [admin EXCEPT ![c] = [threshold |-> 1, weights |-> [x \in {m} |-> 1]]]
  /\ version' = [version EXCEPT ![c] = 1]
  /\ item' = [item EXCEPT ![c] = code]
  /\ UNCHANGED <<nextId, proposal, made, cast, passed>>

UpdateContractAdmin(c, m, params) == Propose(c, "admin", m, Aggregate(params))
UpdateContractAdminVote(c, m, id) == VoteFor(c, "admin", m, id)
UpdateCode(c, m, code) == Propose(c, "item", m, code)
UpdateCodeVote(c, m, id) == VoteFor(c, "item", m, id)

Next ==
  \E m \in Member :
    \/ \E params \in AdminParams :
         \/ UpdateAdmin(m, params)
         \/ \E c \in Contract : UpdateContractAdmin(c, m, params)
    \/ \E i \in Item :
         \/ UpdateAuthority(m, i)
         \/ \E c \in Contract : UpdateCode(c, m, i) \/ Create(c, m, i)
    \/ \E id \in 1..MaxProposals :
         \/ UpdateAdminVote(m, id) \/ UpdateAuthorityVote(m, id)
         \/ \E c \in Contract : UpdateContractAdminVote(c, m, id) \/ UpdateCodeVote(c, m, id)
    \/ RaftAdmin(m) \/ RaftAuthorities(m)
    \/ HotStuffAdmin(m) \/ HotStuffAuthorities(m)

Spec == Init /\ [][Next]_vars

-----------------------------------------------------------------------------
(* Properties *)

Admins == [threshold : 0..Word - 1, weights : UNION {[M -> 0..Word - 1] : M \in SUBSET Member}]

(* Weights and thresholds are u32, voters are addresses. *)
TypeOK ==
  /\ \A b \in Board : admin[b] \in Admins \cup {NoAdmin} /\ item[b] \in Item /\ version[b] \in Nat
  /\ \A b \in Board, s \in Subject :
       /\ nextId[b][s] \in Nat
       /\ proposal[b][s] # NoProposal => proposal[b][s].vote \subseteq Member

(* What is put in force has the support it needs: when the administrators, the
   authority or the code of a board change, it is to what some proposal said,
   and those who voted for THAT proposal by its id have, with the weights they
   have now, the threshold between them. *)
ChangedBySupport ==
  [][\A b \in Board, s \in Subject :
       Len(passed') > Len(passed) /\ passed'[Len(passed')][1] = b /\ passed'[Len(passed')][2] = s =>
         LET id == passed'[Len(passed')][3]
             content == IF s = "admin" THEN admin'[b] ELSE item'[b]
         IN  /\ <<b, s, id, content>> \in made'
             /\ Support({m \in Member : <<b, s, id, m>> \in cast'}, admin[b].weights)
                  >= admin[b].threshold]_vars

(* An id names one proposal: a vote sent for it can not be counted for another
   that took its place. *)
IdsNameOne ==
  \A p, q \in made : p[1] = q[1] /\ p[2] = q[2] /\ p[3] = q[3] => p[4] = q[4]

(* A proposal is put in force at most once: a late vote does not bring back
   what has been changed since. *)
PassedOnce ==
  \A i, j \in DOMAIN passed : passed[i] = passed[j] => i = j
=============================================================================
