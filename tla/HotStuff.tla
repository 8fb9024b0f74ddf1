------------------------------ MODULE HotStuff ------------------------------
(***************************************************************************)
(* The HotStuff consensus of consensus/hotstuff: the four phases of a view *)
(* led by one validator, the change of view by timeout certificates, the   *)
(* transfer of the proposed block and its commit to each node's chain.     *)
(*                                                                         *)
(* A node's handlers run one at a time (LeaderState::start,                *)
(* ReplicaState::start), so each is one action.  A message that was sent   *)
(* stays in msgs: it may be taken late, in any order, or never.  The       *)
(* collectors of a node are not state of their own: what it has collected  *)
(* is any part of what was sent to it, so the step that completes a quorum *)
(* stands for the receipt of all its messages.  Messages sent to or by a   *)
(* node before it restarted count too: the peers keep them in              *)
(* pending_consensus_messages until the node has registered, and send      *)
(* their NewView again then.  Signatures are right: every validator        *)
(* follows the code.  The authorities are fixed.                           *)
(***************************************************************************)
EXTENDS Integers, Sequences, FiniteSets, FiniteSetsExt, Functions

CONSTANTS
  Members,     \* authorities.members, in their order
  Weight,      \* their weights
  None,        \* no block, no certificate
  MaxHeight,   \* bound: blocks of a chain
  MaxBlocks,   \* bound: blocks that are built
  MaxFaults    \* bound: views left by a timeout and restarts, together

Node == Range(Members)
MaxView == 1 + MaxFaults + MaxHeight

ASSUME HotStuffAssumption ==
  /\ Members \in Seq(Node) /\ Members # << >>
  /\ \A i, j \in DOMAIN Members : Members[i] = Members[j] => i = j
  /\ Weight \in [Node -> Nat \ {0}]
  /\ {MaxHeight, MaxBlocks, MaxFaults} \subseteq Nat
  /\ None \notin [number : Nat, parent : Int, id : Nat]

VARIABLES
  view,       \* view
  base,       \* base_commit_qc
  prepareQC,  \* prepare_qc
  lockedQC,   \* locked_qc
  stored,     \* the stored proposals
  chain,      \* the committed blocks, each with its commit certificate
  refreshed,  \* the height of the chain at the last refresh of the storage
  params,     \* commit_block_params
  lead,       \* the LeaderState
  alive,      \* the stream's task has not panicked
  msgs,       \* the messages sent
  made,       \* blocks built so far
  restarts    \* restarts so far

storage == <<base, prepareQC, lockedQC, stored, refreshed>>
bounds == <<made, restarts>>
vars == <<view, storage, chain, params, lead, alive, msgs, bounds>>

(***************************************************************************)
(* Weights, leaders, certificates.                                         *)
(***************************************************************************)
WeightOf(S) == MapThenSumSet(LAMBDA n : Weight[n], S)
Faulty == (WeightOf(Node) - 1) \div 3
HalfQuorum(S) == 2 * WeightOf(S) >= WeightOf(Node) \* faulty variant: half of the weight
Quorum(S) == WeightOf(S) >= WeightOf(Node) - Faulty

GenesisBlock == [number |-> 0, parent |-> -1, id |-> 0]
GenesisQC == [type |-> "Decide", view |-> 0, node |-> GenesisBlock, leader |-> Members[1]]
QC(n, type, node) == [type |-> type, view |-> view[n], node |-> node, leader |-> n]

ComputeLeader(n) ==
  LET last == CHOOSE i \in DOMAIN Members : Members[i] = base[n].leader
  IN Members[((last - 1 + view[n] - base[n].view) % Len(Members)) + 1]

(* Node n works as the leader, or as a replica, of its view. *)
AsLeader(n) == alive[n] /\ ComputeLeader(n) = n
AsReplica(n) == alive[n] /\ ComputeLeader(n) # n

(* LeaderState: the certificate of its own NewView, prepare_message,
   pending_remote_proposal with the certificate that justifies it, and the later
   messages it has sent. *)
NewLead(qc) == [own |-> qc, prepare |-> None, wanted |-> None, sent |-> {}]

(***************************************************************************)
(* The chain and the storage.                                              *)
(***************************************************************************)
Tip(n) == IF chain[n] = << >> THEN GenesisBlock ELSE chain[n][Len(chain[n])].block
IsNext(n, b) == b.number = Tip(n).number + 1 /\ b.parent = Tip(n).id

(* verify_proposal: not the next block is refused; so may the next one be, when
   its execution number is above this node's or a transaction has expired. *)
VerifyProposal(n, b) == IF IsNext(n, b) THEN {TRUE, FALSE} ELSE {FALSE}
BaseOf(n) == IF chain[n] = << >> THEN GenesisQC ELSE chain[n][Len(chain[n])].qc

(* Storage::refresh over the node's chain: the view and the certificates are
   brought past the commit certificate of its last block. *)
RefreshedQC(n, qc) == IF qc.view <= BaseOf(n).view THEN BaseOf(n) ELSE qc
Refresh(n) ==
  /\ base' = [base EXCEPT ![n] = BaseOf(n)]
  /\ view' = [view EXCEPT ![n] = Max({@, BaseOf(n).view + 1})]
  /\ prepareQC' = [prepareQC EXCEPT ![n] = RefreshedQC(n, @)]
  /\ lockedQC' = [lockedQC EXCEPT ![n] = RefreshedQC(n, @)]
  /\ stored' = [stored EXCEPT ![n] = {b \in @ : b.parent = Tip(n).id}]
  /\ refreshed' = [refreshed EXCEPT ![n] = Len(chain[n])]

(***************************************************************************)
(* The beginning of a view.                                                *)
(***************************************************************************)
NewViewOf(n) == [type |-> "NewView", from |-> n, to |-> ComputeLeader(n), view |-> view[n],
                 qc |-> prepareQC[n]]

(* A leader does not send its NewView to itself, it collects it at once. *)
SentNewView(n) == {m \in {NewViewOf(n)} : m.to # n}

Init ==
  /\ view = [n \in Node |-> 1]
  /\ base = [n \in Node |-> GenesisQC]
  /\ prepareQC = [n \in Node |-> GenesisQC]
  /\ lockedQC = [n \in Node |-> GenesisQC]
  /\ stored = [n \in Node |-> {}]
  /\ chain = [n \in Node |-> << >>]
  /\ refreshed = [n \in Node |-> 0]
  /\ params = [n \in Node |-> None]
  /\ lead = [n \in Node |-> NewLead(GenesisQC)]
  /\ alive = [n \in Node |-> TRUE]
  /\ msgs = UNION {SentNewView(n) : n \in Node}
  /\ made = 0
  /\ restarts = 0

(* run_view, at once when a handler has changed the view or the node starts:
   a new LeaderState, and a NewView to the leader unless it is the node itself.
   The conjuncts before it determine the new storage. *)
SameLead(n, sent) == lead' = lead /\ msgs' = msgs \cup sent \cup SentNewView(n)' \* faulty variant: LeaderState kept
RunView(n, sent) ==
  /\ lead' = [lead EXCEPT ![n] = NewLead(prepareQC'[n])]
  /\ msgs' = msgs \cup sent \cup SentNewView(n)'
Continue(n) ==
  IF view'[n] # view[n] THEN RunView(n, {}) ELSE msgs' = msgs /\ lead' = lead

(***************************************************************************)
(* The leader.                                                             *)
(***************************************************************************)
NewViewsTo(n) == {m \in msgs : m.type = "NewView" /\ m.to = n}

(* LeaderState::on_new_view: the highest certificate of a quorum collected.  A
   NewView that came before this node was the leader counts whatever its view
   (process_pending_new_view); its own is that of this LeaderState
   (send_new_view_to_self). *)
Reported(n) == {<<n, lead[n].own>>} \cup {<<m.from, m.qc>> : m \in NewViewsTo(n)}
WithoutHigher(n, qc) == {r[1] : r \in {r \in Reported(n) : r[2].view <= qc.view}}
HighQCs(n) == {r[2] : r \in {r \in Reported(n) : Quorum(WithoutHigher(n, r[2]))}}

Vote(n, phase, node) ==
  [type |-> "Vote", phase |-> phase, from |-> n, to |-> ComputeLeader(n), view |-> view[n], node |-> node]

(* LeaderState::on_proposal: the proposal and the prepare message go to the
   replicas; the leader votes without the check of the replicas. *)
Propose(n, b, high) ==
  /\ lead' = [lead EXCEPT ![n].prepare = b, ![n].wanted = None]
  /\ msgs' = msgs \cup {[type |-> "Prepare", view |-> view[n], node |-> b, justify |-> high],
                        Vote(n, "Prepare", b)}

Built(n) == [number |-> Tip(n).number + 1, parent |-> Tip(n).id, id |-> made + 1]
Rebuilt(n, b) == [b EXCEPT !.parent = Tip(n).id]
ToWork(n) ==
  /\ AsLeader(n)
  /\ Len(chain[n]) < MaxHeight
  /\ lead[n].prepare = None /\ lead[n].wanted = None

(* work, at a tick of the scheduler or at the last NewView message: a new block
   on the base block, or the block of the highest certificate again. *)
CreateProposal(n, high) ==
  /\ ToWork(n)
  /\ high.node.id = base[n].node.id
  /\ made < MaxBlocks
  /\ made' = made + 1
  /\ stored' = [stored EXCEPT ![n] = @ \cup {Built(n)}]
  /\ params' = [params EXCEPT ![n] = Built(n)]
  /\ Propose(n, Built(n), high)
  /\ UNCHANGED <<view, base, prepareQC, lockedQC, refreshed, chain, alive, restarts>>

ReuseProposal(n, high) ==
  LET b == high.node
      others == {r[1] : r \in {r \in Reported(n) : r[2] = high}} \ {n}
  IN /\ ToWork(n)
     /\ b.id # base[n].node.id /\ b.parent = base[n].node.id
     /\ \/ /\ b \in stored[n]
           /\ params' = [params EXCEPT ![n] = IF @ = b THEN b ELSE Rebuilt(n, b)]
           /\ Propose(n, b, high)
           /\ alive' = alive
        \/ /\ b \notin stored[n]
           /\ \/ /\ others = {}     \* gen_range over an empty range panics
                 /\ alive' = [alive EXCEPT ![n] = FALSE]
                 /\ UNCHANGED <<lead, msgs>>
              \/ /\ others # {}    \* one of them is asked for the proposal
                 /\ lead' = [lead EXCEPT ![n].wanted = high]
                 /\ UNCHANGED <<alive, msgs>>
           /\ params' = params
     /\ UNCHANGED <<view, storage, chain, bounds>>

VotesTo(n, phase) == {m \in msgs : m.type = "Vote" /\ m.to = n /\ m.view = view[n] /\ m.phase = phase}

(* verify_message: a vote that comes before this LeaderState has made its
   proposal ends the task. *)
UnexpectedVote(n) ==
  /\ AsLeader(n) /\ lead[n].prepare = None
  /\ \E phase \in {"Prepare", "PreCommit", "Commit"} : \E m \in VotesTo(n, phase) : m.from # n
  /\ alive' = [alive EXCEPT ![n] = FALSE]
  /\ UNCHANGED <<view, storage, chain, params, lead, msgs, bounds>>

(* A quorum of one phase's votes for the proposal: the next phase's message
   goes out once, with the certificate. *)
EndPhase(n, phase, next) ==
  /\ AsLeader(n) /\ lead[n].prepare # None
  /\ next \notin lead[n].sent
  /\ Quorum({m.from : m \in {m \in VotesTo(n, phase) : m.node = lead[n].prepare}})
  /\ lead' = [lead EXCEPT ![n].sent = @ \cup {next}]
  /\ msgs' = msgs \cup {[type |-> next, view |-> view[n], qc |-> QC(n, phase, lead[n].prepare)]}
                  \cup IF next = "Decide" THEN {} ELSE {Vote(n, next, lead[n].prepare)}

LeaderPrepare(n) ==
  /\ EndPhase(n, "Prepare", "PreCommit")
  /\ prepareQC' = [prepareQC EXCEPT ![n] = QC(n, "Prepare", lead[n].prepare)]
  /\ UNCHANGED <<view, base, lockedQC, stored, refreshed, chain, params, alive, bounds>>

LeaderPreCommit(n) ==
  /\ EndPhase(n, "PreCommit", "Commit")
  /\ lockedQC' = [lockedQC EXCEPT ![n] = QC(n, "PreCommit", lead[n].prepare)]
  /\ UNCHANGED <<view, base, prepareQC, stored, refreshed, chain, params, alive, bounds>>

(* on_decide: the block is committed when its proposal is stored and the built
   block is this one; the built block is taken in either case. *)
Decide(n, b, qc) ==
  /\ params' = [params EXCEPT ![n] = IF b \in stored[n] THEN None ELSE @]
  /\ chain' = IF b \in stored[n] /\ params[n] = b /\ IsNext(n, b)
              THEN [chain EXCEPT ![n] = Append(@, [block |-> b, qc |-> qc])] ELSE chain

LeaderCommit(n) ==
  /\ EndPhase(n, "Commit", "Decide")
  /\ Decide(n, lead[n].prepare, QC(n, "Commit", lead[n].prepare))
  /\ UNCHANGED <<view, storage, alive, bounds>>

(***************************************************************************)
(* The replicas.                                                           *)
(***************************************************************************)
Extends(n, b, qc) == IF qc.node.id = base[n].node.id THEN b.parent = base[n].node.id
                     ELSE b.id = qc.node.id
SafeNode(n, b, justify) ==
  /\ Extends(n, b, justify)
  /\ Extends(n, b, lockedQC[n]) \/ justify.view > lockedQC[n].view

(* The proposal comes right before its prepare message: it is verified against
   the chain and stored, or dropped, by a node of any view; then a replica of
   the message's view votes.  A message is not taken twice. *)
OnPrepare(n, m, verified) ==
  LET b == m.node
      known == IF verified THEN stored[n] \cup {b} ELSE stored[n]
      votes == AsReplica(n) /\ m.view = view[n] /\ b \in known /\ SafeNode(n, b, m.justify)
      vote == IF votes THEN {Vote(n, "Prepare", b)} ELSE {}
  IN /\ m.type = "Prepare"
     /\ alive[n]
     /\ verified \in VerifyProposal(n, b)
     /\ known # stored[n] \/ ~ vote \subseteq msgs
     /\ stored' = [stored EXCEPT ![n] = known]
     /\ params' = [params EXCEPT ![n] = IF verified THEN b ELSE @]
     /\ msgs' = msgs \cup vote
     /\ UNCHANGED <<view, base, prepareQC, lockedQC, refreshed, chain, lead, alive, bounds>>

OnPreCommit(n, m) ==
  /\ m.type = "PreCommit" /\ m.view = view[n]
  /\ AsReplica(n)
  /\ Vote(n, "PreCommit", m.qc.node) \notin msgs
  /\ prepareQC' = [prepareQC EXCEPT ![n] = m.qc]
  /\ msgs' = msgs \cup {Vote(n, "PreCommit", m.qc.node)}
  /\ UNCHANGED <<view, base, lockedQC, stored, refreshed, chain, params, lead, alive, bounds>>

OnCommit(n, m) ==
  /\ m.type = "Commit" /\ m.view = view[n]
  /\ AsReplica(n)
  /\ Vote(n, "Commit", m.qc.node) \notin msgs
  /\ lockedQC' = [lockedQC EXCEPT ![n] = m.qc]
  /\ msgs' = msgs \cup {Vote(n, "Commit", m.qc.node)}
  /\ UNCHANGED <<view, base, prepareQC, stored, refreshed, chain, params, lead, alive, bounds>>

OnDecide(n, m) ==
  /\ m.type = "Decide" /\ m.view = view[n]
  /\ AsReplica(n)
  /\ Decide(n, m.qc.node, m.qc)
  /\ UNCHANGED <<view, storage, lead, alive, msgs, bounds>>

(* on_remote_proposal: the proposal asked for is verified like any other, and
   proposed whatever the verification says. *)
OnRemoteProposal(n, verified) ==
  LET b == lead[n].wanted.node
  IN /\ AsLeader(n) /\ lead[n].wanted # None
     /\ verified \in VerifyProposal(n, b)
     /\ stored' = [stored EXCEPT ![n] = IF verified THEN @ \cup {b} ELSE @]
     /\ params' = [params EXCEPT ![n] = IF verified \/ @ = b THEN b ELSE Rebuilt(n, b)]
     /\ Propose(n, b, lead[n].wanted)
     /\ UNCHANGED <<view, base, prepareQC, lockedQC, refreshed, chain, alive, bounds>>

(***************************************************************************)
(* Timeouts.                                                               *)
(***************************************************************************)
TimedOut == {m.view : m \in {m \in msgs : m.type = "NewTimeout"}}
OnTimeout(n) ==
  /\ alive[n]
  /\ Len(chain[n]) < MaxHeight
  /\ restarts + Cardinality(TimedOut \cup {view[n]}) <= MaxFaults
  /\ msgs' = msgs \cup {[type |-> "NewTimeout", from |-> n, view |-> view[n]]}
  /\ UNCHANGED <<view, storage, chain, params, lead, alive, bounds>>

(* advance_view, to the view after v. *)
AdvanceView(n, v, sent) ==
  /\ view' = [view EXCEPT ![n] = v + 1]
  /\ UNCHANGED <<storage, chain, params, alive, bounds>>
  /\ RunView(n, sent)

EveryTimeout(n, v) == TRUE \* faulty variant: a message of an earlier view is taken
InTime(n, v) == v >= view[n]

(* The messages of one view that are collected, and the certificate they make *)
TimeoutsOf(v) == {m.from : m \in {m \in msgs : m.type = "NewTimeout" /\ m.view = v}}
VerifyTC(v) == Quorum(TimeoutsOf(v))

(* on_timeout_new_timeout: a quorum of messages of one view. *)
OnTimeoutQuorum(n, v) ==
  /\ alive[n]
  /\ InTime(n, v)
  /\ VerifyTC(v)
  /\ AdvanceView(n, v, {[type |-> "TimeoutDecide", view |-> v]})

(* on_timeout_decide.  The certificate of an earlier view that a NewTimeout
   message carries is one that was sent in a decision. *)
OnTimeoutDecide(n, m) ==
  /\ m.type = "TimeoutDecide"
  /\ alive[n]
  /\ InTime(n, m.view)
  /\ VerifyTC(m.view)
  /\ AdvanceView(n, m.view, {})

(***************************************************************************)
(* The chain, restarts.                                                    *)
(***************************************************************************)

(* The coordinator commits a block of another node, with its proof. *)
Sync(n, m) ==
  /\ Len(chain[m]) > Len(chain[n])
  /\ IsNext(n, chain[m][Len(chain[n]) + 1].block)
  /\ chain' = [chain EXCEPT ![n] = Append(@, chain[m][Len(@) + 1])]
  /\ UNCHANGED <<view, storage, params, lead, alive, msgs, bounds>>

(* on_block_committed *)
OnBlockCommitted(n) ==
  /\ alive[n]
  /\ refreshed[n] < Len(chain[n])
  /\ Refresh(n)
  /\ Continue(n)
  /\ UNCHANGED <<chain, params, alive, bounds>>

(* A restart keeps the database. *)
Restart(n) ==
  /\ restarts + Cardinality(TimedOut) < MaxFaults
  /\ restarts' = restarts + 1
  /\ Refresh(n)
  /\ RunView(n, {})
  /\ params' = [params EXCEPT ![n] = None]
  /\ alive' = [alive EXCEPT ![n] = TRUE]
  /\ UNCHANGED <<chain, made>>

Next ==
  \E n \in Node :
    \/ \E high \in HighQCs(n) : CreateProposal(n, high)
    \/ \E high \in HighQCs(n) : ReuseProposal(n, high)
    \/ \E verified \in BOOLEAN : OnRemoteProposal(n, verified)
    \/ UnexpectedVote(n)
    \/ LeaderPrepare(n)
    \/ LeaderPreCommit(n)
    \/ LeaderCommit(n)
    \/ OnTimeout(n)
    \/ \E v \in 1 .. MaxView : OnTimeoutQuorum(n, v)
    \/ OnBlockCommitted(n)
    \/ Restart(n)
    \/ \E m \in Node \ {n} : Sync(n, m)
    \/ \E m \in msgs :
         \/ \E verified \in BOOLEAN : OnPrepare(n, m, verified)
         \/ OnPreCommit(n, m)
         \/ OnCommit(n, m)
         \/ OnDecide(n, m)
         \/ OnTimeoutDecide(n, m)

Spec == Init /\ [][Next]_vars

(***************************************************************************)
(* Properties.                                                             *)
(***************************************************************************)
Block == [number : 0 .. MaxHeight, parent : -1 .. MaxBlocks, id : 0 .. MaxBlocks]
Phases == {"Prepare", "PreCommit", "Commit", "Decide"}
Certificate == [type : Phases, view : 0 .. MaxView, node : Block, leader : Node]

(* The types; a replica has no LeaderState. *)
TypeOK ==
  /\ view \in [Node -> 1 .. MaxView]
  /\ \A f \in {base, prepareQC, lockedQC} : f \in [Node -> Certificate]
  /\ stored \in [Node -> SUBSET Block]
  /\ params \in [Node -> Block \cup {None}]
  /\ \A n \in Node : AsReplica(n) => lead[n] = NewLead(lead[n].own)
  /\ alive \in [Node -> BOOLEAN]
  /\ made \in 0 .. MaxBlocks
  /\ restarts \in 0 .. MaxFaults

(* No fork: two nodes have the same block at every height that both have
   committed, over stale NewView messages, leaders that vote for their own
   proposal without the safe-node check, lost decisions and restarts in the
   middle of a view (on_new_view, on_prepare, on_decide). *)
Agreement ==
  \A n, m \in Node : \A i \in 1 .. Len(chain[n]) :
     i <= Len(chain[m]) => chain[n][i].block = chain[m][i].block

(* A node's view, and the views of its prepare and locked certificates, never
   decrease, whatever late timeout messages, decisions and synchronised blocks
   it takes, and over restarts (advance_view, update_locked_qc, refresh). *)
ViewsGrow ==
  [][\A n \in Node : /\ view'[n] >= view[n]
                     /\ prepareQC'[n].view >= prepareQC[n].view
                     /\ lockedQC'[n].view >= lockedQC[n].view]_vars
=============================================================================
