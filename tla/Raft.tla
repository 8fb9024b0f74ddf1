-------------------------------- MODULE Raft --------------------------------
(***************************************************************************)
(* The Raft consensus of consensus/raft: elections, replication of the log *)
(* to the followers, the transfer of the proposed block and its commit to  *)
(* each node's chain, over connections that may break and nodes that may   *)
(* stop between two writes.                                                *)
(*                                                                         *)
(* A node's handlers run one at a time (RaftStream::start), so each is one *)
(* action; a replication task reads the storage by itself (Replicate).     *)
(* The members are fixed.  What depends on clocks (election timeout, the   *)
(* refusal of votes after a heartbeat, request_proposal_min_interval, the  *)
(* progress of the execution) may go either way.                           *)
(***************************************************************************)
EXTENDS Integers, Sequences, FiniteSets, FiniteSetsExt, Functions

CONSTANTS
  Node,        \* authorities.members
  None,        \* no vote, no block
  MaxTerm,     \* bound: elections
  MaxHeight,   \* bound: blocks of a chain
  MaxInFlight, \* bound: a replication task sends a request while fewer links are busy
  MaxLate,     \* bound: links that may still be busy when an election starts
  MaxSends,    \* bound: requests of the replication tasks, and elections while a link is busy
  MaxFaults    \* bound: restarts and broken connections

ASSUME RaftAssumption ==
  /\ IsFiniteSet(Node)
  /\ Cardinality(Node) > 1
  /\ None \notin Node
  /\ {MaxTerm, MaxHeight, MaxInFlight, MaxLate, MaxSends, MaxFaults} \subseteq Nat

VARIABLES
  term,       \* current_term
  votedFor,   \* current_voted_for
  role,       \* state
  election,   \* the term of the node's last candidacy: stands for its request ids
  granted,    \* the nodes counted in votes_granted
  ballots,    \* history: by term and node, the candidates it voted for
  won,        \* history: by term, the nodes that won its election
  commit,     \* commit_log_index
  log,        \* logs: from indices to entries
  base,       \* base_log_index and base_log_term
  proposal,   \* the stored proposal
  pending,    \* pending_proposal
  params,     \* commit_block_params
  chain,      \* the committed blocks, each with the index and term of its proof
  refreshed,  \* the height of the chain at the last refresh of the storage
  updated,    \* InternalMessage::LogUpdated is queued
  match,      \* a leader's match_index and match_term by follower
  chan,       \* the messages under way between two nodes, in order
  sends,      \* requests of the replication tasks, and elections while a link was busy, so far
  faults      \* restarts and broken connections so far

voteVars == <<term, votedFor, role, election, granted, ballots, won>>
logVars == <<commit, log, base>>
blockVars == <<proposal, pending, params>>
chainVars == <<chain, refreshed>>
bounds == <<sends, faults>>
vars == <<voteVars, logVars, blockVars, chainVars, updated, match, chan, bounds>>

Others(n) == Node \ {n}
Majority == Cardinality(Node) \div 2 + 1

(***************************************************************************)
(* Blocks and the storage.                                                 *)
(***************************************************************************)
Genesis == [index |-> 0, term |-> 0]
EmptyLog == [i \in {} |-> None]
NoMatch == [m \in Node |-> Genesis]
Tip(n) == IF chain[n] = << >> THEN None ELSE chain[n][Len(chain[n])].block
IsNext(n, b) == b.number = Len(chain[n]) + 1 /\ b.parent = Tip(n)

LastOf(lg, bs) ==
  IF DOMAIN lg = {} THEN bs
  ELSE LET i == Max(DOMAIN lg) IN [index |-> i, term |-> lg[i].term]
Last(n) == LastOf(log[n], base[n])

Blocks(lg) == {lg[i].block : i \in DOMAIN lg} \ {None}
FirstBlock(lg) == LET is == {i \in DOMAIN lg : lg[i].block # None}
                  IN IF is = {} THEN None ELSE lg[Min(is)].block
From(lg, i) == Restrict(lg, {j \in DOMAIN lg : j >= i})
Entry(i, t, b) == [j \in {i} |-> [term |-> t, block |-> b]]
Extend(lg, es) == [j \in DOMAIN lg \cup DOMAIN es |-> IF j \in DOMAIN es THEN es[j] ELSE lg[j]]
UpTo(lg, i) == Restrict(lg, {j \in DOMAIN lg : j <= i})

(* Storage::refresh of node n over its chain, from the persisted term t and
   commit index c. *)
ProofOf(c) == IF c = << >> THEN Genesis
              ELSE [index |-> c[Len(c)].index, term |-> c[Len(c)].term]
TermAfterRefresh(n, t) == IF t < ProofOf(chain[n]).term THEN ProofOf(chain[n]).term ELSE t
VoteForgotten(n, t) == None \* faulty variant: the vote is cleared at every refresh
VoteAfterRefresh(n, t) == IF t < ProofOf(chain[n]).term THEN None ELSE votedFor[n]
Refresh(n, t, c) ==
  LET bs == ProofOf(chain[n])
      kept == From(log[n], bs.index + 1)
  IN /\ base' = [base EXCEPT ![n] = bs]
     /\ term' = [term EXCEPT ![n] = TermAfterRefresh(n, t)]
     /\ votedFor' = [votedFor EXCEPT ![n] = VoteAfterRefresh(n, t)]
     /\ commit' = [commit EXCEPT ![n] = IF c < bs.index THEN bs.index ELSE c]
     /\ log' = [log EXCEPT ![n] = kept]
     /\ proposal' = [proposal EXCEPT ![n] = IF @ \in Blocks(kept) THEN @ ELSE None]
     /\ refreshed' = [refreshed EXCEPT ![n] = Len(chain[n])]

(***************************************************************************)
(* Messages.                                                               *)
(***************************************************************************)
InFlight == Cardinality({p \in Node \X Node : chan[p[1]][p[2]] # << >>})

(* Node n takes the first message of m and answers. *)
Taken(n, m) == [chan EXCEPT ![m][n] = Tail(@)]
Answer(n, m, res) == chan' = [Taken(n, m) EXCEPT ![n][m] = Append(@, res)]
First(n, m, type) == chan[m][n] # << >> /\ Head(chan[m][n]).type = type

Init ==
  /\ term = [n \in Node |-> 0]
  /\ votedFor = [n \in Node |-> None]
  /\ role = [n \in Node |-> "Follower"]
  /\ election = [n \in Node |-> 0]
  /\ granted = [n \in Node |-> {}]
  /\ ballots = [t \in 1 .. MaxTerm |-> [n \in Node |-> {}]]
  /\ won = [t \in 1 .. MaxTerm |-> {}]
  /\ commit = [n \in Node |-> 0]
  /\ log = [n \in Node |-> EmptyLog]
  /\ base = [n \in Node |-> Genesis]
  /\ proposal = [n \in Node |-> None]
  /\ pending = [n \in Node |-> None]
  /\ params = [n \in Node |-> None]
  /\ chain = [n \in Node |-> << >>]
  /\ refreshed = [n \in Node |-> 0]
  /\ updated = [n \in Node |-> FALSE]
  /\ match = [n \in Node |-> NoMatch]
  /\ chan = [n \in Node |-> [m \in Node |-> << >>]]
  /\ sends = 0
  /\ faults = 0

(***************************************************************************)
(* Elections.                                                              *)
(***************************************************************************)

(* update_state: the CandidateState or LeaderState of a node that becomes a
   follower is dropped, with its votes, requests and replications. *)
BecomeFollower(n) ==
  /\ role' = [role EXCEPT ![n] = "Follower"]
  /\ election' = [election EXCEPT ![n] = 0]
  /\ granted' = [granted EXCEPT ![n] = {}]
  /\ match' = [match EXCEPT ![n] = NoMatch]

(* A follower becomes a candidate, a candidate begins another election; the
   request goes to the validators it is connected to. *)
ElectionTimeout(n) == role[n] \in {"Follower", "Candidate"}
StartElection(n, targets) ==
  /\ ElectionTimeout(n)
  /\ term[n] < MaxTerm
  /\ InFlight <= MaxLate
  /\ IF InFlight = 0 THEN UNCHANGED sends ELSE sends < MaxSends /\ sends' = sends + 1
  /\ role' = [role EXCEPT ![n] = "Candidate"]
  /\ term' = [term EXCEPT ![n] = @ + 1]
  /\ votedFor' = [votedFor EXCEPT ![n] = n]
  /\ election' = [election EXCEPT ![n] = term[n] + 1]
  /\ granted' = [granted EXCEPT ![n] = {n}]
  /\ ballots' = [ballots EXCEPT ![term[n] + 1][n] = @ \cup {n}]
  /\ chan' = [chan EXCEPT ![n] = [m \in Node |->
       IF m \in targets
       THEN Append(@[m], [type |-> "VoteReq", id |-> term[n] + 1, term |-> term[n] + 1,
                          last |-> Last(n)])
       ELSE @[m]]]
  /\ UNCHANGED <<won, logVars, blockVars, chainVars, updated, match, faults>>

UpToDate(n, last) == last.index >= Last(n).index /\ last.term >= Last(n).term

(* The vote of node n for m in the term of the request, None if it refuses. *)
VoteOf(n, m, req) ==
  LET vote == IF req.term > term[n] THEN None ELSE votedFor[n]
  IN IF UpToDate(n, req.last) /\ vote \in {None, m} THEN m ELSE vote

OnReqRequestVote(n, m) ==
  /\ First(n, m, "VoteReq")
  /\ LET req == Head(chan[m][n])
         vote == VoteOf(n, m, req)
         grants == UpToDate(n, req.last) /\ vote = m
         Res(g) == [type |-> "VoteRes", id |-> req.id, term |-> term[n], granted |-> g]
     IN \/ \* an old term, or a heartbeat within election_timeout_min
           /\ Answer(n, m, Res(FALSE))
           /\ UNCHANGED <<term, votedFor, role, election, granted, ballots, match>>
        \/ /\ req.term >= term[n]
           /\ term' = [term EXCEPT ![n] = req.term]
           /\ votedFor' = [votedFor EXCEPT ![n] = vote]
           /\ ballots' = [ballots EXCEPT ![req.term][n] = @ \cup {c \in {m} : grants}]
           /\ Answer(n, m, Res(grants))
           /\ IF req.term > term[n] \/ vote # votedFor[n] THEN BecomeFollower(n)
              ELSE UNCHANGED <<role, election, granted, match>>
  /\ UNCHANGED <<won, logVars, blockVars, chainVars, updated, bounds>>

Elected(voters) == Cardinality(voters) >= Majority

AnyVote(n, res) == role[n] = "Candidate" \* faulty variant: an answer to an older candidacy counts
Expected(n, res) == role[n] = "Candidate" /\ res.id = election[n]

(* LeaderState::start: the followers are taken to be at the base of the log,
   and a blank entry is appended. *)
BecomeLeader(n) ==
  /\ role' = [role EXCEPT ![n] = "Leader"]
  /\ granted' = [granted EXCEPT ![n] = {}]
  /\ won' = [won EXCEPT ![election[n]] = @ \cup {n}]
  /\ match' = [match EXCEPT ![n] = [m \in Node |-> base[n]]]
  /\ log' = [log EXCEPT ![n] = Extend(@, Entry(Last(n).index + 1, term[n], None))]

OnResRequestVote(n, m) ==
  /\ First(n, m, "VoteRes")
  /\ chan' = Taken(n, m)
  /\ LET res == Head(chan[m][n])
         voters == granted[n] \cup {m}
         expected == Expected(n, res)
     IN \/ /\ ~ expected \/ (res.term <= term[n] /\ ~ res.granted)
           /\ UNCHANGED <<term, votedFor, role, election, granted, won, log, match>>
        \/ /\ expected /\ res.term > term[n]
           /\ term' = [term EXCEPT ![n] = res.term]
           /\ votedFor' = [votedFor EXCEPT ![n] = None]
           /\ BecomeFollower(n)
           /\ UNCHANGED <<won, log>>
        \/ /\ expected /\ res.term <= term[n] /\ res.granted
           /\ IF Elected(voters) THEN BecomeLeader(n)
              ELSE /\ granted' = [granted EXCEPT ![n] = voters]
                   /\ UNCHANGED <<role, won, match, log>>
           /\ UNCHANGED <<term, votedFor, election>>
  /\ UNCHANGED <<ballots, commit, base, blockVars, chainVars, updated, bounds>>

(***************************************************************************)
(* Replication.                                                            *)
(***************************************************************************)

(* LeaderState::work: a leader whose log has no proposal makes one. *)
Work(n) ==
  /\ role[n] = "Leader"
  /\ Blocks(log[n]) = {}
  /\ Len(chain[n]) < MaxHeight
  /\ LET b == [number |-> Len(chain[n]) + 1, parent |-> Tip(n), by |-> n, term |-> term[n]]
     IN /\ params' = [params EXCEPT ![n] = b]
        /\ proposal' = [proposal EXCEPT ![n] = b]
        /\ log' = [log EXCEPT ![n] = Extend(@, Entry(Last(n).index + 1, term[n], b))]
  /\ UNCHANGED <<voteVars, commit, base, pending, chainVars, updated, match, chan, bounds>>

(* ReplicationStream::replicate at a tick of the heartbeat. *)
Replicate(n, m) ==
  /\ role[n] = "Leader"
  /\ InFlight < MaxInFlight
  /\ sends < MaxSends
  /\ sends' = sends + 1
  /\ chan' = [chan EXCEPT ![n][m] = Append(@,
       [type |-> "AppendReq", id |-> election[n], term |-> term[n], prev |-> match[n][m],
        commit |-> commit[n], entries |-> From(log[n], match[n][m].index + 1)])]
  /\ UNCHANGED <<voteVars, logVars, blockVars, chainVars, updated, match, faults>>

AppendRes(req, success, t, last) ==
  [type |-> "AppendRes", id |-> req.id, success |-> success, term |-> t, last |-> last]

(* verify_proposal and on_proposal_verify_result. *)
Verdicts(n, b) == IF IsNext(n, b) THEN {"Ok", "Wait"} ELSE {"Discard"}

(* perform_append_entries on the log lg, up to the outcome of the pending
   proposal's verification and of the request for a missing one. *)
PerformAppend(n, m, req, lg) ==
  LET b == FirstBlock(req.entries)
      stored == IF proposal[n] = b THEN b ELSE None
      waiting == IF pending[n] = b THEN b ELSE None
  IN IF b = None
     THEN /\ log' = [log EXCEPT ![n] = Extend(lg, req.entries)]
          /\ Answer(n, m, AppendRes(req, TRUE, req.term, LastOf(log'[n], base[n])))
          /\ UNCHANGED blockVars
     ELSE \E verdict \in IF waiting = None THEN {"Discard"} ELSE Verdicts(n, waiting) :
          LET known == IF verdict = "Ok" THEN waiting ELSE stored
              still == IF verdict = "Wait" THEN waiting ELSE None
          IN /\ proposal' = [proposal EXCEPT ![n] = known]
             /\ pending' = [pending EXCEPT ![n] = still]
             /\ params' = [params EXCEPT ![n] = IF verdict = "Ok" THEN waiting ELSE @]
             /\ IF known # None
                THEN /\ log' = [log EXCEPT ![n] = Extend(lg, req.entries)]
                     /\ Answer(n, m, AppendRes(req, TRUE, req.term, LastOf(log'[n], base[n])))
                ELSE /\ log' = [log EXCEPT ![n] = lg]
                     /\ \E asks \in IF still = None THEN BOOLEAN ELSE {FALSE} :
                          LET res == AppendRes(req, FALSE, req.term, LastOf(lg, base[n]))
                          IN chan' = [Taken(n, m) EXCEPT ![n][m] =
                               IF asks THEN @ \o << [type |-> "ProposalReq"], res >>
                                       ELSE Append(@, res)]

PrevExists(n, prev) ==
  \/ prev.index \in DOMAIN log[n] /\ log[n][prev.index].term = prev.term
  \/ prev = base[n]

OnReqAppendEntries(n, m) ==
  /\ First(n, m, "AppendReq")
  /\ LET req == Head(chan[m][n])
         Refuse(success, last) == /\ Answer(n, m, AppendRes(req, success, term[n], last))
                                  /\ UNCHANGED <<log, blockVars>>
     IN \/ /\ req.term < term[n]
           /\ Refuse(FALSE, Last(n))
           /\ UNCHANGED <<term, votedFor, role, election, granted, match, commit>>
        \/ /\ req.term >= term[n]
           /\ commit' = [commit EXCEPT ![n] = req.commit]
           /\ term' = [term EXCEPT ![n] = req.term]
           /\ votedFor' = [votedFor EXCEPT ![n] = IF req.term > term[n] THEN None ELSE @]
           /\ BecomeFollower(n)
           /\ CASE DOMAIN req.entries = {} -> Refuse(TRUE, Last(n))
                [] DOMAIN req.entries # {} /\ Min(DOMAIN req.entries) # req.prev.index + 1
                     -> Refuse(FALSE, Last(n))
                [] DOMAIN req.entries # {} /\ Min(DOMAIN req.entries) = req.prev.index + 1
                     -> IF req.prev = Last(n) THEN PerformAppend(n, m, req, log[n])
                        ELSE IF PrevExists(n, req.prev)
                        THEN PerformAppend(n, m, req, UpTo(log[n], req.prev.index))
                        ELSE Refuse(FALSE, base[n])
  /\ updated' = [updated EXCEPT ![n] = TRUE]
  /\ UNCHANGED <<ballots, won, base, chainVars, bounds>>

(* get_new_commit_log_index: the index that a majority has reached. *)
NewCommit(n, mt) ==
  LET index == [m \in Node |-> IF m = n THEN Last(n).index ELSE mt[m].index]
  IN Max({commit[n]} \cup
         {i \in Range(index) : Cardinality({m \in Node : index[m] >= i}) >= Majority})

(* The answer to a replication task, and the leader's update of its commit
   index that follows. *)
OnResAppendEntries(n, m) ==
  /\ First(n, m, "AppendRes")
  /\ chan' = Taken(n, m)
  /\ LET res == Head(chan[m][n])
         mt == [match[n] EXCEPT ![m] = res.last]
     IN \/ /\ role[n] # "Leader" \/ res.id # election[n]
           /\ UNCHANGED <<role, election, granted, match, commit, updated>>
        \/ /\ role[n] = "Leader" /\ res.id = election[n]
           /\ \/ /\ res.term > term[n]
                 /\ BecomeFollower(n)
                 /\ UNCHANGED <<commit, updated>>
              \/ /\ res.term <= term[n]
                 /\ match' = [match EXCEPT ![n] = mt]
                 /\ IF res.last.index # match[n][m].index
                    THEN /\ commit' = [commit EXCEPT ![n] = NewCommit(n, mt)]
                         /\ updated' = [updated EXCEPT ![n] = @ \/ NewCommit(n, mt) # commit[n]]
                    ELSE UNCHANGED <<commit, updated>>
                 /\ UNCHANGED <<role, election, granted>>
  /\ UNCHANGED <<term, votedFor, ballots, won, log, base, blockVars, chainVars, bounds>>

(* A request for a proposal that is missing here ends in an error. *)
OnReqRequestProposal(n, m) ==
  /\ First(n, m, "ProposalReq")
  /\ IF proposal[n] = None THEN chan' = Taken(n, m)
     ELSE Answer(n, m, [type |-> "ProposalRes", block |-> proposal[n]])
  /\ UNCHANGED <<voteVars, logVars, blockVars, chainVars, updated, match, bounds>>

OnResRequestProposal(n, m) ==
  /\ First(n, m, "ProposalRes")
  /\ chan' = Taken(n, m)
  /\ LET b == Head(chan[m][n]).block
     IN \E verdict \in Verdicts(n, b) :
          /\ proposal' = [proposal EXCEPT ![n] = IF verdict = "Ok" THEN b ELSE @]
          /\ params' = [params EXCEPT ![n] = IF verdict = "Ok" THEN b ELSE @]
          /\ pending' = [pending EXCEPT ![n] = IF verdict = "Wait" THEN b ELSE @]
  /\ UNCHANGED <<voteVars, logVars, chainVars, updated, match, bounds>>

(***************************************************************************)
(* The chain.                                                              *)
(***************************************************************************)

(* build_block from a stored proposal, on this node's own chain. *)
Rebuilt(n, p) == [p EXCEPT !.parent = Tip(n)]
BlockToCommit(n, b) == IF params[n] = b THEN b ELSE Rebuilt(n, proposal[n])

(* on_log_updated: the first proposal at or below the commit index is committed
   with a proof of the end of this node's log.  A missing proposal, and a
   block that is not the next one, are errors. *)
OnLogUpdated(n) ==
  /\ updated[n]
  /\ updated' = [updated EXCEPT ![n] = FALSE]
  /\ LET b == FirstBlock(UpTo(log[n], commit[n]))
     IN IF b = None \/ proposal[n] = None THEN UNCHANGED <<params, chain>>
        ELSE /\ params' = [params EXCEPT ![n] = None]
             /\ chain' = IF IsNext(n, BlockToCommit(n, b))
                         THEN [chain EXCEPT ![n] = Append(@,
                                 [block |-> BlockToCommit(n, b),
                                  index |-> Last(n).index, term |-> Last(n).term])]
                         ELSE chain
  /\ UNCHANGED <<voteVars, logVars, proposal, pending, refreshed, match, chan, bounds>>

(* The coordinator commits a block of another node, with its proof. *)
Sync(n, m) ==
  /\ Len(chain[m]) > Len(chain[n])
  /\ IsNext(n, chain[m][Len(chain[n]) + 1].block)
  /\ chain' = [chain EXCEPT ![n] = Append(@, chain[m][Len(@) + 1])]
  /\ UNCHANGED <<voteVars, logVars, blockVars, refreshed, updated, match, chan, bounds>>

(* on_block_committed *)
OnBlockCommitted(n) ==
  /\ refreshed[n] < Len(chain[n])
  /\ Refresh(n, term[n], commit[n])
  /\ UNCHANGED <<role, election, granted, ballots, won, pending, params, chain, updated, match, chan, bounds>>

(***************************************************************************)
(* Failures.                                                               *)
(***************************************************************************)

(* A connection closes and opens again, with what was under way lost. *)
Disconnect(n, m) ==
  /\ faults < MaxFaults
  /\ faults' = faults + 1
  /\ chan[n][m] # << >>
  /\ chan' = [chan EXCEPT ![n][m] = << >>, ![m][n] = << >>]
  /\ UNCHANGED <<voteVars, logVars, blockVars, chainVars, updated, match, sends>>

(* What a crash may find in the database: the term and the vote are two writes,
   and so are the commit index and the term. *)
Heads(n) == {Head(chan[m][n]) : m \in {m \in Others(n) : chan[m][n] # << >>}}
PartialWrites(n) ==
  {[term |-> term[n], commit |-> commit[n]]}
  \cup (UNION {{[term |-> t, commit |-> m.commit] : t \in {term[n], m.term}} :
               m \in {h \in Heads(n) : h.type = "AppendReq" /\ h.term >= term[n]}})
  \cup {[term |-> m.term, commit |-> commit[n]] :
        m \in {h \in Heads(n) : h.type \in {"VoteReq", "VoteRes"} /\ h.term > term[n]}}
  \cup {[term |-> t, commit |-> commit[n]] :
        t \in {t \in {term[n] + 1} : t <= MaxTerm /\ ElectionTimeout(n)}}

Crash(n) ==
  /\ faults < MaxFaults
  /\ faults' = faults + 1
  /\ \E w \in PartialWrites(n) : Refresh(n, w.term, w.commit)
  /\ BecomeFollower(n)
  /\ pending' = [pending EXCEPT ![n] = None]
  /\ params' = [params EXCEPT ![n] = None]
  /\ updated' = [updated EXCEPT ![n] = FALSE]
  /\ chan' = [i \in Node |-> [j \in Node |-> IF n \in {i, j} THEN << >> ELSE chan[i][j]]]
  /\ UNCHANGED <<ballots, won, chain, sends>>

Next ==
  \E n \in Node :
    \/ \E targets \in SUBSET Others(n) : StartElection(n, targets)
    \/ Work(n)
    \/ OnLogUpdated(n)
    \/ OnBlockCommitted(n)
    \/ Crash(n)
    \/ \E m \in Others(n) :
         \/ OnReqRequestVote(n, m)
         \/ OnResRequestVote(n, m)
         \/ Replicate(n, m)
         \/ OnReqAppendEntries(n, m)
         \/ OnResAppendEntries(n, m)
         \/ OnReqRequestProposal(n, m)
         \/ OnResRequestProposal(n, m)
         \/ Sync(n, m)
         \/ Disconnect(n, m)

Spec == Init /\ [][Next]_vars

(***************************************************************************)
(* Properties.                                                             *)
(***************************************************************************)
Positions == [index : Nat, term : 0 .. MaxTerm]

(* The types; a follower has neither votes nor requests nor replications. *)
TypeOK ==
  /\ term \in [Node -> 0 .. MaxTerm]
  /\ votedFor \in [Node -> Node \cup {None}]
  /\ role \in [Node -> {"Leader", "Candidate", "Follower"}]
  /\ election \in [Node -> 0 .. MaxTerm]
  /\ granted \in [Node -> SUBSET Node]
  /\ \A n \in Node : election[n] = 0 <=> role[n] = "Follower"
  /\ \A n \in Node : granted[n] # {} => role[n] = "Candidate"
  /\ ballots \in [1 .. MaxTerm -> [Node -> SUBSET Node]]
  /\ won \in [1 .. MaxTerm -> SUBSET Node]
  /\ base \in [Node -> Positions]
  /\ match \in [Node -> [Node -> Positions]]
  /\ commit \in [Node -> Nat]
  /\ refreshed \in [Node -> 0 .. MaxHeight]
  /\ updated \in [Node -> BOOLEAN]
  /\ sends \in 0 .. MaxSends
  /\ faults \in 0 .. MaxFaults

(* Election safety: at most one node wins the votes of a term, over lost answers,
   votes that reach a node in a newer candidacy, a restart between the writes of term
   and vote, and a refresh of the storage by a synchronised block
   (on_req_request_vote, on_res_request_vote, Storage::refresh).  It is about the
   term of the candidacy. *)
ElectedOnce == \A t \in 1 .. MaxTerm : Cardinality(won[t]) <= 1

(* Not so in the code: refresh raises the term of a leader that has synchronised a
   newer leader's block, and the leader stays one, in a term whose election another
   node has won (RaftActing.cfg). *)
OneLeaderPerTerm ==
  \A n, m \in Node : role[n] = "Leader" /\ role[m] = "Leader" /\ term[n] = term[m] => n = m

(* A node's persisted term never decreases, and within a term its vote is never
   changed or taken back (update_current_term, update_current_voted_for,
   refresh). *)
VoteKept ==
  [][\A n \in Node : /\ term'[n] >= term[n]
                     /\ term'[n] = term[n] /\ votedFor[n] # None => votedFor'[n] = votedFor[n]]_vars

(* No fork: two nodes have the same block at every height that both have
   committed (on_log_updated). *)
Agreement ==
  \A n, m \in Node : \A i \in 1 .. Len(chain[n]) :
     i <= Len(chain[m]) => chain[n][i].block = chain[m][i].block
=============================================================================
