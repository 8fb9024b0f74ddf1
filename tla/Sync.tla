-------------------------------- MODULE Sync --------------------------------
(***************************************************************************)
(* ChainSync of the coordinator: the blocks that the peers have announced  *)
(* and this node lacks are requested in groups, taken from the responses,  *)
(* verified and committed in order, while the consensus of the node        *)
(* commits blocks of its own and the execution follows behind.             *)
(*                                                                         *)
(* The handlers of the coordinator's stream run one at a time.  The chain  *)
(* runs beside them, and between the verified blocks of a handler: it      *)
(* tells of its commits through a channel, and its current_state, which    *)
(* the coordinator reads, may be set back by the executor.  A request is   *)
(* answered late, in part or never; a response is lost with its            *)
(* connection.  Blocks are their numbers: the peers of Forked have, at     *)
(* every number, a block that this node's chain refuses.                   *)
(***************************************************************************)
EXTENDS Integers, Sequences, FiniteSets, FiniteSetsExt, Functions

CONSTANTS
  Peer,
  Forked,            \* the peers whose blocks do not verify
  MaxExecutionGap,   \* how far the execution may be behind a block
  PendingBlocksSize, \* PENDING_BLOCKS_SIZE
  RequestBlockSize,  \* PEER_REQUEST_BLOCK_SIZE
  Start,             \* the height of each peer's chain at the beginning
  MaxHeight,         \* bound: the height of every chain
  MaxOwn,            \* bound: the height up to which the consensus commits
  MaxPeers,          \* bound: the peers that are connected at once
  MaxFaults          \* bound: closed connections, lost, late and short answers

ASSUME SyncAssumption ==
  /\ Forked \subseteq Peer /\ IsFiniteSet(Peer)
  /\ {MaxExecutionGap, PendingBlocksSize, RequestBlockSize, MaxHeight} \subseteq Nat \ {0}
  /\ Start \in [Peer -> 0 .. MaxHeight]
  /\ MaxOwn \in 0 .. MaxHeight /\ {MaxPeers, MaxFaults} \subseteq Nat

VARIABLES
  confirmed,  \* the chain: the confirmed number in the database
  executed,   \* the chain: the executed number in the database
  current,    \* the chain: current_state, which the coordinator reads
  refreshing, \* the chain: threads between their write to the database and that of current_state
  chainRx,    \* the chain's messages to the coordinator
  height,     \* the chain of each peer
  peers,      \* peers: confirmed_number and the request it is Downloading (its timer runs)
  pending,    \* pending_blocks
  requests,   \* requests that the peers have not answered yet
  pc,         \* how far maintain_downloaded is
  reported,   \* peers reported for an invalid block
  left,       \* history: pending blocks that a handler has left with nobody to move them on
  faults

chain == <<confirmed, executed, current, refreshing, chainRx>>
vars == <<chain, height, peers, pending, requests, pc, reported, left, faults>>

Vacant == 0
Seen == [state |-> "Seen"]
Downloading(p, id) == [state |-> "Downloading", from |-> p, id |-> id]
Downloaded(p) == [state |-> "Downloaded", from |-> p]

(***************************************************************************)
(* The two halves of sync.                                                 *)
(***************************************************************************)
MaxPending(blocks) == IF DOMAIN blocks = {} THEN current.confirmed ELSE Max(DOMAIN blocks)

NoPending == [k \in {} |-> Seen]
Merge(blocks, more) == [k \in DOMAIN blocks \cup DOMAIN more |->
                          IF k \in DOMAIN more THEN more[k] ELSE blocks[k]]

(* Faulty variant of maintain_new: the number of pending blocks counted at the
   wrong end. *)
NewSkipping(known, blocks) ==
  LET last == MaxPending(blocks)
      top == Min({Max({known[p].number : p \in DOMAIN known}), last + PendingBlocksSize})
  IN IF DOMAIN known = {} THEN blocks
     ELSE Merge([k \in last + 1 + Cardinality(DOMAIN blocks) .. top |-> Seen], blocks)

(* Faulty variant of maintain_new: the blocks that are pending are not counted. *)
NewUnlimited(known, blocks) ==
  LET last == MaxPending(blocks)
      top == Min({Max({known[p].number : p \in DOMAIN known}), last + PendingBlocksSize})
  IN IF DOMAIN known = {} THEN blocks
     ELSE IF top > last THEN Merge(blocks, [k \in last + 1 .. top |-> Seen])
     ELSE Restrict(blocks, DOMAIN blocks \ (top + 1 .. last))

(* maintain_new: the blocks up to the highest number of a peer. *)
MaintainNew(known, blocks) ==
  LET last == MaxPending(blocks)
      top == Min({Max({known[p].number : p \in DOMAIN known}),
                  last + PendingBlocksSize - Cardinality(DOMAIN blocks)})
  IN IF DOMAIN known = {} THEN blocks
     ELSE IF top > last THEN Merge(blocks, [k \in last + 1 .. top |-> Seen])
     ELSE Restrict(blocks, DOMAIN blocks \ (top + 1 .. last))

(* make_seen_groups: successive Seen entries of the map, in groups of at most
   RequestBlockSize; the first number of each group with its size. *)
MakeSeenGroups(blocks) ==
  LET entries(j, k) == (j .. k) \cap DOMAIN blocks
      seen(j, k) == \A i \in entries(j, k) : blocks[i] = Seen
      place(k) == Cardinality({j \in DOMAIN blocks : j <= k /\ seen(j, k)})
      firsts == {k \in DOMAIN blocks : blocks[k] = Seen /\ (place(k) - 1) % RequestBlockSize = 0}
  IN [k \in firsts |-> Cardinality({l \in DOMAIN blocks : /\ l >= k /\ seen(k, l)
                                       /\ Cardinality(entries(k, l)) <= RequestBlockSize})]

(* maintain_seen: who is asked for which group.  Each group in turn goes to a
   vacant peer that has its blocks, of these to one with the lowest number. *)
Assignments(known, groups) ==
  LET able(asg, k) ==
        {p \in DOMAIN known : /\ known[p].id = Vacant
                              /\ known[p].number >= k + groups[k] - 1
                              /\ \A j \in DOMAIN groups : j < k => asg[j] # {p}}
      lowest(S) == {p \in S : \A q \in S : known[p].number <= known[q].number}
  IN {asg \in [DOMAIN groups -> {{}} \cup {{p} : p \in DOMAIN known}] :
        \A k \in DOMAIN groups : asg[k] \in IF able(asg, k) = {} THEN {{}}
                                           ELSE {{p} : p \in lowest(able(asg, k))}}

(* next_request_id: a number that nothing refers to any more. *)
FreshId(p, flying, blocks) ==
  Min(1 .. Cardinality(flying) + Cardinality(DOMAIN blocks) + 1
        \ ({r.id : r \in {r \in flying : r.peer = p}}
            \cup {blocks[k].id : k \in {k \in DOMAIN blocks : /\ blocks[k].state = "Downloading"
                                                            /\ blocks[k].from = p}}))

Entries(blocks) == {<<k, blocks[k]>> : k \in DOMAIN blocks}

(* sync, after a handler has left the peers `known`, the pending blocks `blocks`
   and the requests `flying`. *)
SyncWith(known, blocks, flying) ==
  \E all \in {MaintainNew(known, blocks)} :
  \E groups \in {MakeSeenGroups(all)} :
  \E asg \in Assignments(known, groups) :
    LET made == UNION {{[peer |-> p, id |-> FreshId(p, flying, all), number |-> k, count |-> groups[k]] :
                          p \in asg[k]} : k \in DOMAIN groups}
        of(r) == r.number .. r.number + r.count - 1
    IN /\ peers' = [p \in DOMAIN known |->
                      IF \E r \in made : r.peer = p
                      THEN [known[p] EXCEPT !.id = FreshId(p, flying, all)] ELSE known[p]]
       /\ pending' = [k \in DOMAIN all |->
                        IF \E r \in made : k \in of(r)
                        THEN LET r == CHOOSE r \in made : k \in of(r) IN Downloading(r.peer, r.id)
                        ELSE all[k]]
       /\ requests' = flying \cup made
       /\ left' = left \cap Entries(pending')

(* The blocks with the numbers ks become Seen. *)
Reset(blocks, ks) == [k \in DOMAIN blocks |-> IF k \in ks THEN Seen ELSE blocks[k]]

(***************************************************************************)
(* maintain_downloaded, which runs at the end of two handlers.             *)
(***************************************************************************)
(* A thread has written the database and not yet current_state; the consensus
   holds commit_block_lock meanwhile. *)
Busy(by) == \E u \in refreshing : u.by = by

First == Min(DOMAIN pending)
FirstDownloaded == DOMAIN pending # {} /\ pending[First].state = "Downloaded"
Others == Restrict(pending, DOMAIN pending \ {First})

(* The loop ends at a block that is discarded; the next one has to wait for another
   handler to run the loop, even when it is downloaded. *)
Discard ==
  /\ pending' = Others
  /\ left' = (left \cup {e \in Entries(Others) : e[1] = Min(DOMAIN Others) /\ e[2].state = "Downloaded"})
              \cap Entries(Others)
  /\ pc' = "end"

(* verify_not_repeat, of the first block when it is downloaded. *)
VerifyNotRepeat ==
  LET repeated == pending[First].from \notin Forked /\ First <= confirmed
  IN /\ pc = "loop" /\ FirstDownloaded
     /\ \/ repeated /\ Discard
        \/ ~repeated /\ pc' = "verify" /\ UNCHANGED <<pending, left>>
     /\ UNCHANGED <<chain, height, peers, requests, reported, faults>>

(* The rest of verify_block, and commit_block, of the block k from p: all but the
   last check read current_state. *)
Verdict(k, p) ==
  IF k # current.confirmed + 1 THEN "Reset"
  ELSE IF k - MaxExecutionGap > current.executed THEN "Wait"
  ELSE IF p \in Forked THEN "Reset"
  ELSE IF k # confirmed + 1 THEN "Discard" ELSE "Ok"

VerifyBlock ==
  LET p == pending[First].from
      verdict == Verdict(First, p)
  IN /\ pc = "verify"
     /\ ~Busy("consensus") \/ verdict \notin {"Ok", "Discard"}
     /\ \/ /\ verdict = "Ok"
           /\ confirmed' = First
           /\ current' = [confirmed |-> First, executed |-> executed]
           /\ chainRx' = Append(chainRx, [type |-> "BlockCommitted", number |-> First])
           /\ pending' = Others /\ left' = left \cap Entries(Others)
           /\ pc' = "loop" /\ UNCHANGED reported
        \/ verdict = "Wait" /\ pc' = "end" /\ UNCHANGED <<confirmed, current, chainRx, pending, left, reported>>
        \/ verdict = "Discard" /\ Discard /\ UNCHANGED <<confirmed, current, chainRx, reported>>
        \/ /\ verdict = "Reset"
           /\ pending' = Reset(Others, {k \in DOMAIN Others : Others[k] = Downloaded(p)})
           /\ left' = left \cap Entries(pending')
           /\ reported' = reported \cup {p}
           /\ pc' = "end" /\ UNCHANGED <<confirmed, current, chainRx>>
     /\ UNCHANGED <<executed, refreshing, height, peers, requests, faults>>

(* The end of maintain_downloaded. *)
EndDownloaded ==
  /\ \/ pc = "end"
     \/ pc = "loop" /\ ~FirstDownloaded
  /\ SyncWith(peers, pending, requests)
  /\ pc' = "idle"
  /\ UNCHANGED <<chain, height, reported, faults>>

(***************************************************************************)
(* The handlers.                                                           *)
(***************************************************************************)
Init ==
  /\ confirmed = 0 /\ executed = 0
  /\ current = [confirmed |-> 0, executed |-> 0] /\ refreshing = {}
  /\ chainRx = << >>
  /\ height = Start
  /\ peers = [p \in {} |-> [number |-> 0, id |-> Vacant]]
  /\ pending = NoPending
  /\ requests = {}
  /\ pc = "idle"
  /\ reported = {}
  /\ left = {}
  /\ faults = 0

Fault == faults < MaxFaults /\ faults' = faults + 1

(* The peer's handshake may have been built before its last commit. *)
OnProtocolOpen(p) ==
  /\ pc = "idle" /\ p \notin DOMAIN peers /\ Cardinality(DOMAIN peers) < MaxPeers
  /\ \E number \in {Max({0, height[p] - 1}), height[p]} :
       SyncWith(Merge(peers, [q \in {p} |-> [number |-> number, id |-> Vacant]]), pending, requests)
  /\ UNCHANGED <<chain, height, pc, reported, faults>>

CloseOnly(p) == \* faulty variant: the blocks the peer was downloading stay as they are
  /\ pc = "idle" /\ p \in DOMAIN peers
  /\ Fault
  /\ SyncWith(Restrict(peers, DOMAIN peers \ {p}), pending, {r \in requests : r.peer # p})
  /\ UNCHANGED <<chain, height, pc, reported>>

(* The connection is lost, and with it what the peer would have answered. *)
OnProtocolClose(p) ==
  /\ pc = "idle" /\ p \in DOMAIN peers
  /\ Fault
  /\ SyncWith(Restrict(peers, DOMAIN peers \ {p}),
              Reset(pending, {k \in DOMAIN pending : pending[k].state = "Downloading" /\ pending[k].from = p}),
              {r \in requests : r.peer # p})
  /\ UNCHANGED <<chain, height, pc, reported>>

(* The peer has committed a block and announces it. *)
OnBlockAnnounce(p) ==
  /\ pc = "idle" /\ p \in DOMAIN peers
  /\ height[p] < MaxHeight
  /\ height' = [height EXCEPT ![p] = @ + 1]
  /\ SyncWith([peers EXCEPT ![p].number = height[p] + 1], pending, requests)
  /\ UNCHANGED <<chain, pc, reported, faults>>

(* on_block_request, of the peer: its blocks from the number on, as many as were
   asked for or, when its own current_state is behind, fewer, but at least one.
   The peers of Forked answer with any blocks. *)
Answers(r) ==
  LET last == Min({r.number + r.count - 1, height[r.peer]})
  IN {r.number .. k : k \in r.number .. last} \cup IF r.peer \in Forked THEN SUBSET DOMAIN pending ELSE {}

OnBlockResponse(r) ==
  LET awaited == r.peer \in DOMAIN peers /\ peers[r.peer].id = r.id
      downloading == {k \in DOMAIN pending : pending[k].state = "Downloading"}
      of == {k \in downloading : pending[k] = Downloading(r.peer, r.id)}
  IN /\ pc = "idle"
     /\ requests' = requests \ {r}
     /\ \E blocks \in IF awaited THEN {a \cap downloading : a \in Answers(r)} ELSE {{}} :
          /\ pending' = [k \in DOMAIN pending |-> IF k \in blocks THEN Downloaded(r.peer) ELSE pending[k]]
          /\ left' = {e \in left \cap Entries(pending') : e[2].state = "Downloading"}
                      \cup IF awaited THEN {<<k, pending[k]>> : k \in of \ blocks} ELSE {}
          /\ IF awaited /\ ~ of \subseteq blocks THEN Fault ELSE UNCHANGED faults
     /\ peers' = IF awaited THEN [peers EXCEPT ![r.peer].id = Vacant] ELSE peers
     /\ pc' = "loop"
     /\ UNCHANGED <<chain, height, reported>>

(* The peer's handler fails, or lacks the block, and nothing is answered. *)
LoseRequest(r) ==
  /\ Fault
  /\ requests' = requests \ {r}
  /\ UNCHANGED <<chain, height, peers, pending, pc, reported, left>>

TimerWithoutSync(p) == \* faulty variant: the blocks are not requested again
  /\ pc = "idle" /\ p \in DOMAIN peers /\ peers[p].id # Vacant
  /\ \A r \in requests : r.peer = p => r.id # peers[p].id
  /\ peers' = [peers EXCEPT ![p].id = Vacant]
  /\ pending' = Reset(pending, {k \in DOMAIN pending : pending[k] = Downloading(p, peers[p].id)})
  /\ UNCHANGED <<chain, height, requests, pc, reported, left, faults>>

(* The timer of the request that the peer is downloading; the timer of another
   request does nothing.  An answer may still be on its way. *)
OnBlockRequestTimerTrigger(p) ==
  LET id == peers[p].id
      late == \E r \in requests : r.peer = p /\ r.id = id
  IN /\ pc = "idle" /\ p \in DOMAIN peers /\ id # Vacant
     /\ IF late THEN Fault ELSE UNCHANGED faults
     /\ SyncWith([peers EXCEPT ![p].id = Vacant],
                 Reset(pending, {k \in DOMAIN pending : pending[k] = Downloading(p, id)}), requests)
     /\ UNCHANGED <<chain, height, pc, reported>>

OnBlockCommitted ==
  LET others == Restrict(pending, DOMAIN pending \ {Head(chainRx).number})
  IN /\ pc = "idle" /\ chainRx # << >> /\ Head(chainRx).type = "BlockCommitted"
     /\ chainRx' = Tail(chainRx)
     /\ pending' = others
     /\ left' = left \cap Entries(others)
     /\ UNCHANGED <<confirmed, executed, current, refreshing, height, peers, requests, pc, reported, faults>>

(* maintain_downloaded at each executed block. *)
OnExecutionCommitted ==
  /\ pc = "idle" /\ chainRx # << >> /\ Head(chainRx).type = "ExecutionCommitted"
  /\ chainRx' = Tail(chainRx)
  /\ left' = {e \in left : e[2].state = "Downloading"}
  /\ pc' = "loop"
  /\ UNCHANGED <<confirmed, executed, current, refreshing, height, peers, pending, requests, reported, faults>>

(***************************************************************************)
(* The chain: the consensus commits a block, the executor the execution of *)
(* the next block whose commit has returned.  Each writes the database,    *)
(* reads the confirmed number and then overwrites current_state.           *)
(***************************************************************************)
ConsensusCommit ==
  /\ ~Busy("consensus") /\ confirmed < MaxOwn
  /\ confirmed' = confirmed + 1
  /\ refreshing' = refreshing \cup {[by |-> "consensus", confirmed |-> confirmed + 1]}
  /\ UNCHANGED <<executed, current, chainRx, height, peers, pending, requests, pc, reported, left, faults>>

Execute ==
  /\ ~Busy("executor")
  /\ executed < IF Busy("consensus") THEN confirmed - 1 ELSE confirmed
  /\ executed' = executed + 1
  /\ refreshing' = refreshing \cup {[by |-> "executor", confirmed |-> confirmed]}
  /\ UNCHANGED <<confirmed, current, chainRx, height, peers, pending, requests, pc, reported, left, faults>>

(* The write of current_state, and the message. *)
UpdateCurrentState(u) ==
  /\ refreshing' = refreshing \ {u}
  /\ current' = [confirmed |-> u.confirmed, executed |-> executed]
  /\ chainRx' = Append(chainRx, IF u.by = "consensus" THEN [type |-> "BlockCommitted", number |-> u.confirmed]
                                ELSE [type |-> "ExecutionCommitted", number |-> executed])
  /\ UNCHANGED <<confirmed, executed, height, peers, pending, requests, pc, reported, left, faults>>

Next ==
  \/ \E p \in Peer : OnProtocolOpen(p) \/ OnProtocolClose(p) \/ OnBlockAnnounce(p)
                   \/ OnBlockRequestTimerTrigger(p)
  \/ \E r \in requests : OnBlockResponse(r) \/ LoseRequest(r)
  \/ OnBlockCommitted
  \/ OnExecutionCommitted
  \/ VerifyNotRepeat \/ VerifyBlock \/ EndDownloaded
  \/ ConsensusCommit
  \/ Execute
  \/ \E u \in refreshing : UpdateCurrentState(u)

(* The stream takes every message of its channels and finishes its handlers; a
   peer answers, or the timer of the request expires; the chain's threads go on.
   The first three conjuncts are weak fairness with the guard of the action for
   ENABLED. *)
Expired == \E p \in DOMAIN peers : /\ peers[p].id # Vacant
                                  /\ \A r \in requests : r.peer = p => r.id # peers[p].id
Fairness ==
  /\ []<>(requests = {}) \/ []<><<\E r \in requests : OnBlockResponse(r)>>_vars
  /\ []<>~Expired \/ []<><<\E p \in Peer : OnBlockRequestTimerTrigger(p)>>_vars
  /\ []<>(pc = "idle") \/ []<><<VerifyNotRepeat \/ VerifyBlock \/ EndDownloaded>>_vars
  /\ SF_vars(OnBlockCommitted \/ OnExecutionCommitted)
  /\ WF_vars(Execute \/ \E u \in refreshing : UpdateCurrentState(u))

Spec == Init /\ [][Next]_vars /\ Fairness

(***************************************************************************)
(* Properties.                                                             *)
(***************************************************************************)
(* The types.  No more than PENDING_BLOCKS_SIZE blocks are pending, however the
   blocks that maintain_new adds meet those that are left (maintain_new). *)
TypeOK ==
  /\ confirmed \in 0 .. MaxHeight /\ executed \in 0 .. confirmed
  /\ current.confirmed \in 0 .. confirmed /\ current.executed \in 0 .. executed
  /\ DOMAIN peers \subseteq Peer /\ DOMAIN pending \subseteq 1 .. MaxHeight
  /\ \A p \in DOMAIN peers : peers[p].number \in 0 .. height[p]
  /\ \A k \in DOMAIN pending : pending[k].state \in {"Seen", "Downloading", "Downloaded"}
  /\ Cardinality(DOMAIN pending) <= PendingBlocksSize

(* Between two pending blocks only blocks that the chain has are missing: a block
   that the node still lacks is either pending or below or above all the pending
   ones, where maintain_new and the verification of the first block come to it.
   maintain_new starts from the last pending block, and from current_state when
   nothing is pending; the latter may have been set back, so that blocks the chain
   has are pending again and their BlockCommitted message is not to come. *)
HolesCommitted ==
  \A k, l \in DOMAIN pending : \A j \in k .. l : j \in DOMAIN pending \/ j <= confirmed

(* A block that is Downloading is awaited: its peer is connected, and is downloading
   under the very request id, whose timer runs, so that a lost or late answer cannot
   leave the block waiting for ever.  The one exception is a block that an answer
   has left out (on_block_response, on_protocol_close, on_block_request_timer_trigger). *)
DownloadAwaited ==
  \A k \in DOMAIN pending : pending[k].state = "Downloading" =>
     /\ pending[k].from \in DOMAIN peers
     /\ peers[pending[k].from].id = pending[k].id \/ <<k, pending[k]>> \in left

CaughtUp == \A p \in DOMAIN peers : confirmed >= peers[p].number

(* The node catches up with every connected peer, over lost and late answers, closed
   connections, blocks committed by the consensus and a current_state that is set
   back, or it stops in one of three ways: at a block that a short answer has left
   Downloading, at a downloaded block behind one that was discarded, or after it has
   reported a peer for a block that it did not take (on_block_response,
   maintain_downloaded, on_block_request_timer_trigger). *)
CatchUp == <>[](CaughtUp \/ left # {} \/ reported # {})

(* Not so in the code: a short answer is enough (SyncStops.cfg). *)
CatchUpAlways == <>[]CaughtUp
=============================================================================
