----------------------------- MODULE PeerManager -----------------------------
(***************************************************************************)
(* The peer manager: which peers hold one of the slots for incoming and    *)
(* outgoing connections.  It runs inside the network's task, so its        *)
(* operations are functions of its state m:                                *)
(*                                                                         *)
(*   active        the peers with a slot, oldest first: peer, state, type  *)
(*   in, out       in_peers and out_peers, counted beside the map          *)
(*   inactive      the peers without one, oldest first                     *)
(*   reserved, reservedOnly   the configuration                            *)
(*   scores        the scores of the peers                                 *)
(*   messages      out_messages, not taken by the network yet              *)
(***************************************************************************)
EXTENDS Integers, Sequences, FiniteSets, SequencesExt

CONSTANTS
  Peer,
  MaxInPeers, MaxOutPeers,  \* max_in_peers, max_out_peers
  MinScore,                 \* MIN_SCORE
  ScoreFloor                \* the score at which the sum saturates (i32::MIN)

ASSUME PeerManagerAssumption ==
  /\ IsFiniteSet(Peer)
  /\ MaxInPeers \in Nat /\ MaxOutPeers \in Nat
  /\ MinScore \in Int /\ ScoreFloor \in Int /\ ScoreFloor < MinScore

(* The maps keep the order of insertion; a key that is inserted again moves to
   the end. *)
InsertPeer(s, p) == Append(SelectSeq(s, LAMBDA q : q # p), p)
RemovePeer(s, p) == SelectSeq(s, LAMBDA q : q # p)

IsActive(m, p) == \E i \in DOMAIN m.active : m.active[i].peer = p
InfoOf(m, p) == CHOOSE a \in Range(m.active) : a.peer = p
TypeOf(m, p) == IF p \in m.reserved THEN "Reserved" ELSE "Normal"

Send(m, message, p) == [m EXCEPT !.messages = Append(@, [type |-> message, peer |-> p])]

(* ActivePeers: the counters follow the map. *)
Count(m, state, n) == IF state = "In" THEN [m EXCEPT !.in = @ + n] ELSE [m EXCEPT !.out = @ + n]
AddActive(m, p, state) ==
  Count([m EXCEPT !.active = Append(@, [peer |-> p, state |-> state, type |-> TypeOf(m, p)])], state, 1)
KeepCount(m, p) == [m EXCEPT !.active = SelectSeq(@, LAMBDA a : a.peer # p)] \* faulty variant: not counted
RemoveActive(m, p) ==
  IF ~ IsActive(m, p) THEN m
  ELSE Count([m EXCEPT !.active = SelectSeq(@, LAMBDA a : a.peer # p)], InfoOf(m, p).state, -1)

(* insert_peer: a reserved peer takes the slot of the oldest normal one. *)
OneTooMany(m, state) == IF state = "In" THEN m.in > MaxInPeers ELSE m.out > MaxOutPeers \* faulty variant: off by one
ExceedMaxPeers(m, state) == IF state = "In" THEN m.in >= MaxInPeers ELSE m.out >= MaxOutPeers
Replaceable(m, state) == SelectSeq(m.active, LAMBDA a : a.state = state /\ a.type = "Normal")
InsertResult(m, p, state) ==
  IF IsActive(m, p) THEN "Exist"
  ELSE IF ~ ExceedMaxPeers(m, state) THEN "Inserted"
  ELSE IF p \in m.reserved /\ Replaceable(m, state) # << >> THEN "Replaced" ELSE "Full"
Removed(m, state) == Head(Replaceable(m, state)).peer
Replace(m, p, state) ==
  LET n == RemoveActive(AddActive(m, p, state), Removed(m, state))
  IN [n EXCEPT !.inactive = InsertPeer(@, Removed(m, state))]

(* activate: as long as a peer can be taken and there is a slot for it, the
   reserved peers first.  At most every peer is replaced once. *)
Takeable(m) ==
  LET reserved == SelectSeq(m.inactive, LAMBDA q : q \in m.reserved)
  IN IF reserved # << >> \/ m.reservedOnly THEN reserved ELSE m.inactive
ActivateOne(m) ==
  LET p == Head(Takeable(m))
      taken == [m EXCEPT !.inactive = RemovePeer(@, p)]
      result == InsertResult(taken, p, "Out")
  IN CASE result = "Inserted" -> Send(AddActive(taken, p, "Out"), "Connect", p)
       [] result = "Replaced" -> Send(Send(Replace(taken, p, "Out"), "Connect", p), "Drop", Removed(taken, "Out"))
       [] result = "Exist" -> taken
       [] result = "Full" -> [taken EXCEPT !.inactive = InsertPeer(@, p)]
Activate(m) ==
  LET step(acc, i) ==
        IF acc.full \/ Takeable(acc.m) = << >> THEN acc
        ELSE [m |-> ActivateOne(acc.m),
              full |-> InsertResult(acc.m, Head(Takeable(acc.m)), "Out") = "Full"]
  IN FoldLeft(step, [m |-> m, full |-> FALSE], [i \in 1 .. 2 * Cardinality(Peer) |-> i]).m

(* new: the reserved peers and the boot nodes are the first known. *)
NewPeerManager(bootnodes, reserved, reservedOnly) ==
  Activate([active |-> << >>, in |-> 0, out |-> 0, inactive |-> bootnodes, reserved |-> reserved,
            reservedOnly |-> reservedOnly, scores |-> [p \in Peer |-> 0], messages |-> << >>])

Discovered(m, p) == IF IsActive(m, p) THEN m ELSE Activate([m EXCEPT !.inactive = InsertPeer(@, p)])

Dropped(m, p) == Activate([RemoveActive(m, p) EXCEPT !.inactive = InsertPeer(@, p)])

(* incoming: the answer is Accept or Reject, of the incoming id. *)
Incoming(m, p, id) ==
  LET answer(n, message) == [n EXCEPT !.messages = Append(@, [type |-> message, id |-> id])]
      result == InsertResult(m, p, "In")
      known(n) == [n EXCEPT !.inactive = RemovePeer(@, p)]
  IN IF m.reservedOnly /\ p \notin m.reserved THEN answer(m, "Reject")
     ELSE CASE result = "Inserted" -> answer(known(AddActive(m, p, "In")), "Accept")
            [] result = "Replaced" -> Send(answer(Replace(known(m), p, "In"), "Accept"), "Drop", Removed(m, "In"))
            [] result = "Exist" -> answer(m, "Accept")
            [] result = "Full" -> answer([m EXCEPT !.inactive = InsertPeer(@, p)], "Reject")

OnAddReservedPeer(m, p) == Discovered([m EXCEPT !.reserved = @ \cup {p}], p)

(* The peer is dropped whether it was active or not. *)
DropNormal(m, p) == Send([RemoveActive(m, p) EXCEPT !.inactive = InsertPeer(@, p)], "Drop", p)
OnRemoveReservedPeer(m, p) ==
  LET n == [m EXCEPT !.reserved = @ \ {p}]
  IN Activate(IF n.reservedOnly THEN DropNormal(n, p) ELSE n)

KeepNormal(m, only) == Activate([m EXCEPT !.reservedOnly = only]) \* faulty variant: active peers are not dropped
OnSetReservedOnly(m, only) ==
  LET normal == SelectSeq(m.active, LAMBDA a : a.peer \notin m.reserved)
      drop(n, a) == DropNormal(n, a.peer)
  IN Activate(FoldLeft(drop, [m EXCEPT !.reservedOnly = only], IF only THEN normal ELSE << >>))

(* A peer whose score is below the limit is forgotten. *)
OnReportPeer(m, p, diff) ==
  LET n == [m EXCEPT !.scores[p] = Max({@ + diff, ScoreFloor})]
      forgotten == [RemoveActive(n, p) EXCEPT !.inactive = RemovePeer(@, p)]
  IN IF n.scores[p] >= MinScore THEN n
     ELSE Activate(IF IsActive(m, p) THEN Send(forgotten, "Drop", p) ELSE forgotten)
=============================================================================
