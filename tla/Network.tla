------------------------------- MODULE Network -------------------------------
(***************************************************************************)
(* The network's protocol: the peer manager says which peers to connect    *)
(* to, to drop, to accept and to reject; Protocol keeps what is connected  *)
(* and opened of every peer; the handler of a connection opens and closes  *)
(* the protocol on it.  Protocol and the peer manager run in the task of   *)
(* the swarm, each handler in one of its own, so that commands and events  *)
(* pass between them through queues and the connection may be gone before  *)
(* they are read.                                                          *)
(*                                                                         *)
(*   pm        the peer manager                                            *)
(*   inRx      its in_rx: reports and changes of the reserved peers        *)
(*   links     peers of Protocol: the lists of connections and the pending *)
(*             dial (PeerState is Init when both lists are empty)          *)
(*   conns     the connections by id, with the state of the handler, its   *)
(*             commands (inq) and its events (outq)                        *)
(*   dialing   the peers that libp2p is dialing                            *)
(*   delay     delay_peers: the peers not to be connected to for a while   *)
(*                                                                         *)
(* The id of an incoming connection is its connection id: each is used     *)
(* once.  Messages on an opened protocol change nothing here.              *)
(***************************************************************************)
EXTENDS PeerManager

CONSTANTS
  Bootnodes,    \* the peers known at the start, in their order
  ReportDiff,   \* the score of a report
  MaxConns,     \* bound: the connections of a run
  MaxFaults,    \* bound: failures, and requests from outside of the network
  MaxQueued     \* bound: the messages to the peer manager at one time

ASSUME NetworkAssumption ==
  /\ Bootnodes \in Seq(Peer)
  /\ ReportDiff \in Int
  /\ {MaxConns, MaxFaults, MaxQueued} \subseteq Nat

VARIABLES pm, inRx, links, conns, dialing, delay, faults

vars == <<pm, inRx, links, conns, dialing, delay, faults>>
----------------------------------------------------------------------------
Live == {c \in DOMAIN conns : conns[c].live}
LiveOf(p) == {c \in Live : conns[c].peer = p}

NoLink == [connected |-> {}, opened |-> {}, pendingDial |-> FALSE]
StateOf(link) ==
  IF link.opened # {} THEN "ProtocolOpened" ELSE IF link.connected # {} THEN "Connected" ELSE "Init"

NewHandler(p, kind) ==
  [peer |-> p, kind |-> kind, live |-> TRUE, state |-> "Init", asked |-> FALSE,
   inq |-> << >>, outq |-> << >>]
Gone(h) == [NewHandler(h.peer, "Listener") EXCEPT !.live = FALSE, !.state = "Closed"]

(* A command to some of the connections: one that is gone loses it. *)
Notify(cs, ids, command) ==
  [c \in DOMAIN cs |-> IF c \in ids /\ cs[c].live THEN [cs[c] EXCEPT !.inq = Append(@, command)] ELSE cs[c]]

Report(p) == [type |-> "ReportPeer", peer |-> p]
Tell(message) == Len(inRx) < MaxQueued /\ inRx' = Append(inRx, message)

Fault == faults < MaxFaults /\ faults' = faults + 1

Init ==
  /\ pm = NewPeerManager(Bootnodes, {}, FALSE)
  /\ inRx = << >>
  /\ links = [p \in Peer |-> NoLink]
  /\ conns = << >>
  /\ dialing = {}
  /\ delay = {}
  /\ faults = 0
----------------------------------------------------------------------------
(* The messages of the peer manager. *)

(* DialPeerCondition::Disconnected: libp2p dials no peer that it is connected
   to or dialing, and says nothing. *)
DialPeer(p) == dialing' = IF LiveOf(p) = {} THEN dialing \cup {p} ELSE dialing

(* A delay that has not passed yet makes the dial a pending one. *)
PeerManagerConnect(p) ==
  /\ IF StateOf(links[p]) # "Init" THEN UNCHANGED <<links, delay, dialing>>
     ELSE /\ delay' = delay \ {p}
          /\ \E late \in {FALSE} \cup {p \in delay} :
               IF late
               THEN links' = [links EXCEPT ![p].pendingDial = TRUE] /\ UNCHANGED dialing
               ELSE /\ IF links[p].pendingDial THEN UNCHANGED dialing ELSE DialPeer(p)
                    /\ UNCHANGED links
  /\ UNCHANGED conns

(* A peer that is not connected is not dropped, whether it is dialed or not. *)
CloseAll(p) ==
  /\ conns' = IF StateOf(links[p]) = "Init" THEN conns ELSE Notify(conns, LiveOf(p), "Close")
  /\ UNCHANGED <<links, delay, dialing>>
PeerManagerDrop(p) == CloseAll(p)
PeerManagerReject(id) == CloseAll(conns[id].peer)

OpenNever(id) == UNCHANGED conns \* faulty variant: an accepted connection is not opened
OpenAccepted(id) ==
  conns' = IF id \in links[conns[id].peer].connected THEN Notify(conns, {id}, "Open") ELSE conns
PeerManagerAccept(m, id) ==
  /\ pm' = IF StateOf(links[conns[id].peer]) = "Init" THEN Dropped(m, conns[id].peer) ELSE m
  /\ OpenAccepted(id)
  /\ UNCHANGED <<links, delay, dialing>>

OnInMessage(m, message) ==
  CASE message.type = "ReportPeer" -> OnReportPeer(m, message.peer, ReportDiff)
    [] message.type = "AddReservedPeer" -> OnAddReservedPeer(m, message.peer)
    [] message.type = "RemoveReservedPeer" -> OnRemoveReservedPeer(m, message.peer)
    [] message.type = "SetReservedOnly" -> OnSetReservedOnly(m, message.only)

(* The peer manager hands over what it has to say before it reads in_rx. *)
PollOut ==
  /\ pm.messages # << >>
  /\ LET message == Head(pm.messages)
         m == [pm EXCEPT !.messages = Tail(@)]
     IN \/ message.type = "Connect" /\ PeerManagerConnect(message.peer) /\ pm' = m
        \/ message.type = "Drop" /\ PeerManagerDrop(message.peer) /\ pm' = m
        \/ message.type = "Accept" /\ PeerManagerAccept(m, message.id)
        \/ message.type = "Reject" /\ PeerManagerReject(message.id) /\ pm' = m
  /\ UNCHANGED <<inRx, faults>>
PollIn ==
  /\ pm.messages = << >> /\ inRx # << >>
  /\ pm' = OnInMessage(pm, Head(inRx))
  /\ inRx' = Tail(inRx)
  /\ UNCHANGED <<links, conns, dialing, delay, faults>>

PendingDial(p) ==
  /\ StateOf(links[p]) = "Init" /\ links[p].pendingDial
  /\ links' = [links EXCEPT ![p].pendingDial = FALSE]
  /\ DialPeer(p)
  /\ UNCHANGED <<pm, inRx, conns, delay, faults>>
----------------------------------------------------------------------------
(* The events of libp2p. *)

DialFailure(p) ==
  /\ p \in dialing
  /\ dialing' = dialing \ {p}
  /\ IF StateOf(links[p]) # "Init" THEN UNCHANGED <<pm, inRx, links, delay>>
     ELSE /\ Tell(Report(p))
          /\ pm' = Dropped(pm, p)
          /\ delay' = delay \cup {p}
          /\ links' = [links EXCEPT ![p].pendingDial = FALSE]
  /\ Fault /\ UNCHANGED conns

Maintain(p, c) == [links EXCEPT ![p].connected = @ \cup {c}, ![p].pendingDial = FALSE]
NewConn(p, kind, commands) ==
  /\ Len(conns) < MaxConns
  /\ conns' = Append(conns, [NewHandler(p, kind) EXCEPT !.inq = commands])

(* An outgoing connection is opened, whoever had it dialed. *)
DialerEstablished(p) ==
  /\ p \in dialing
  /\ dialing' = dialing \ {p}
  /\ NewConn(p, "Dialer", <<"Open">>)
  /\ links' = Maintain(p, Len(conns) + 1)
  /\ UNCHANGED <<pm, inRx, delay, faults>>

(* The first incoming connection of a peer is the peer manager's to decide,
   unless the peer is to be kept away; a later one is opened only beside an
   outgoing one, and is closed and not kept otherwise. *)
ListenerEstablished(p) ==
  LET c == Len(conns) + 1
      first == StateOf(links[p]) = "Init"
      dialer == \E d \in links[p].connected : conns[d].kind = "Dialer"
  IN /\ \/ /\ first /\ p \in delay
           /\ NewConn(p, "Listener", <<"Close">>) /\ links' = Maintain(p, c)
           /\ UNCHANGED <<pm, delay>>
        \/ /\ first
           /\ NewConn(p, "Listener", << >>) /\ links' = Maintain(p, c)
           /\ pm' = Incoming(pm, p, c) /\ delay' = delay \ {p}
        \/ /\ ~ first /\ dialer
           /\ NewConn(p, "Listener", <<"Open">>) /\ links' = Maintain(p, c)
           /\ UNCHANGED <<pm, delay>>
        \/ /\ ~ first /\ ~ dialer
           /\ NewConn(p, "Listener", <<"Close">>)
           /\ UNCHANGED <<links, pm, delay>>
     /\ UNCHANGED <<inRx, dialing, faults>>

(* The connection fails, or the handler lets go of it. *)
KeepOpened(link, c) == [link EXCEPT !.connected = @ \ {c}] \* faulty variant: stays opened
AfterClosed(link, c) == [link EXCEPT !.connected = @ \ {c}, !.opened = @ \ {c}]
ConnectionClosed(c) ==
  LET p == conns[c].peer
      link == AfterClosed(links[p], c)
  IN /\ conns[c].live
     /\ conns' = [conns EXCEPT ![c] = Gone(@)]
     /\ links' = [links EXCEPT ![p] = link]
     /\ pm' = IF StateOf(links[p]) # "Init" /\ StateOf(link) = "Init" THEN Dropped(pm, p) ELSE pm
     /\ IF conns[c].state = "Closed" THEN UNCHANGED faults ELSE Fault
     /\ UNCHANGED <<inRx, dialing, delay>>
----------------------------------------------------------------------------
(* The handler of a connection. *)

OpenHandler(h) ==
  CASE h.state = "Init" -> [h EXCEPT !.state = "Opening", !.asked = TRUE]
    [] h.state = "Opening" -> [h EXCEPT !.asked = TRUE]
    [] OTHER -> h
CloseHandler(h) ==
  [h EXCEPT !.state = "Closed", !.asked = FALSE,
            !.outq = IF h.state = "Opened" THEN Append(@, "ProtocolClose") ELSE @]
HandlerCommand(c) ==
  /\ conns[c].inq # << >>
  /\ LET h == [conns[c] EXCEPT !.inq = Tail(@)]
     IN conns' = [conns EXCEPT ![c] = IF Head(conns[c].inq) = "Open" THEN OpenHandler(h) ELSE CloseHandler(h)]
  /\ UNCHANGED <<pm, inRx, links, dialing, delay, faults>>

(* The remote's substream may come before the protocol is to be opened here.
   It is opened when the substreams of both sides are negotiated, which takes
   an Open on this side. *)
NegotiatedInbound(c) ==
  /\ conns[c].state = "Init"
  /\ conns' = [conns EXCEPT ![c].state = "Opening"]
  /\ UNCHANGED <<pm, inRx, links, dialing, delay, faults>>
NegotiatedBoth(c) ==
  /\ conns[c].state = "Opening" /\ conns[c].asked
  /\ conns' = [conns EXCEPT ![c].state = "Opened", ![c].asked = FALSE, ![c].outq = Append(@, "ProtocolOpen")]
  /\ UNCHANGED <<pm, inRx, links, dialing, delay, faults>>

(* The upgrade fails or the deadline passes; the handler stays as it is. *)
HandlerFails(c) ==
  /\ conns[c].state = "Opening"
  /\ Len(conns[c].outq) = 0
  /\ conns' = [conns EXCEPT ![c].outq = Append(@, "ProtocolError")]
  /\ Fault /\ UNCHANGED <<pm, inRx, links, dialing, delay>>

(* A substream of the opened protocol ends. *)
SubstreamEnds(c) ==
  /\ conns[c].state = "Opened"
  /\ conns' = [conns EXCEPT ![c] = CloseHandler(@)]
  /\ Fault /\ UNCHANGED <<pm, inRx, links, dialing, delay>>
----------------------------------------------------------------------------
(* The events of the handlers. *)

ProtocolOpen(link, c) ==
  IF c \in link.connected THEN [link EXCEPT !.connected = @ \ {c}, !.opened = @ \cup {c}] ELSE link
ProtocolClose(link, c) ==
  CASE c \notin link.opened -> link
    [] link.opened = {c} -> [link EXCEPT !.opened = {}, !.connected = @ \cup {c}]
    [] OTHER -> [link EXCEPT !.opened = @ \ {c}]

InjectEvent(c) ==
  /\ conns[c].outq # << >>
  /\ LET event == Head(conns[c].outq)
         p == conns[c].peer
         taken == [conns EXCEPT ![c].outq = Tail(@)]
         known == c \in links[p].connected \cup links[p].opened
     IN \/ /\ event = "ProtocolOpen"
           /\ links' = [links EXCEPT ![p] = ProtocolOpen(@, c)]
           /\ conns' = taken /\ UNCHANGED <<inRx, delay>>
        \/ /\ event = "ProtocolClose"
           /\ links' = [links EXCEPT ![p] = ProtocolClose(@, c)]
           /\ conns' = taken /\ UNCHANGED <<inRx, delay>>
        \/ /\ event = "ProtocolError" /\ known
           /\ Tell(Report(p))
           /\ delay' = delay \cup {p}
           /\ conns' = Notify(taken, {c}, "Close") /\ UNCHANGED links
        \/ /\ event = "ProtocolError" /\ ~ known
           /\ conns' = taken /\ UNCHANGED <<inRx, links, delay>>
  /\ UNCHANGED <<pm, dialing, faults>>
----------------------------------------------------------------------------
(* Requests from outside. *)

DropPeer(p, delayed) ==
  /\ Fault
  /\ delay' = IF delayed THEN delay \cup {p} ELSE delay
  /\ conns' = IF StateOf(links[p]) = "Init" THEN conns ELSE Notify(conns, LiveOf(p), "Close")
  /\ UNCHANGED <<pm, inRx, links, dialing>>

PeerManagerMessage(message) ==
  /\ Fault
  /\ Tell(message)
  /\ UNCHANGED <<pm, links, conns, dialing, delay>>

AddDiscoveredPeer(p) ==
  /\ Fault
  /\ pm' = Discovered(pm, p)
  /\ UNCHANGED <<inRx, links, conns, dialing, delay>>

(* Discovery dials on its own account. *)
DiscoveryDial(p) ==
  /\ Fault
  /\ DialPeer(p)
  /\ UNCHANGED <<pm, inRx, links, conns, delay>>

Messages == {[type |-> t, peer |-> p] : t \in {"ReportPeer", "AddReservedPeer", "RemoveReservedPeer"}, p \in Peer}
            \cup {[type |-> "SetReservedOnly", only |-> b] : b \in BOOLEAN}

Next ==
  \/ PollOut
  \/ PollIn
  \/ \E p \in Peer :
       \/ PendingDial(p) \/ DialFailure(p)
       \/ DialerEstablished(p) \/ ListenerEstablished(p)
       \/ AddDiscoveredPeer(p) \/ DiscoveryDial(p)
       \/ \E delayed \in BOOLEAN : DropPeer(p, delayed)
  \/ \E c \in Live :
       \/ ConnectionClosed(c) \/ HandlerCommand(c) \/ HandlerFails(c) \/ SubstreamEnds(c) \/ InjectEvent(c)
       \/ NegotiatedInbound(c) \/ NegotiatedBoth(c)
  \/ \E message \in Messages : PeerManagerMessage(message)

Spec == Init /\ [][Next]_vars
----------------------------------------------------------------------------
ActiveOf(state) == {a \in Range(pm.active) : a.state = state}

TypeOK ==
  /\ pm.in \in 0 .. MaxInPeers /\ pm.out \in 0 .. MaxOutPeers
  /\ pm.reserved \subseteq Peer /\ pm.reservedOnly \in BOOLEAN
  /\ pm.scores \in [Peer -> ScoreFloor .. 0]
  /\ \A p \in Peer :
       /\ links[p].connected \cup links[p].opened \subseteq DOMAIN conns
       /\ links[p].connected \cap links[p].opened = {}
       /\ links[p].pendingDial => StateOf(links[p]) = "Init"
  /\ dialing \subseteq Peer /\ delay \subseteq Peer
  /\ faults \in 0 .. MaxFaults /\ Len(inRx) <= MaxQueued

(* The slots are counted right: the counters kept beside the map of active
   peers are its numbers of incoming and outgoing peers, a peer is not active
   twice, and none is active and inactive at once, through every order of
   replacement, drop, report and incoming connection. *)
SlotsCounted ==
  /\ pm.in = Cardinality(ActiveOf("In")) /\ pm.out = Cardinality(ActiveOf("Out"))
  /\ Len(pm.active) = pm.in + pm.out
  /\ \A a \in Range(pm.active) : ~ \E i \in DOMAIN pm.inactive : pm.inactive[i] = a.peer
  /\ \A a, b \in Range(pm.active) : a.peer = b.peer => a = b

(* In reserved-only mode no other peer holds a slot. *)
ReservedOnlyKept == pm.reservedOnly => \A a \in Range(pm.active) : a.peer \in pm.reserved

(* What Protocol holds for opened is a live connection whose handler has opened
   the protocol, or has closed it and the event is on its way. *)
OpenedAlive ==
  \A p \in Peer : \A c \in links[p].opened :
    /\ c \in LiveOf(p)
    /\ conns[c].state = "Opened" \/ Contains(conns[c].outq, "ProtocolClose")

(* No connection is left alone: the handler of a live one is waiting for a
   command or for an answer of the peer manager that is on its way, or works on
   opening (where its deadline ends it), or Protocol has it among the opened, is
   about to hear of it or has told it to close, or it is closed.  Otherwise the
   connection would be kept alive for ever and serve nobody. *)
HandlerSupervised ==
  \A c \in Live :
    \/ conns[c].inq # << >>
    \/ conns[c].state \in {"Opening", "Closed"}
    \/ conns[c].state = "Init" /\ \E i \in DOMAIN pm.messages :
         pm.messages[i].type \in {"Accept", "Reject"} /\ pm.messages[i].id = c
    \/ conns[c].state = "Opened" /\ (c \in links[conns[c].peer].opened \/ Contains(conns[c].outq, "ProtocolOpen"))

(* A slot is held for something: the peer is connected, dialed or about to be,
   or a message about it is under way. *)
SlotBacked ==
  \A a \in Range(pm.active) :
    \/ StateOf(links[a.peer]) # "Init" \/ links[a.peer].pendingDial \/ a.peer \in dialing
    \/ \E i \in DOMAIN pm.messages :
         \/ pm.messages[i].type = "Connect" /\ pm.messages[i].peer = a.peer
         \/ pm.messages[i].type = "Accept" /\ conns[pm.messages[i].id].peer = a.peer
=============================================================================
