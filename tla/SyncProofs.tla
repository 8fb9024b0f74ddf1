----------------------------- MODULE SyncProofs -----------------------------
(***************************************************************************)
(* The safety of the coordinator's block synchronisation, for any number   *)
(* of peers, heights, request sizes, any order of answers, timers, lost    *)
(* messages and commits of the consensus, and any delay of the executor's  *)
(* write of current_state.                                                 *)
(*                                                                         *)
(* The inductive invariant Inv relates the pending blocks to the peers     *)
(* that download them or have left them behind (Awaited) and to the        *)
(* database (Holes).  Of current_state it knows no more than that it is    *)
(* not ahead of the database, nor is what a thread is about to write to    *)
(* it.  sync runs at the end of most handlers: its parts are lemmas about  *)
(* what it takes over, and HandlerStep brings them together.               *)
(***************************************************************************)
EXTENDS Sync, FiniteLemmas

(* A pending block that is Downloading names its request. *)
Proper(b) == b.state = "Downloading" => b = Downloading(b.from, b.id) /\ b.id # Vacant

(* What the parts of the state are, for the values that they have before a step,
   after it, and where sync takes them over in the middle of one. *)
KnownOK(known, ht) ==
  /\ DOMAIN known \subseteq Peer
  /\ \A p \in DOMAIN known : known[p] \in [number : Nat, id : Nat] /\ known[p].number <= ht[p]

BlocksOK(blocks) ==
  /\ DOMAIN blocks \subseteq 1 .. MaxHeight
  /\ Cardinality(DOMAIN blocks) <= PendingBlocksSize
  /\ \A k \in DOMAIN blocks : /\ Proper(blocks[k])
                              /\ blocks[k].state \in {"Seen", "Downloading", "Downloaded"}

(* Between two pending blocks only blocks up to conf are missing. *)
Holes(blocks, conf) == \A k, l \in DOMAIN blocks : \A j \in k .. l : j \in DOMAIN blocks \/ j <= conf

(* A block that is Downloading is awaited, or known to be left behind. *)
Awaited(known, blocks, behind) ==
  \A k \in DOMAIN blocks : blocks[k].state = "Downloading" =>
    /\ blocks[k].from \in DOMAIN known
    /\ known[blocks[k].from].id = blocks[k].id \/ <<k, blocks[k]>> \in behind

(* The chain's messages are about blocks that the database has. *)
Messages(conf) == [type : {"BlockCommitted", "ExecutionCommitted"}, number : 0 .. conf]

(* The chain: the database is ahead of current_state, of what the threads are
   about to write to it, and of the messages. *)
ChainOK ==
  /\ confirmed \in 0 .. MaxHeight /\ executed \in 0 .. confirmed
  /\ current \in [confirmed : 0 .. confirmed, executed : 0 .. executed]
  /\ \A u \in refreshing : u.confirmed \in 0 .. confirmed
  /\ chainRx \in Seq(Messages(confirmed))

(* The inductive invariant. *)
Inv ==
  /\ ChainOK
  /\ height \in [Peer -> 0 .. MaxHeight]
  /\ KnownOK(peers, height) /\ BlocksOK(pending) /\ IsFiniteSet(requests)
  /\ Holes(pending, confirmed)
  /\ Awaited(peers, pending, left)
  /\ pc = "verify" => DOMAIN pending # {}

-----------------------------------------------------------------------------
(* The pending blocks are finitely many. *)
LEMMA BlocksFinite ==
  ASSUME NEW blocks, DOMAIN blocks \subseteq 1 .. MaxHeight
  PROVE  /\ IsFiniteSet(DOMAIN blocks) /\ DOMAIN blocks \subseteq Int
         /\ Cardinality(DOMAIN blocks) \in Nat
<1>1. MaxHeight \in Int /\ IsFiniteSet(1 .. MaxHeight)
  BY SyncAssumption, FS_Interval
<1>2. IsFiniteSet(DOMAIN blocks)
  BY <1>1, FS_Subset
<1> QED
  BY <1>1, <1>2, FS_CardinalityType

(* The last pending block, or the last one of current_state when nothing is pending. *)
LEMMA MaxPendingFacts ==
  ASSUME NEW blocks, DOMAIN blocks \subseteq 1 .. MaxHeight, current.confirmed \in 0 .. MaxHeight
  PROVE  /\ MaxPending(blocks) \in 0 .. MaxHeight
         /\ DOMAIN blocks # {} => /\ MaxPending(blocks) \in DOMAIN blocks
                                  /\ \A k \in DOMAIN blocks : k <= MaxPending(blocks)
<1>1. IsFiniteSet(DOMAIN blocks) /\ DOMAIN blocks \subseteq Int
  BY BlocksFinite
<1>2. CASE DOMAIN blocks = {}
  BY <1>2 DEF MaxPending
<1>3. CASE DOMAIN blocks # {}
  <2>1. Max(DOMAIN blocks) \in DOMAIN blocks /\ \A k \in DOMAIN blocks : k <= Max(DOMAIN blocks)
    BY <1>1, <1>3, MaxProperty
  <2>2. MaxPending(blocks) = Max(DOMAIN blocks)
    BY <1>3 DEF MaxPending
  <2>3. Max(DOMAIN blocks) \in 0 .. MaxHeight
    BY <2>1, SyncAssumption
  <2> QED
    BY <1>3, <2>1, <2>2, <2>3
<1> QED
  BY <1>2, <1>3

(* next_request_id is a number of a request. *)
LEMMA FreshFacts ==
  ASSUME NEW p, NEW flying, IsFiniteSet(flying), NEW blocks, DOMAIN blocks \subseteq 1 .. MaxHeight
  PROVE  FreshId(p, flying, blocks) \in Nat \ {Vacant}
<1> DEFINE F == {r \in flying : r.peer = p}
           B == {k \in DOMAIN blocks : blocks[k].state = "Downloading" /\ blocks[k].from = p}
           fids == {r.id : r \in F}
           bids == {blocks[k].id : k \in B}
           C == Cardinality(flying)
           D == Cardinality(DOMAIN blocks)
           free == (1 .. C + D + 1) \ (fids \cup bids)
<1>1. C \in Nat /\ IsFiniteSet(F) /\ Cardinality(F) <= C /\ Cardinality(F) \in Nat
  <2>1. F \in SUBSET flying
    OBVIOUS
  <2> HIDE DEF F
  <2> QED
    BY <2>1, FS_Subset, FS_CardinalityType
<1>2. D \in Nat /\ IsFiniteSet(B) /\ Cardinality(B) <= D /\ Cardinality(B) \in Nat
  <2>1. B \in SUBSET DOMAIN blocks /\ IsFiniteSet(DOMAIN blocks)
    BY BlocksFinite
  <2> HIDE DEF B
  <2> QED
    BY <2>1, FS_Subset, FS_CardinalityType
<1>3. IsFiniteSet(fids) /\ Cardinality(fids) <= Cardinality(F) /\ Cardinality(fids) \in Nat
  <2> DEFINE f == [r \in F |-> r.id]
  <2>1. f \in Surjection(F, fids)
    BY DEF Surjection
  <2>2. IsFiniteSet(fids) /\ Cardinality(fids) <= Cardinality(F)
    <3> HIDE DEF f, fids, F
    <3> QED
      BY <1>1, <2>1, FS_Surjection
  <2> HIDE DEF fids
  <2> QED
    BY <2>2, FS_CardinalityType
<1>4. IsFiniteSet(bids) /\ Cardinality(bids) <= Cardinality(B) /\ Cardinality(bids) \in Nat
  <2> DEFINE f == [k \in B |-> blocks[k].id]
  <2>1. f \in Surjection(B, bids)
    BY DEF Surjection
  <2>2. IsFiniteSet(bids) /\ Cardinality(bids) <= Cardinality(B)
    <3> HIDE DEF f, bids, B
    <3> QED
      BY <1>2, <2>1, FS_Surjection
  <2> HIDE DEF bids
  <2> QED
    BY <2>2, FS_CardinalityType
<1>5. /\ IsFiniteSet(fids \cup bids) /\ Cardinality(fids \cup bids) \in Nat
      /\ Cardinality(fids \cup bids) <= C + D
  <2> HIDE DEF fids, bids
  <2>1. fids \cap bids \in SUBSET fids
    OBVIOUS
  <2>2. IsFiniteSet(fids \cap bids) /\ Cardinality(fids \cap bids) \in Nat
    BY <1>3, <2>1, FS_Subset, FS_CardinalityType
  <2>3. IsFiniteSet(fids \cup bids)
        /\ Cardinality(fids \cup bids) = Cardinality(fids) + Cardinality(bids) - Cardinality(fids \cap bids)
    BY <1>3, <1>4, FS_Union
  <2>4. Cardinality(fids \cup bids) \in Nat
    BY <2>3, FS_CardinalityType
  <2> HIDE DEF F, B, C, D
  <2> QED
    BY <1>1, <1>2, <1>3, <1>4, <2>2, <2>3, <2>4
<1> DEFINE ids == fids \cup bids
           top == C + D + 1
<1>6. IsFiniteSet(1 .. top) /\ Cardinality(1 .. top) = top /\ top \in Nat
  <2> HIDE DEF C, D
  <2>1. 1 \in Int /\ top \in Int /\ ~ (1 > top) /\ top - 1 + 1 = top /\ top \in Nat
    BY <1>1, <1>2
  <2> HIDE DEF top
  <2> QED
    BY <2>1, FS_Interval
<1>7. top > C + D
  <2> HIDE DEF C, D
  <2> QED
    BY <1>1, <1>2
<1>8. free # {}
  <2> SUFFICES ASSUME 1 .. top \subseteq ids PROVE FALSE
    OBVIOUS
  <2>1. top <= Cardinality(ids)
    <3> HIDE DEF ids, top
    <3> QED
      BY <1>5, <1>6, FS_Subset DEF ids
  <2> HIDE DEF ids, top, C, D
  <2> QED
    BY <1>1, <1>2, <1>5, <1>6, <1>7, <2>1 DEF ids
<1>9. IsFiniteSet(free) /\ free \subseteq Int /\ free \subseteq 1 .. top
  <2>1. free \in SUBSET (1 .. top) /\ free \subseteq Int
    OBVIOUS
  <2> HIDE DEF free, top
  <2> QED
    BY <1>6, <2>1, FS_Subset
<1>10. Min(free) \in 1 .. top
  <2> HIDE DEF free
  <2> QED
    BY <1>8, <1>9, MinProperty
<1>11. FreshId(p, flying, blocks) = Min(free)
  BY DEF FreshId
<1> HIDE DEF free, top
<1> QED
  BY <1>6, <1>10, <1>11 DEF Vacant

(* The highest number of a peer. *)
LEMMA HighestFacts ==
  ASSUME NEW known, NEW ht \in [Peer -> 0 .. MaxHeight], KnownOK(known, ht), DOMAIN known # {}
  PROVE  Max({known[p].number : p \in DOMAIN known}) \in 0 .. MaxHeight
<1> DEFINE S == {known[p].number : p \in DOMAIN known}
<1>1. MaxHeight \in Int /\ IsFiniteSet(0 .. MaxHeight)
  BY SyncAssumption, FS_Interval
<1>2. \A p \in DOMAIN known : known[p].number \in 0 .. MaxHeight
  BY <1>1 DEF KnownOK
<1>3. S \in SUBSET (0 .. MaxHeight) /\ S # {} /\ S \subseteq Int
  BY <1>1, <1>2
<1>4. Max(S) \in S
  <2> HIDE DEF S
  <2>1. IsFiniteSet(S)
    BY <1>1, <1>3, FS_Subset
  <2> QED
    BY <1>3, <2>1, MaxProperty
<1> QED
  BY <1>3, <1>4

(* The smaller of two numbers. *)
LEMMA MinOfTwo ==
  ASSUME NEW x \in Int, NEW y \in Int
  PROVE  Min({x, y}) = IF x <= y THEN x ELSE y
BY DEF Min

(* maintain_new keeps the pending blocks within their limit; the blocks it adds are
   successive, and follow the last of the others if there is one, so that they open
   no hole. *)
LEMMA MaintainNewFacts ==
  ASSUME NEW known, NEW ht \in [Peer -> 0 .. MaxHeight], KnownOK(known, ht),
         NEW blocks, BlocksOK(blocks), NEW conf, Holes(blocks, conf), current.confirmed \in 0 .. MaxHeight
  PROVE  /\ BlocksOK(MaintainNew(known, blocks))
         /\ Holes(MaintainNew(known, blocks), conf)
         /\ \A k \in DOMAIN MaintainNew(known, blocks) :
              \/ k \in DOMAIN blocks /\ MaintainNew(known, blocks)[k] = blocks[k]
              \/ MaintainNew(known, blocks)[k] = Seen
<1> DEFINE last == MaxPending(blocks)
           high == Max({known[p].number : p \in DOMAIN known})
           size == Cardinality(DOMAIN blocks)
           top == Min({high, last + PendingBlocksSize - size})
           all == MaintainNew(known, blocks)
<1>1. /\ IsFiniteSet(DOMAIN blocks) /\ DOMAIN blocks \subseteq Int /\ size \in Nat
      /\ DOMAIN blocks \subseteq 1 .. MaxHeight
      /\ \A k \in DOMAIN blocks : k \in 1 .. MaxHeight
  BY BlocksFinite DEF BlocksOK
<1>2. /\ last \in 0 .. MaxHeight
      /\ DOMAIN blocks # {} => last \in DOMAIN blocks /\ \A k \in DOMAIN blocks : k <= last
  BY <1>1, MaxPendingFacts
<1>3. MaxHeight \in Nat /\ PendingBlocksSize \in Nat /\ last \in Nat
  BY <1>2, SyncAssumption
<1>4. \A k \in DOMAIN blocks : k <= last
  BY <1>2
<1>5. CASE DOMAIN known = {}
  <2>1. all = blocks
    BY <1>5 DEF MaintainNew
  <2> QED
    BY <2>1
<1>6. CASE DOMAIN known # {}
  <2>1. high \in 0 .. MaxHeight
    BY <1>6, HighestFacts
  <2>2. top \in Int /\ top <= MaxHeight /\ top <= last + PendingBlocksSize - size
    <3> HIDE DEF high, size, last
    <3>1. last + PendingBlocksSize - size \in Int /\ high \in Int
      BY <1>1, <1>3, <2>1
    <3>2. top = IF high <= last + PendingBlocksSize - size THEN high ELSE last + PendingBlocksSize - size
      BY <3>1, MinOfTwo
    <3> QED
      BY <1>1, <1>3, <2>1, <3>2
  <2>3. all = IF top > last THEN Merge(blocks, [k \in last + 1 .. top |-> Seen])
              ELSE Restrict(blocks, DOMAIN blocks \ (top + 1 .. last))
    BY <1>6 DEF MaintainNew
  <2> HIDE DEF high, last, top, size
  <2>4. CASE top > last
    <3>1. DOMAIN all = DOMAIN blocks \cup (last + 1 .. top)
      BY <2>3, <2>4 DEF Merge
    <3>2. \A k \in last + 1 .. top : all[k] = Seen
      BY <2>3, <2>4 DEF Merge
    <3>3. \A k \in DOMAIN blocks : k \notin last + 1 .. top
      BY <1>1, <1>3, <1>4
    <3>4. \A k \in DOMAIN blocks : all[k] = blocks[k]
      BY <2>3, <2>4, <3>3 DEF Merge
    <3> HIDE DEF all
    <3>5. \A k \in DOMAIN all : k \in 1 .. MaxHeight
      BY <1>1, <1>3, <2>2, <3>1
    <3>6. Cardinality(DOMAIN all) <= PendingBlocksSize
      <4> DEFINE new == last + 1 .. top
      <4>1. IsFiniteSet(new) /\ Cardinality(new) = top - last
        <5>1. last + 1 \in Int /\ top \in Int /\ ~ (last + 1 > top) /\ top - (last + 1) + 1 = top - last
          BY <1>3, <2>2, <2>4
        <5> QED
          BY <5>1, FS_Interval
      <4>2. DOMAIN blocks \cap new = {}
        BY <3>3
      <4> HIDE DEF new
      <4>3. Cardinality(DOMAIN blocks \cap new) = 0
        BY <4>2, FS_EmptySet
      <4>4. Cardinality(DOMAIN blocks \cup new) = size + (top - last) - 0
        BY <1>1, <4>1, <4>3, FS_Union DEF size
      <4>5. DOMAIN all = DOMAIN blocks \cup new
        BY <3>1 DEF new
      <4> QED
        BY <1>1, <1>3, <2>2, <4>4, <4>5
    <3>7. Holes(all, conf)
      <4> SUFFICES ASSUME NEW k \in DOMAIN all, NEW l \in DOMAIN all, NEW j \in k .. l
                   PROVE  j \in DOMAIN all \/ j <= conf
        BY DEF Holes
      <4>1. k \in Int /\ l \in Int /\ j \in Int /\ k <= j /\ j <= l
        BY <3>5
      <4>2. CASE j > last
        <5>1. l \in last + 1 .. top
          BY <1>3, <1>4, <3>1, <4>1, <4>2
        <5> QED
          BY <1>3, <2>2, <3>1, <4>1, <4>2, <5>1
      <4>3. CASE j <= last
        <5>1. k \in DOMAIN blocks
          BY <1>3, <3>1, <4>1, <4>3
        <5>2. last \in DOMAIN blocks
          BY <1>2, <5>1
        <5>3. j \in k .. last
          BY <1>3, <4>1, <4>3
        <5> QED
          BY <3>1, <5>1, <5>2, <5>3 DEF Holes
      <4> QED
        BY <1>3, <4>1, <4>2, <4>3
    <3>8. ASSUME NEW k \in DOMAIN all
          PROVE  Proper(all[k]) /\ all[k].state \in {"Seen", "Downloading", "Downloaded"}
      <4>1. CASE k \in DOMAIN blocks
        BY <3>4, <4>1 DEF BlocksOK
      <4>2. CASE k \in last + 1 .. top
        BY <3>2, <4>2 DEF Proper, Seen
      <4> QED
        BY <3>1, <4>1, <4>2
    <3>9. ASSUME NEW k \in DOMAIN all, k \notin DOMAIN blocks PROVE all[k] = Seen
      BY <3>1, <3>2, <3>9
    <3>10. BlocksOK(all)
      BY <3>5, <3>6, <3>8 DEF BlocksOK
    <3> QED
      BY <3>4, <3>7, <3>9, <3>10 DEF all
  <2>5. CASE ~ (top > last)
    <3>1. DOMAIN all = DOMAIN blocks \ (top + 1 .. last)
      BY <2>3, <2>5 DEF Restrict
    <3>2. \A k \in DOMAIN all : k \in DOMAIN blocks /\ all[k] = blocks[k]
      BY <2>3, <2>5 DEF Restrict
    <3> HIDE DEF all
    <3>3. \A k \in DOMAIN all : k <= top
      BY <1>1, <1>3, <1>4, <2>2, <3>1
    <3>4. Holes(all, conf)
      <4> SUFFICES ASSUME NEW k \in DOMAIN all, NEW l \in DOMAIN all, NEW j \in k .. l
                   PROVE  j \in DOMAIN all \/ j <= conf
        BY DEF Holes
      <4>1. j \in DOMAIN blocks \/ j <= conf
        BY <3>2 DEF Holes
      <4>2. j <= top /\ j \in Int
        BY <1>1, <2>2, <3>2, <3>3
      <4> QED
        BY <2>2, <1>3, <3>1, <4>1, <4>2
    <3>5. Cardinality(DOMAIN all) <= PendingBlocksSize
      <4>1. DOMAIN all \in SUBSET DOMAIN blocks
        BY <3>2
      <4>2. Cardinality(DOMAIN all) <= size /\ Cardinality(DOMAIN all) \in Nat
        BY <1>1, <4>1, FS_Subset, FS_CardinalityType DEF size
      <4>3. size <= PendingBlocksSize
        BY DEF size, BlocksOK
      <4> QED
        BY <1>1, <1>3, <4>2, <4>3
    <3>6. BlocksOK(all)
      BY <3>2, <3>5, <1>1 DEF BlocksOK
    <3> QED
      BY <3>2, <3>4, <3>6 DEF all
  <2> QED
    BY <2>4, <2>5
<1> QED
  BY <1>5, <1>6

(* The groups of make_seen_groups start at pending blocks. *)
LEMMA GroupFacts ==
  ASSUME NEW all, DOMAIN all \subseteq 1 .. MaxHeight
  PROVE  /\ DOMAIN MakeSeenGroups(all) \subseteq DOMAIN all
         /\ \A k \in DOMAIN MakeSeenGroups(all) : MakeSeenGroups(all)[k] \in Nat
<1> DEFINE entries(j, k) == (j .. k) \cap DOMAIN all
           seen(j, k) == \A i \in entries(j, k) : all[i] = Seen
           G(k) == {l \in DOMAIN all : /\ l >= k /\ seen(k, l)
                                       /\ Cardinality(entries(k, l)) <= RequestBlockSize}
<1>1. ASSUME NEW k PROVE Cardinality(G(k)) \in Nat
  <2>1. G(k) \in SUBSET DOMAIN all /\ IsFiniteSet(DOMAIN all)
    BY BlocksFinite
  <2> HIDE DEF G
  <2> QED
    BY <2>1, FS_Subset, FS_CardinalityType
<1>2. DOMAIN MakeSeenGroups(all) \subseteq DOMAIN all
  BY DEF MakeSeenGroups
<1>3. \A k \in DOMAIN MakeSeenGroups(all) : MakeSeenGroups(all)[k] = Cardinality(G(k))
  BY DEF MakeSeenGroups
<1> HIDE DEF G
<1> QED
  BY <1>1, <1>2, <1>3

(* maintain_seen asks vacant peers that have the blocks, each once. *)
LEMMA AssignmentFacts ==
  ASSUME NEW known, NEW groups, DOMAIN groups \subseteq Int, NEW asg \in Assignments(known, groups)
  PROVE  /\ \A k \in DOMAIN groups : \A p \in asg[k] :
              /\ p \in DOMAIN known /\ known[p].id = Vacant
              /\ known[p].number >= k + groups[k] - 1
         /\ \A j, k \in DOMAIN groups : \A p \in asg[k] : p \in asg[j] => j = k
<1> DEFINE able(k) == {p \in DOMAIN known : /\ known[p].id = Vacant
                                            /\ known[p].number >= k + groups[k] - 1
                                            /\ \A j \in DOMAIN groups : j < k => asg[j] # {p}}
           lowest(S) == {p \in S : \A q \in S : known[p].number <= known[q].number}
<1>1. \A k \in DOMAIN groups : asg[k] \in {{}} \cup {{p} : p \in DOMAIN known}
  BY DEF Assignments
<1>2. ASSUME NEW k \in DOMAIN groups, NEW p \in asg[k] PROVE asg[k] = {p} /\ p \in able(k)
  <2>1. asg[k] \in IF able(k) = {} THEN {{}} ELSE {{q} : q \in lowest(able(k))}
    BY DEF Assignments
  <2> HIDE DEF able
  <2>2. asg[k] \in {{q} : q \in lowest(able(k))}
    BY <1>2, <2>1
  <2> QED
    BY <1>2, <2>2
<1>3. ASSUME NEW j \in DOMAIN groups, NEW k \in DOMAIN groups, NEW p \in asg[k], p \in asg[j], j < k
      PROVE  FALSE
  <2>1. asg[j] = {p} /\ p \in able(k)
    BY <1>2, <1>3
  <2> QED
    BY <1>3, <2>1
<1>4. ASSUME NEW j \in DOMAIN groups, NEW k \in DOMAIN groups, NEW p \in asg[k], p \in asg[j]
      PROVE  j = k
  BY <1>3, <1>4
<1> QED
  BY <1>2, <1>4

-----------------------------------------------------------------------------
(* What sync leaves behind. *)
SyncDone ==
  /\ KnownOK(peers', height') /\ BlocksOK(pending') /\ IsFiniteSet(requests')
  /\ Holes(pending', confirmed) /\ Awaited(peers', pending', left')

(* sync keeps the order it is given: what it requests is awaited, what it leaves alone
   still is. *)
LEMMA SyncStep ==
  ASSUME NEW known, NEW blocks, NEW flying, current.confirmed \in 0 .. MaxHeight,
         height' \in [Peer -> 0 .. MaxHeight],
         KnownOK(known, height'), BlocksOK(blocks), IsFiniteSet(flying),
         Holes(blocks, confirmed), Awaited(known, blocks, left),
         SyncWith(known, blocks, flying)
  PROVE  SyncDone
<1> DEFINE all == MaintainNew(known, blocks)
           groups == MakeSeenGroups(all)
           made(asg) == UNION {{[peer |-> p, id |-> FreshId(p, flying, all), number |-> k, count |-> groups[k]] :
                                  p \in asg[k]} : k \in DOMAIN groups}
           of(r) == r.number .. r.number + r.count - 1
<1>1. PICK asg \in Assignments(known, groups) :
        /\ peers' = [p \in DOMAIN known |->
                       IF \E r \in made(asg) : r.peer = p
                       THEN [known[p] EXCEPT !.id = FreshId(p, flying, all)] ELSE known[p]]
        /\ pending' = [k \in DOMAIN all |->
                         IF \E r \in made(asg) : k \in of(r)
                         THEN LET r == CHOOSE r \in made(asg) : k \in of(r) IN Downloading(r.peer, r.id)
                         ELSE all[k]]
        /\ requests' = flying \cup made(asg)
        /\ left' = left \cap Entries(pending')
  BY DEF SyncWith
<1> DEFINE new == made(asg)
<1>2. /\ BlocksOK(all) /\ Holes(all, confirmed)
      /\ \A k \in DOMAIN all : (k \in DOMAIN blocks /\ all[k] = blocks[k]) \/ all[k] = Seen
  BY MaintainNewFacts
<1> HIDE DEF all
<1>3. DOMAIN all \subseteq 1 .. MaxHeight /\ DOMAIN all \subseteq Int /\ IsFiniteSet(DOMAIN all)
  BY <1>2, BlocksFinite DEF BlocksOK
<1>4. DOMAIN groups \subseteq DOMAIN all /\ \A k \in DOMAIN groups : groups[k] \in Nat
  BY <1>3, GroupFacts
<1> HIDE DEF groups
<1>5. /\ \A k \in DOMAIN groups : \A p \in asg[k] :
           /\ p \in DOMAIN known /\ known[p].id = Vacant
           /\ known[p].number >= k + groups[k] - 1
      /\ \A j, k \in DOMAIN groups : \A p \in asg[k] : p \in asg[j] => j = k
  <2>1. DOMAIN groups \subseteq Int
    BY <1>3, <1>4
  <2> QED
    BY <2>1, AssignmentFacts
<1>6. ASSUME NEW r \in new
      PROVE  /\ r.peer \in DOMAIN known /\ known[r.peer].id = Vacant
             /\ r.id = FreshId(r.peer, flying, all)
             /\ r.number \in DOMAIN groups /\ r.peer \in asg[r.number]
             /\ r.count = groups[r.number]
             /\ r = [peer |-> r.peer, id |-> r.id, number |-> r.number, count |-> r.count]
  <2>1. PICK k \in DOMAIN groups : r \in {[peer |-> p, id |-> FreshId(p, flying, all), number |-> k, count |-> groups[k]] : p \in asg[k]}
    BY <1>6
  <2>2. PICK p \in asg[k] : r = [peer |-> p, id |-> FreshId(p, flying, all), number |-> k, count |-> groups[k]]
    BY <2>1
  <2> QED
    BY <1>5, <2>2
<1>7. IsFiniteSet(new)
  <2> DEFINE D == {k \in DOMAIN groups : asg[k] # {}}
             rec(k) == CHOOSE r \in new : r.number = k
             f == [k \in D |-> rec(k)]
  <2>1. \A k \in D : \E r \in new : r.number = k
    <3> SUFFICES ASSUME NEW k \in D PROVE \E r \in new : r.number = k
      OBVIOUS
    <3>1. PICK p \in asg[k] : TRUE
      OBVIOUS
    <3>2. [peer |-> p, id |-> FreshId(p, flying, all), number |-> k, count |-> groups[k]] \in new
      OBVIOUS
    <3> QED
      BY <3>2
  <2>2. \A k \in D : rec(k) \in new /\ rec(k).number = k
    <3> HIDE DEF new, D
    <3> QED
      BY <2>1
  <2>3. ASSUME NEW r \in new, NEW s \in new, r.number = s.number PROVE r = s
    <3>1. r.peer = s.peer
      <4>1. asg[r.number] \in {{}} \cup {{p} : p \in DOMAIN known}
        BY <1>6, <2>3 DEF Assignments
      <4> QED
        BY <1>6, <2>3, <4>1
    <3> HIDE DEF new
    <3> QED
      BY <1>6, <2>3, <3>1
  <2>4. f \in Surjection(D, new)
    <3> HIDE DEF new
    <3>1. f \in [D -> new]
      BY <2>2
    <3>2. ASSUME NEW r \in new PROVE \E k \in D : f[k] = r
      <4>1. r.number \in D
        BY <1>6, <3>2
      <4>2. f[r.number] = r
        BY <2>2, <2>3, <3>2, <4>1
      <4> QED
        BY <4>1, <4>2
    <3> QED
      BY <3>1, <3>2 DEF Surjection
  <2>5. IsFiniteSet(D)
    <3>1. D \in SUBSET DOMAIN all
      BY <1>4
    <3> HIDE DEF D
    <3> QED
      BY <1>3, <3>1, FS_Subset
  <2> HIDE DEF f, D, new
  <2> QED
    BY <2>4, <2>5, FS_Surjection
<1> HIDE DEF new
<1>8. /\ peers' = [p \in DOMAIN known |->
                     IF \E r \in new : r.peer = p
                     THEN [known[p] EXCEPT !.id = FreshId(p, flying, all)] ELSE known[p]]
      /\ pending' = [k \in DOMAIN all |->
                       IF \E r \in new : k \in of(r)
                       THEN LET r == CHOOSE r \in new : k \in of(r) IN Downloading(r.peer, r.id)
                       ELSE all[k]]
      /\ requests' = flying \cup new
      /\ left' = left \cap Entries(pending')
  BY <1>1 DEF new
<1>9. \A p : FreshId(p, flying, all) \in Nat \ {Vacant}
  BY <1>3, FreshFacts
<1>10. KnownOK(peers', height')
  <2> SUFFICES ASSUME NEW p \in DOMAIN peers'
               PROVE  p \in Peer /\ peers'[p] \in [number : Nat, id : Nat] /\ peers'[p].number <= height'[p]
    BY DEF KnownOK
  <2>1. p \in DOMAIN known /\ p \in Peer /\ known[p] \in [number : Nat, id : Nat] /\ known[p].number <= height'[p]
    BY <1>8 DEF KnownOK
  <2>2. peers'[p] = known[p] \/ peers'[p] = [known[p] EXCEPT !.id = FreshId(p, flying, all)]
    BY <1>8, <2>1
  <2> QED
    BY <1>9, <2>1, <2>2
<1>11. DOMAIN pending' = DOMAIN all /\ DOMAIN peers' = DOMAIN known
  BY <1>8
<1>12. ASSUME NEW k \in DOMAIN all
       PROVE  \/ \E r \in new : pending'[k] = Downloading(r.peer, r.id)
              \/ pending'[k] = all[k]
  <2>1. CASE \E r \in new : k \in of(r)
    <3> DEFINE r0 == CHOOSE r \in new : k \in of(r)
    <3>1. r0 \in new /\ k \in of(r0)
      <4> HIDE DEF of
      <4> QED
        BY <2>1
    <3>2. pending'[k] = Downloading(r0.peer, r0.id)
      BY <1>8, <2>1
    <3> HIDE DEF r0
    <3> QED
      BY <3>1, <3>2
  <2>2. CASE ~ \E r \in new : k \in of(r)
    BY <1>8, <2>2
  <2> QED
    BY <2>1, <2>2
<1>13. ASSUME NEW k \in DOMAIN all, NEW r \in new, pending'[k] = Downloading(r.peer, r.id)
       PROVE  /\ Proper(pending'[k]) /\ pending'[k].state = "Downloading"
              /\ pending'[k].from = r.peer /\ pending'[k].id = r.id
  <2>1. pending'[k].state = "Downloading" /\ pending'[k].from = r.peer /\ pending'[k].id = r.id
    BY <1>13 DEF Downloading
  <2>2. r.id \in Nat \ {Vacant}
    BY <1>6, <1>9
  <2> QED
    BY <1>13, <2>1, <2>2 DEF Proper
<1>14. BlocksOK(pending')
  <2>1. ASSUME NEW k \in DOMAIN all
        PROVE  Proper(pending'[k]) /\ pending'[k].state \in {"Seen", "Downloading", "Downloaded"}
    <3>1. CASE \E r \in new : pending'[k] = Downloading(r.peer, r.id)
      BY <1>13, <3>1
    <3>2. CASE pending'[k] = all[k]
      BY <1>2, <3>2 DEF BlocksOK
    <3> QED
      BY <1>12, <3>1, <3>2
  <2> QED
    BY <1>2, <1>11, <2>1 DEF BlocksOK
<1>15. ASSUME NEW k \in DOMAIN all, pending'[k].state = "Downloading"
       PROVE  \/ \E r \in new : pending'[k] = Downloading(r.peer, r.id)
              \/ /\ pending'[k] = blocks[k] /\ blocks[k].from \in DOMAIN known /\ blocks[k].id # Vacant
                 /\ known[blocks[k].from].id = blocks[k].id \/ <<k, blocks[k]>> \in left
  <2>1. CASE pending'[k] = all[k]
    <3>1. k \in DOMAIN blocks /\ all[k] = blocks[k]
      BY <1>2, <1>15, <2>1 DEF Seen
    <3>2. Proper(blocks[k])
      BY <3>1 DEF BlocksOK
    <3> QED
      BY <1>15, <2>1, <3>1, <3>2 DEF Awaited, Proper
  <2> QED
    BY <1>12, <2>1
<1>16. Awaited(peers', pending', left')
  <2> SUFFICES ASSUME NEW k \in DOMAIN all, pending'[k].state = "Downloading"
               PROVE  /\ pending'[k].from \in DOMAIN known
                      /\ peers'[pending'[k].from].id = pending'[k].id \/ <<k, pending'[k]>> \in left'
    BY <1>11 DEF Awaited
  <2>1. ASSUME NEW r \in new, pending'[k] = Downloading(r.peer, r.id)
        PROVE  pending'[k].from \in DOMAIN known /\ peers'[pending'[k].from].id = pending'[k].id
    <3>1. pending'[k].from = r.peer /\ pending'[k].id = r.id /\ r.peer \in DOMAIN known
      BY <1>6, <1>13, <2>1
    <3>2. peers'[r.peer] = [known[r.peer] EXCEPT !.id = FreshId(r.peer, flying, all)]
      BY <1>8, <3>1
    <3>3. known[r.peer] \in [number : Nat, id : Nat]
      BY <3>1 DEF KnownOK
    <3> QED
      BY <1>6, <3>1, <3>2, <3>3
  <2>2. ASSUME pending'[k] = blocks[k], blocks[k].from \in DOMAIN known, blocks[k].id # Vacant,
               known[blocks[k].from].id = blocks[k].id
        PROVE  pending'[k].from \in DOMAIN known /\ peers'[pending'[k].from].id = pending'[k].id
    <3>1. ~ \E r \in new : r.peer = blocks[k].from
      BY <1>6, <2>2
    <3> QED
      BY <1>8, <2>2, <3>1
  <2>3. ASSUME pending'[k] = blocks[k], <<k, blocks[k]>> \in left PROVE <<k, pending'[k]>> \in left'
    <3>1. <<k, pending'[k]>> \in Entries(pending')
      BY <1>11 DEF Entries
    <3> QED
      BY <1>8, <2>3, <3>1
  <2> QED
    BY <1>15, <2>1, <2>2, <2>3
<1>17. IsFiniteSet(requests')
  BY <1>7, <1>8, FS_Union
<1>18. Holes(pending', confirmed)
  BY <1>2, <1>11 DEF Holes
<1> QED
  BY <1>10, <1>14, <1>16, <1>17, <1>18 DEF SyncDone

(* Some of the blocks, of which some are Seen again or downloaded. *)
Weaker(some, blocks) ==
  /\ DOMAIN some \subseteq DOMAIN blocks
  /\ \A k \in DOMAIN some : some[k] = blocks[k] \/ some[k].state \in {"Seen", "Downloaded"}

(* What such blocks keep of the invariant, whatever is forgotten of the blocks that
   were left behind and are no longer pending. *)
LEMMA WeakerFacts ==
  ASSUME NEW blocks, BlocksOK(blocks), NEW some, Weaker(some, blocks)
  PROVE  /\ BlocksOK(some)
         /\ \A conf : Holes(blocks, conf) /\ DOMAIN some = DOMAIN blocks => Holes(some, conf)
         /\ \A known, behind, less :
              Awaited(known, blocks, behind) /\ behind \cap Entries(some) \subseteq less => Awaited(known, some, less)
<1>1. DOMAIN some \in SUBSET DOMAIN blocks /\ DOMAIN blocks \subseteq 1 .. MaxHeight
  BY DEF Weaker, BlocksOK
<1>2. \A k \in DOMAIN some : some[k] = blocks[k] \/ some[k].state \in {"Seen", "Downloaded"}
  BY DEF Weaker
<1>3. Cardinality(DOMAIN some) <= PendingBlocksSize
  <2>1. IsFiniteSet(DOMAIN blocks) /\ Cardinality(DOMAIN blocks) \in Nat
    BY <1>1, BlocksFinite
  <2>2. Cardinality(DOMAIN some) <= Cardinality(DOMAIN blocks) /\ Cardinality(DOMAIN some) \in Nat
    BY <1>1, <2>1, FS_Subset, FS_CardinalityType
  <2>3. Cardinality(DOMAIN blocks) <= PendingBlocksSize /\ PendingBlocksSize \in Nat
    BY SyncAssumption DEF BlocksOK
  <2> QED
    BY <2>1, <2>2, <2>3
<1>4. \A k \in DOMAIN some : Proper(some[k]) /\ some[k].state \in {"Seen", "Downloading", "Downloaded"}
  BY <1>1, <1>2 DEF BlocksOK, Proper
<1>5. BlocksOK(some)
  BY <1>1, <1>3, <1>4 DEF BlocksOK
<1>6. \A conf : Holes(blocks, conf) /\ DOMAIN some = DOMAIN blocks => Holes(some, conf)
  BY DEF Holes
<1>7. \A k \in DOMAIN some : some[k].state = "Downloading" => k \in DOMAIN blocks /\ some[k] = blocks[k]
  BY <1>1, <1>2
<1>8. ASSUME NEW known, NEW behind, NEW less,
             Awaited(known, blocks, behind), behind \cap Entries(some) \subseteq less
      PROVE  Awaited(known, some, less)
  <2> SUFFICES ASSUME NEW k \in DOMAIN some, some[k].state = "Downloading"
               PROVE  /\ some[k].from \in DOMAIN known
                      /\ known[some[k].from].id = some[k].id \/ <<k, some[k]>> \in less
    BY DEF Awaited
  <2>1. some[k] = blocks[k] /\ k \in DOMAIN blocks
    BY <1>7
  <2>2. <<k, some[k]>> \in Entries(some)
    BY DEF Entries
  <2> QED
    BY <1>8, <2>1, <2>2 DEF Awaited
<1> QED
  BY <1>5, <1>6, <1>8

(* Some of the pending blocks that are not between the others, or up to conf, are
   removed. *)
LEMMA FewerFacts ==
  ASSUME NEW blocks, DOMAIN blocks \subseteq 1 .. MaxHeight, NEW some, DOMAIN some \subseteq DOMAIN blocks,
         NEW conf, Holes(blocks, conf),
         \A k \in DOMAIN blocks : k \in DOMAIN some \/ k <= conf \/ \A j \in DOMAIN some : k < j
  PROVE  Holes(some, conf)
<1> SUFFICES ASSUME NEW k \in DOMAIN some, NEW l \in DOMAIN some, NEW j \in k .. l
             PROVE  j \in DOMAIN some \/ j <= conf
  BY DEF Holes
<1>1. j \in DOMAIN blocks \/ j <= conf
  BY DEF Holes
<1>2. k \in Int /\ j \in Int /\ k <= j
  BY SyncAssumption
<1>3. ~ (j < k)
  BY <1>2
<1> QED
  BY <1>1, <1>3

-----------------------------------------------------------------------------
(* A handler leaves the chain alone. *)
LEMMA ChainKept == ASSUME ChainOK, UNCHANGED chain PROVE ChainOK'
<1>1. UNCHANGED <<confirmed, executed, current, refreshing, chainRx>>
  BY DEF chain
<1> QED
  BY <1>1 DEF ChainOK

(* The handlers that only end with sync. *)
LEMMA HandlerStep ==
  ASSUME Inv, NEW known, NEW blocks, NEW flying,
         height' \in [Peer -> 0 .. MaxHeight],
         KnownOK(known, height'), IsFiniteSet(flying),
         Weaker(blocks, pending), DOMAIN blocks = DOMAIN pending,
         Awaited(known, blocks, left),
         SyncWith(known, blocks, flying), pc' # "verify", UNCHANGED chain
  PROVE  Inv'
<1>1. ChainOK' /\ confirmed' = confirmed
  BY ChainKept DEF Inv, chain
<1>2. current.confirmed \in 0 .. MaxHeight
  BY SyncAssumption DEF Inv, ChainOK
<1>3. BlocksOK(blocks) /\ Holes(blocks, confirmed)
  BY WeakerFacts DEF Inv
<1>4. SyncDone
  BY <1>2, <1>3, SyncStep
<1> QED
  BY <1>1, <1>4 DEF Inv, SyncDone

(* The larger of two numbers. *)
LEMMA MaxOfTwo ==
  ASSUME NEW x \in Int, NEW y \in Int
  PROVE  Max({x, y}) = IF x >= y THEN x ELSE y
BY DEF Max

(* A peer that connects is known at its height and downloads nothing. *)
LEMMA OpenStep == ASSUME Inv, NEW p \in Peer, OnProtocolOpen(p) PROVE Inv'
<1>1. PICK number \in {Max({0, height[p] - 1}), height[p]} :
        SyncWith(Merge(peers, [q \in {p} |-> [number |-> number, id |-> Vacant]]), pending, requests)
  BY DEF OnProtocolOpen
<1> DEFINE known == Merge(peers, [q \in {p} |-> [number |-> number, id |-> Vacant]])
<1>2. /\ height \in [Peer -> 0 .. MaxHeight] /\ height' = height /\ UNCHANGED chain /\ MaxHeight \in Nat
      /\ KnownOK(peers, height) /\ IsFiniteSet(requests) /\ Awaited(peers, pending, left)
      /\ p \notin DOMAIN peers /\ pc' # "verify"
  BY SyncAssumption DEF Inv, OnProtocolOpen
<1>3. number \in Nat /\ number <= height[p]
  <2>1. height[p] \in Nat
    BY <1>2
  <2>2. Max({0, height[p] - 1}) = IF 0 >= height[p] - 1 THEN 0 ELSE height[p] - 1
    BY <2>1, MaxOfTwo
  <2> QED
    BY <2>1, <2>2
<1>4. /\ DOMAIN known = DOMAIN peers \cup {p} /\ known[p] = [number |-> number, id |-> 0]
      /\ \A q \in DOMAIN peers : known[q] = peers[q]
  BY <1>2 DEF Merge, Vacant
<1> HIDE DEF known
<1>5. KnownOK(known, height')
  <2> SUFFICES ASSUME NEW q \in DOMAIN known
               PROVE  q \in Peer /\ known[q] \in [number : Nat, id : Nat] /\ known[q].number <= height[q]
    BY <1>2 DEF KnownOK
  <2>1. CASE q = p
    BY <1>3, <1>4, <2>1
  <2>2. CASE q \in DOMAIN peers
    BY <1>2, <1>4, <2>2 DEF KnownOK
  <2> QED
    BY <1>4, <2>1, <2>2
<1>6. Awaited(known, pending, left)
  BY <1>2, <1>4 DEF Awaited
<1>7. Weaker(pending, pending)
  BY DEF Weaker
<1> QED
  BY <1>1, <1>2, <1>5, <1>6, <1>7, HandlerStep DEF known

(* A peer that leaves takes its downloads with it: its blocks are Seen again. *)
LEMMA CloseStep == ASSUME Inv, NEW p \in Peer, OnProtocolClose(p) PROVE Inv'
<1> DEFINE known == Restrict(peers, DOMAIN peers \ {p})
           blocks == [k \in DOMAIN pending |-> IF pending[k].state = "Downloading" /\ pending[k].from = p
                                               THEN Seen ELSE pending[k]]
           flying == {r \in requests : r.peer # p}
<1>1. SyncWith(known, blocks, flying) /\ UNCHANGED <<chain, height>> /\ pc' # "verify"
  BY DEF OnProtocolClose, Reset
<1>2. /\ height \in [Peer -> 0 .. MaxHeight] /\ height' = height
      /\ KnownOK(peers, height) /\ IsFiniteSet(requests) /\ Awaited(peers, pending, left)
  BY <1>1 DEF Inv
<1>3. DOMAIN known = DOMAIN peers \ {p} /\ \A q \in DOMAIN known : known[q] = peers[q]
  BY DEF Restrict
<1>4. KnownOK(known, height')
  BY <1>2, <1>3 DEF KnownOK
<1>5. IsFiniteSet(flying)
  <2>1. flying \in SUBSET requests
    OBVIOUS
  <2> HIDE DEF flying
  <2> QED
    BY <1>2, <2>1, FS_Subset
<1>6. Seen.state = "Seen"
  BY DEF Seen
<1>7. DOMAIN blocks = DOMAIN pending /\ Weaker(blocks, pending)
  BY <1>6 DEF Weaker
<1>8. Awaited(known, blocks, left)
  <2> SUFFICES ASSUME NEW k \in DOMAIN pending, blocks[k].state = "Downloading"
               PROVE  /\ blocks[k].from \in DOMAIN known
                      /\ known[blocks[k].from].id = blocks[k].id \/ <<k, blocks[k]>> \in left
    BY DEF Awaited
  <2>1. blocks[k] = pending[k] /\ pending[k].from # p
    BY <1>6
  <2>2. /\ pending[k].from \in DOMAIN peers
        /\ peers[pending[k].from].id = pending[k].id \/ <<k, pending[k]>> \in left
    BY <1>2, <2>1 DEF Awaited
  <2> HIDE DEF known, blocks
  <2> QED
    BY <1>3, <2>1, <2>2
<1> HIDE DEF known, blocks, flying
<1> QED
  BY <1>1, <1>2, <1>4, <1>5, <1>7, <1>8, HandlerStep

(* An announced block raises the height the peer is known at. *)
LEMMA AnnounceStep == ASSUME Inv, NEW p \in Peer, OnBlockAnnounce(p) PROVE Inv'
<1> DEFINE known == [peers EXCEPT ![p].number = height[p] + 1]
<1>1. /\ SyncWith(known, pending, requests) /\ UNCHANGED chain /\ p \in DOMAIN peers /\ pc' # "verify"
      /\ height[p] < MaxHeight /\ height' = [height EXCEPT ![p] = @ + 1]
  BY DEF OnBlockAnnounce
<1>2. /\ height \in [Peer -> 0 .. MaxHeight] /\ MaxHeight \in Nat
      /\ KnownOK(peers, height) /\ IsFiniteSet(requests) /\ Awaited(peers, pending, left)
  BY SyncAssumption DEF Inv
<1>3. height' \in [Peer -> 0 .. MaxHeight] /\ height'[p] = height[p] + 1 /\ \A q \in Peer : height[q] <= height'[q]
  BY <1>1, <1>2
<1>4. /\ DOMAIN known = DOMAIN peers /\ \A q \in DOMAIN peers : q # p => known[q] = peers[q]
      /\ known[p] = [peers[p] EXCEPT !.number = height[p] + 1]
  BY <1>1
<1>5. peers[p] \in [number : Nat, id : Nat] /\ height[p] \in Nat
  BY <1>1, <1>2 DEF KnownOK
<1>6. known[p] \in [number : Nat, id : Nat] /\ known[p].number = height[p] + 1 /\ known[p].id = peers[p].id
  BY <1>4, <1>5
<1> HIDE DEF known
<1>7. KnownOK(known, height')
  <2> SUFFICES ASSUME NEW q \in DOMAIN peers
               PROVE  q \in Peer /\ known[q] \in [number : Nat, id : Nat] /\ known[q].number <= height'[q]
    BY <1>4 DEF KnownOK
  <2>1. CASE q = p
    BY <1>3, <1>5, <1>6, <2>1 DEF KnownOK
  <2>2. CASE q # p
    <3>1. q \in Peer /\ peers[q] \in [number : Nat, id : Nat] /\ peers[q].number <= height[q]
      BY <1>2 DEF KnownOK
    <3>2. height[q] \in Nat /\ height'[q] \in Nat /\ height[q] <= height'[q] /\ known[q] = peers[q]
      BY <1>2, <1>3, <1>4, <2>2, <3>1
    <3> QED
      BY <3>1, <3>2
  <2> QED
    BY <2>1, <2>2
<1>8. Awaited(known, pending, left)
  BY <1>2, <1>4, <1>6 DEF Awaited
<1>9. Weaker(pending, pending)
  BY DEF Weaker
<1> QED
  BY <1>1, <1>2, <1>3, <1>7, <1>8, <1>9, HandlerStep

(* A request that has timed out leaves no block behind. *)
LEMMA TimerStep == ASSUME Inv, NEW p \in Peer, OnBlockRequestTimerTrigger(p) PROVE Inv'
<1> DEFINE id == peers[p].id
           known == [peers EXCEPT ![p].id = Vacant]
           blocks == [k \in DOMAIN pending |-> IF pending[k] = Downloading(p, id) THEN Seen ELSE pending[k]]
<1>1. SyncWith(known, blocks, requests) /\ UNCHANGED <<chain, height>> /\ p \in DOMAIN peers /\ pc' # "verify"
  BY DEF OnBlockRequestTimerTrigger, Reset
<1>2. /\ height \in [Peer -> 0 .. MaxHeight] /\ height' = height
      /\ KnownOK(peers, height) /\ IsFiniteSet(requests) /\ Awaited(peers, pending, left) /\ BlocksOK(pending)
  BY <1>1 DEF Inv
<1>3. /\ DOMAIN known = DOMAIN peers /\ \A q \in DOMAIN peers : q # p => known[q] = peers[q]
      /\ known[p] = [peers[p] EXCEPT !.id = 0]
  BY <1>1 DEF Vacant
<1>4. p \in Peer /\ peers[p] \in [number : Nat, id : Nat] /\ peers[p].number <= height[p]
  BY <1>1, <1>2 DEF KnownOK
<1>5. known[p] \in [number : Nat, id : Nat] /\ known[p].number = peers[p].number
  BY <1>3, <1>4
<1>6. KnownOK(known, height')
  <2> HIDE DEF known
  <2> QED
    BY <1>2, <1>3, <1>4, <1>5 DEF KnownOK
<1>7. Seen.state = "Seen"
  BY DEF Seen
<1>8. DOMAIN blocks = DOMAIN pending /\ Weaker(blocks, pending)
  BY <1>7 DEF Weaker
<1>9. Awaited(known, blocks, left)
  <2> SUFFICES ASSUME NEW k \in DOMAIN pending, blocks[k].state = "Downloading"
               PROVE  /\ blocks[k].from \in DOMAIN known
                      /\ known[blocks[k].from].id = blocks[k].id \/ <<k, blocks[k]>> \in left
    BY DEF Awaited
  <2>1. blocks[k] = pending[k] /\ pending[k] # Downloading(p, id)
    BY <1>7
  <2>2. /\ pending[k].from \in DOMAIN peers
        /\ peers[pending[k].from].id = pending[k].id \/ <<k, pending[k]>> \in left
    BY <1>2, <2>1 DEF Awaited
  <2>3. pending[k] = Downloading(pending[k].from, pending[k].id)
    BY <1>2, <2>1 DEF BlocksOK, Proper
  <2>4. pending[k].from = p => <<k, pending[k]>> \in left
    BY <2>1, <2>2, <2>3
  <2> HIDE DEF known, blocks
  <2> QED
    BY <1>3, <2>1, <2>2, <2>4
<1> HIDE DEF known, blocks, id
<1> QED
  BY <1>1, <1>2, <1>6, <1>8, <1>9, HandlerStep

(* on_block_response: the blocks that the answer leaves out are known to be left
   behind; the others no longer wait. *)
LEMMA ResponseStep == ASSUME Inv, NEW r \in requests, OnBlockResponse(r) PROVE Inv'
<1> DEFINE awaited == r.peer \in DOMAIN peers /\ peers[r.peer].id = r.id
           of == {k \in {k \in DOMAIN pending : pending[k].state = "Downloading"} : pending[k] = Downloading(r.peer, r.id)}
           took(k) == pending'[k] = Downloaded(r.peer)
<1>1. /\ UNCHANGED <<chain, height>> /\ pc' = "loop" /\ requests' = requests \ {r}
      /\ peers' = IF awaited THEN [peers EXCEPT ![r.peer].id = Vacant] ELSE peers
  BY DEF OnBlockResponse
<1>2. PICK blocks :
        /\ ~ awaited => blocks = {}
        /\ pending' = [k \in DOMAIN pending |-> IF k \in blocks THEN Downloaded(r.peer) ELSE pending[k]]
        /\ left' = {e \in left \cap Entries(pending') : e[2].state = "Downloading"}
                    \cup IF awaited THEN {<<k, pending[k]>> : k \in of \ blocks} ELSE {}
  BY DEF OnBlockResponse
<1>3. /\ height \in [Peer -> 0 .. MaxHeight] /\ ChainOK' /\ confirmed' = confirmed /\ height' = height
      /\ KnownOK(peers, height) /\ IsFiniteSet(requests) /\ Awaited(peers, pending, left)
      /\ BlocksOK(pending) /\ Holes(pending, confirmed)
  BY <1>1, ChainKept DEF Inv, chain
<1>4. Downloaded(r.peer).state = "Downloaded"
  BY DEF Downloaded
<1>5. DOMAIN pending' = DOMAIN pending /\ Weaker(pending', pending)
  BY <1>2, <1>4 DEF Weaker
<1>6. BlocksOK(pending') /\ Holes(pending', confirmed)
  BY <1>3, <1>5, WeakerFacts
<1>7. IsFiniteSet(requests')
  BY <1>1, <1>3, FS_RemoveElement
<1>8. KnownOK(peers', height') /\ DOMAIN peers' = DOMAIN peers
  <2>1. CASE ~ awaited
    BY <1>1, <1>3, <2>1
  <2>2. CASE awaited
    <3>1. /\ DOMAIN peers' = DOMAIN peers /\ \A q \in DOMAIN peers : q # r.peer => peers'[q] = peers[q]
          /\ peers'[r.peer] = [peers[r.peer] EXCEPT !.id = 0]
      BY <1>1, <2>2 DEF Vacant
    <3>2. r.peer \in Peer /\ peers[r.peer] \in [number : Nat, id : Nat] /\ peers[r.peer].number <= height[r.peer]
      BY <1>3, <2>2 DEF KnownOK
    <3>3. peers'[r.peer] \in [number : Nat, id : Nat] /\ peers'[r.peer].number = peers[r.peer].number
      BY <3>1, <3>2
    <3> QED
      BY <1>3, <3>1, <3>2, <3>3 DEF KnownOK
  <2> QED
    BY <2>1, <2>2
<1>9. Awaited(peers', pending', left')
  <2> SUFFICES ASSUME NEW k \in DOMAIN pending, pending'[k].state = "Downloading"
               PROVE  /\ pending'[k].from \in DOMAIN peers
                      /\ peers'[pending'[k].from].id = pending'[k].id \/ <<k, pending'[k]>> \in left'
    BY <1>5, <1>8 DEF Awaited
  <2>1. pending'[k] = pending[k] /\ k \notin blocks
    BY <1>2, <1>4
  <2>2. /\ pending[k].from \in DOMAIN peers
        /\ peers[pending[k].from].id = pending[k].id \/ <<k, pending[k]>> \in left
    BY <1>3, <2>1 DEF Awaited
  <2>3. CASE <<k, pending[k]>> \in left
    <3>1. <<k, pending'[k]>> \in Entries(pending') /\ <<k, pending'[k]>>[2].state = "Downloading"
      BY <1>5 DEF Entries
    <3> QED
      BY <1>2, <2>1, <2>2, <2>3, <3>1
  <2>4. CASE peers[pending[k].from].id = pending[k].id /\ awaited /\ pending[k].from = r.peer
    <3>1. pending[k] = Downloading(r.peer, r.id)
      BY <1>3, <2>1, <2>4 DEF BlocksOK, Proper
    <3>2. k \in of \ blocks
      BY <2>1, <3>1
    <3> HIDE DEF of
    <3>3. <<k, pending[k]>> \in left'
      BY <1>2, <2>4, <3>2
    <3> QED
      BY <2>1, <2>2, <3>3
  <2>5. CASE peers[pending[k].from].id = pending[k].id /\ ~ (awaited /\ pending[k].from = r.peer)
    <3>1. peers'[pending[k].from] = peers[pending[k].from]
      BY <1>1, <2>2, <2>5
    <3> QED
      BY <2>1, <2>2, <2>5, <3>1
  <2> QED
    BY <2>2, <2>3, <2>4, <2>5
<1> QED
  BY <1>1, <1>3, <1>6, <1>7, <1>8, <1>9 DEF Inv

-----------------------------------------------------------------------------
(* maintain_downloaded: what is left of the pending blocks without the first one. *)
LEMMA OthersFacts ==
  ASSUME Inv, DOMAIN pending # {}
  PROVE  /\ First \in DOMAIN pending /\ First \in 1 .. MaxHeight
         /\ DOMAIN Others = DOMAIN pending \ {First} /\ Weaker(Others, pending)
         /\ BlocksOK(Others) /\ Holes(Others, confirmed)
         /\ Awaited(peers, Others, left \cap Entries(Others))
<1>1. /\ BlocksOK(pending) /\ DOMAIN pending \subseteq 1 .. MaxHeight /\ Holes(pending, confirmed)
      /\ Awaited(peers, pending, left)
  BY DEF Inv, BlocksOK
<1>2. First \in DOMAIN pending /\ \A k \in DOMAIN pending : First <= k
  BY <1>1, BlocksFinite, MinProperty DEF First
<1>3. First \in 1 .. MaxHeight
  BY <1>1, <1>2
<1>4. DOMAIN Others = DOMAIN pending \ {First} /\ \A k \in DOMAIN Others : Others[k] = pending[k]
  BY DEF Others, Restrict
<1>5. Weaker(Others, pending)
  BY <1>4 DEF Weaker
<1>6. BlocksOK(Others) /\ Awaited(peers, Others, left \cap Entries(Others))
  BY <1>1, <1>5, WeakerFacts
<1>7. Holes(Others, confirmed)
  <2>1. \A k \in DOMAIN pending : k \in DOMAIN Others \/ \A j \in DOMAIN Others : k < j
    <3> SUFFICES ASSUME NEW j \in DOMAIN Others PROVE First < j
      BY <1>4
    <3>1. j \in DOMAIN pending /\ j # First /\ First <= j
      BY <1>2, <1>4
    <3>2. j \in Int /\ First \in Int
      BY <1>1, <1>3, <3>1
    <3> QED
      BY <3>1, <3>2
  <2>2. DOMAIN Others \subseteq DOMAIN pending
    BY <1>4
  <2> QED
    BY <1>1, <2>1, <2>2, FewerFacts
<1> QED
  BY <1>2, <1>3, <1>4, <1>5, <1>6, <1>7

(* A block is discarded. *)
LEMMA DiscardStep ==
  ASSUME Inv, DOMAIN pending # {}, Discard, UNCHANGED <<chain, height, peers, requests>>
  PROVE  Inv'
<1>1. ChainOK' /\ confirmed' = confirmed /\ height' = height /\ peers' = peers /\ requests' = requests
  BY ChainKept DEF Inv, chain
<1>2. pending' = Others /\ left \cap Entries(Others) \subseteq left' /\ pc' # "verify"
  BY DEF Discard
<1>3. Awaited(peers, Others, left')
  <2>1. Awaited(peers, Others, left \cap Entries(Others))
    BY OthersFacts
  <2> QED
    BY <1>2, <2>1 DEF Awaited
<1> QED
  BY <1>1, <1>2, <1>3, OthersFacts DEF Inv

(* The messages that the database backs stay so when it goes on. *)
LEMMA MessagesGrow ==
  ASSUME NEW c \in Nat, NEW d \in Nat, c <= d, NEW rx \in Seq(Messages(c))
  PROVE  rx \in Seq(Messages(d))
<1>1. Messages(c) \subseteq Messages(d)
  BY DEF Messages
<1> QED
  BY <1>1

(* verify_block and commit_block: the block that is committed is the next one of the
   database, and the first that is pending. *)
LEMMA VerifyStep == ASSUME Inv, VerifyBlock PROVE Inv'
<1> DEFINE p == pending[First].from
           verdict == Verdict(First, p)
           m == [type |-> "BlockCommitted", number |-> First]
<1>1. DOMAIN pending # {} /\ UNCHANGED <<executed, refreshing, height, peers, requests>>
  BY DEF Inv, VerifyBlock
<1>2. /\ confirmed \in Nat /\ MaxHeight \in Nat /\ confirmed <= MaxHeight /\ executed \in 0 .. confirmed
      /\ chainRx \in Seq(Messages(confirmed)) /\ \A u \in refreshing : u.confirmed \in 0 .. confirmed
  BY SyncAssumption DEF Inv, ChainOK
<1>3. CASE verdict = "Ok"
  <2>1. /\ confirmed' = First /\ current' = [confirmed |-> First, executed |-> executed]
        /\ chainRx' = Append(chainRx, m) /\ pending' = Others /\ left' = left \cap Entries(Others)
        /\ pc' = "loop"
    BY <1>3 DEF VerifyBlock
  <2>2. First = confirmed + 1
    BY <1>3 DEF Verdict
  <2>3. First \in 1 .. MaxHeight
    BY <1>1, OthersFacts
  <2>4. ChainOK'
    <3>1. confirmed' \in 0 .. MaxHeight /\ executed' \in 0 .. confirmed' /\ confirmed' \in Nat
      BY <1>1, <1>2, <2>1, <2>2, <2>3
    <3>2. current' \in [confirmed : 0 .. confirmed', executed : 0 .. executed']
      BY <1>1, <1>2, <2>1, <3>1
    <3>3. \A u \in refreshing' : u.confirmed \in 0 .. confirmed'
      BY <1>1, <1>2, <2>1, <2>2
    <3>4. chainRx' \in Seq(Messages(confirmed'))
      <4>1. chainRx \in Seq(Messages(First))
        BY <1>2, <2>2, MessagesGrow
      <4>2. m \in Messages(First)
        BY <2>3 DEF Messages
      <4> HIDE DEF m
      <4> QED
        BY <2>1, <4>1, <4>2
    <3> QED
      BY <3>1, <3>2, <3>3, <3>4 DEF ChainOK
  <2>5. Holes(pending', confirmed')
    <3>1. Holes(Others, confirmed) /\ DOMAIN Others \subseteq 1 .. MaxHeight
      BY <1>1, OthersFacts DEF BlocksOK
    <3> QED
      BY <1>2, <2>1, <2>2, <3>1 DEF Holes
  <2> QED
    BY <1>1, <2>1, <2>4, <2>5, OthersFacts DEF Inv
<1>4. CASE verdict = "Wait"
  <2>1. UNCHANGED <<chain, height, peers, pending, requests, left>> /\ pc' # "verify"
    BY <1>1, <1>4 DEF VerifyBlock, chain
  <2> QED
    BY <2>1, ChainKept DEF Inv, chain
<1>5. CASE verdict = "Discard"
  <2>1. Discard /\ UNCHANGED <<chain, height, peers, requests>>
    BY <1>1, <1>5 DEF VerifyBlock, chain
  <2> QED
    BY <1>1, <2>1, DiscardStep
<1>6. CASE verdict = "Reset"
  <2>1. /\ pending' = [k \in DOMAIN Others |-> IF Others[k] = Downloaded(p) THEN Seen ELSE Others[k]]
        /\ left' = left \cap Entries(pending') /\ pc' # "verify" /\ UNCHANGED chain
    BY <1>1, <1>6 DEF VerifyBlock, Reset, chain
  <2>2. ChainOK' /\ confirmed' = confirmed
    BY <2>1, ChainKept DEF Inv, chain
  <2>3. Seen.state = "Seen"
    BY DEF Seen
  <2>4. DOMAIN pending' = DOMAIN Others /\ Weaker(pending', Others)
    <3>1. \A k \in DOMAIN Others : pending'[k] = Others[k] \/ pending'[k] = Seen
      BY <2>1
    <3> QED
      BY <2>1, <2>3, <3>1 DEF Weaker
  <2>5. BlocksOK(Others) /\ Holes(Others, confirmed) /\ Awaited(peers, Others, left \cap Entries(Others))
    BY <1>1, OthersFacts
  <2>6. BlocksOK(pending') /\ Holes(pending', confirmed)
    BY <2>4, <2>5, WeakerFacts
  <2>7. Awaited(peers, pending', left')
    <3>1. (left \cap Entries(Others)) \cap Entries(pending') \subseteq left'
      BY <2>1
    <3> QED
      BY <2>4, <2>5, <3>1, WeakerFacts
  <2> QED
    BY <1>1, <2>1, <2>2, <2>6, <2>7 DEF Inv
<1>7. verdict \in {"Ok", "Wait", "Discard", "Reset"}
  BY DEF Verdict
<1> QED
  BY <1>3, <1>4, <1>5, <1>6, <1>7

(* on_block_committed: the block that is removed is one that the database has. *)
LEMMA CommittedStep == ASSUME Inv, OnBlockCommitted PROVE Inv'
<1> DEFINE n == Head(chainRx).number
           others == Restrict(pending, DOMAIN pending \ {n})
<1>1. /\ chainRx # << >> /\ chainRx' = Tail(chainRx) /\ pending' = others
      /\ left' = left \cap Entries(others) /\ pc = "idle"
      /\ UNCHANGED <<confirmed, executed, current, refreshing, height, peers, requests, pc>>
  BY DEF OnBlockCommitted
<1>2. chainRx \in Seq(Messages(confirmed)) /\ confirmed \in 0 .. MaxHeight
  BY DEF Inv, ChainOK
<1>3. n \in 0 .. confirmed /\ chainRx' \in Seq(Messages(confirmed))
  <2>1. Head(chainRx) \in Messages(confirmed) /\ Tail(chainRx) \in Seq(Messages(confirmed))
    BY <1>1, <1>2
  <2> QED
    BY <1>1, <2>1 DEF Messages
<1>4. DOMAIN others = DOMAIN pending \ {n} /\ \A k \in DOMAIN others : others[k] = pending[k]
  BY DEF Restrict
<1> HIDE DEF others, n
<1>5. Weaker(others, pending)
  BY <1>4 DEF Weaker
<1>6. BlocksOK(others) /\ Awaited(peers, others, left')
  <2>1. left \cap Entries(others) \subseteq left'
    BY <1>1
  <2> QED
    BY <1>5, <2>1, WeakerFacts DEF Inv
<1>7. Holes(others, confirmed)
  <2>1. \A k \in DOMAIN pending : k \in DOMAIN others \/ k <= confirmed
    BY <1>3, <1>4
  <2>2. DOMAIN pending \subseteq 1 .. MaxHeight /\ Holes(pending, confirmed) /\ DOMAIN others \subseteq DOMAIN pending
    BY <1>4 DEF Inv, BlocksOK
  <2> QED
    BY <2>1, <2>2, FewerFacts
<1>8. ChainOK'
  BY <1>1, <1>3 DEF Inv, ChainOK
<1> QED
  BY <1>1, <1>6, <1>7, <1>8 DEF Inv

(* An executed block is no more than noticed; the downloads that an answer has left
   out stay left behind. *)
LEMMA ExecutedStep == ASSUME Inv, OnExecutionCommitted PROVE Inv'
<1>1. /\ chainRx # << >> /\ chainRx' = Tail(chainRx) /\ pc' = "loop"
      /\ left' = {e \in left : e[2].state = "Downloading"}
      /\ UNCHANGED <<confirmed, executed, current, refreshing, height, peers, pending, requests>>
  BY DEF OnExecutionCommitted
<1>2. ChainOK'
  BY <1>1 DEF Inv, ChainOK
<1>3. Awaited(peers, pending, left')
  <2> SUFFICES ASSUME NEW k \in DOMAIN pending, pending[k].state = "Downloading", <<k, pending[k]>> \in left
               PROVE  <<k, pending[k]>> \in left'
    BY DEF Inv, Awaited
  <2>1. <<k, pending[k]>>[2].state = "Downloading"
    OBVIOUS
  <2> QED
    BY <1>1, <2>1
<1> QED
  BY <1>1, <1>2, <1>3 DEF Inv

(* The threads of the chain: the database goes on, and current_state follows it, with
   a delay. *)
LEMMA ThreadStep ==
  ASSUME Inv, ConsensusCommit \/ Execute \/ \E u \in refreshing : UpdateCurrentState(u)
  PROVE  Inv'
<1>1. /\ confirmed \in Nat /\ MaxHeight \in Nat /\ confirmed <= MaxHeight /\ executed \in 0 .. confirmed
      /\ chainRx \in Seq(Messages(confirmed)) /\ \A u \in refreshing : u.confirmed \in 0 .. confirmed
      /\ current \in [confirmed : 0 .. confirmed, executed : 0 .. executed]
      /\ Holes(pending, confirmed) /\ DOMAIN pending \subseteq 1 .. MaxHeight
  BY SyncAssumption DEF Inv, ChainOK, BlocksOK
<1>2. UNCHANGED <<height, peers, pending, requests, left, pc>>
  BY DEF ConsensusCommit, Execute, UpdateCurrentState
<1>3. ChainOK' /\ Holes(pending', confirmed')
  <2>1. CASE ConsensusCommit
    <3>1. /\ confirmed < MaxHeight /\ confirmed' = confirmed + 1
          /\ refreshing' = refreshing \cup {[by |-> "consensus", confirmed |-> confirmed + 1]}
          /\ UNCHANGED <<executed, current, chainRx>>
      BY <1>1, <2>1, SyncAssumption DEF ConsensusCommit
    <3>2. confirmed + 1 \in Nat /\ confirmed <= confirmed + 1 /\ 0 .. confirmed \subseteq 0 .. confirmed + 1
      BY <1>1
    <3>3. chainRx' \in Seq(Messages(confirmed'))
      BY <1>1, <3>1, <3>2, MessagesGrow
    <3>4. \A u \in refreshing' : u.confirmed \in 0 .. confirmed'
      BY <1>1, <3>1, <3>2
    <3>5. current' \in [confirmed : 0 .. confirmed', executed : 0 .. executed']
      BY <1>1, <3>1, <3>2
    <3>6. ChainOK'
      BY <1>1, <3>1, <3>2, <3>3, <3>4, <3>5 DEF ChainOK
    <3>7. Holes(pending', confirmed')
      BY <1>1, <1>2, <3>1 DEF Holes
    <3> QED
      BY <3>6, <3>7
  <2>2. CASE Execute
    <3>1. /\ executed < confirmed /\ executed' = executed + 1
          /\ refreshing' = refreshing \cup {[by |-> "executor", confirmed |-> confirmed]}
          /\ UNCHANGED <<confirmed, current, chainRx>>
      BY <1>1, <2>2 DEF Execute
    <3>2. \A u \in refreshing' : u.confirmed \in 0 .. confirmed'
      BY <1>1, <3>1
    <3>3. executed' \in 0 .. confirmed' /\ current' \in [confirmed : 0 .. confirmed', executed : 0 .. executed']
      BY <1>1, <3>1
    <3>4. ChainOK'
      BY <1>1, <3>1, <3>2, <3>3 DEF ChainOK
    <3> QED
      BY <1>1, <1>2, <3>1, <3>4
  <2>3. CASE \E u \in refreshing : UpdateCurrentState(u)
    <3>1. PICK u \in refreshing : UpdateCurrentState(u)
      BY <2>3
    <3> DEFINE m == IF u.by = "consensus" THEN [type |-> "BlockCommitted", number |-> u.confirmed]
                    ELSE [type |-> "ExecutionCommitted", number |-> executed]
    <3>2. /\ refreshing' = refreshing \ {u} /\ current' = [confirmed |-> u.confirmed, executed |-> executed]
          /\ chainRx' = Append(chainRx, m) /\ UNCHANGED <<confirmed, executed>>
      BY <3>1 DEF UpdateCurrentState
    <3>3. m \in Messages(confirmed)
      BY <1>1 DEF Messages
    <3> HIDE DEF m
    <3>4. chainRx' \in Seq(Messages(confirmed'))
      BY <1>1, <3>2, <3>3
    <3>5. current' \in [confirmed : 0 .. confirmed', executed : 0 .. executed']
      BY <1>1, <3>1, <3>2
    <3>6. ChainOK'
      BY <1>1, <3>2, <3>4, <3>5 DEF ChainOK
    <3> QED
      BY <1>1, <1>2, <3>2, <3>6
  <2> QED
    BY <2>1, <2>2, <2>3
<1> QED
  BY <1>2, <1>3 DEF Inv

(* The coordinator starts with nothing pending. *)
LEMMA InvInit == Init => Inv
<1> SUFFICES ASSUME Init PROVE Inv
  OBVIOUS
<1>0. MaxHeight \in Nat \ {0} /\ PendingBlocksSize \in Nat
  BY SyncAssumption
<1>1. ChainOK /\ height \in [Peer -> 0 .. MaxHeight]
  BY <1>0, SyncAssumption DEF Init, ChainOK
<1>2. DOMAIN pending = {} /\ DOMAIN peers = {} /\ requests = {} /\ pc # "verify"
  BY DEF Init, NoPending
<1>3. KnownOK(peers, height) /\ Awaited(peers, pending, left) /\ IsFiniteSet(requests) /\ Holes(pending, confirmed)
  BY <1>2, FS_EmptySet DEF KnownOK, Awaited, Holes
<1>4. BlocksOK(pending)
  <2>1. Cardinality(DOMAIN pending) = 0
    BY <1>2, FS_EmptySet
  <2> QED
    BY <1>0, <1>2, <2>1 DEF BlocksOK
<1> QED
  BY <1>1, <1>2, <1>3, <1>4 DEF Inv

(* Inv is inductive, one step per action. *)
LEMMA InvNext == Inv /\ [Next]_vars => Inv'
<1> SUFFICES ASSUME Inv, [Next]_vars PROVE Inv'
  OBVIOUS
<1>1. ASSUME NEW p \in Peer,
             OnProtocolOpen(p) \/ OnProtocolClose(p) \/ OnBlockAnnounce(p) \/ OnBlockRequestTimerTrigger(p)
      PROVE  Inv'
  BY <1>1, OpenStep, CloseStep, AnnounceStep, TimerStep
<1>2. ASSUME NEW r \in requests, OnBlockResponse(r) PROVE Inv'
  BY <1>2, ResponseStep
<1>3. ASSUME NEW r \in requests, LoseRequest(r) PROVE Inv'
  <2>1. requests' = requests \ {r} /\ UNCHANGED <<chain, height, peers, pending, pc, left>>
    BY <1>3 DEF LoseRequest
  <2>2. IsFiniteSet(requests')
    BY <2>1, FS_RemoveElement DEF Inv
  <2> QED
    BY <2>1, <2>2, ChainKept DEF Inv, chain
<1>4. ASSUME VerifyNotRepeat PROVE Inv'
  <2>1. DOMAIN pending # {} /\ UNCHANGED <<chain, height, peers, requests>>
    BY <1>4 DEF VerifyNotRepeat, FirstDownloaded
  <2>2. CASE Discard
    BY <2>1, <2>2, DiscardStep
  <2>3. CASE UNCHANGED <<pending, left>>
    BY <2>1, <2>3, ChainKept DEF Inv, chain
  <2> QED
    BY <1>4, <2>2, <2>3 DEF VerifyNotRepeat
<1>5. ASSUME EndDownloaded PROVE Inv'
  <2>1. SyncWith(peers, pending, requests) /\ pc' # "verify" /\ UNCHANGED <<chain, height>>
    BY <1>5 DEF EndDownloaded
  <2>2. Weaker(pending, pending)
    BY DEF Weaker
  <2> QED
    BY <2>1, <2>2, HandlerStep DEF Inv
<1>6. ASSUME UNCHANGED vars PROVE Inv'
  <2>1. UNCHANGED <<chain, height, peers, pending, requests, pc, left>>
    BY <1>6 DEF vars
  <2> QED
    BY <2>1, ChainKept DEF Inv, chain
<1> QED
  BY <1>1, <1>2, <1>3, <1>4, <1>5, <1>6, VerifyStep, CommittedStep, ExecutedStep, ThreadStep DEF Next

(* Inv is an invariant. *)
LEMMA InvHolds == Spec => []Inv
<1>1. Spec => Init /\ [][Next]_vars
  BY DEF Spec
<1> QED
  BY <1>1, InvInit, InvNext, PTL

-----------------------------------------------------------------------------
(* The numbers stay within their bounds, current_state is never ahead of the database,
   and the pending blocks stay within PENDING_BLOCKS_SIZE. *)
THEOREM TypeCorrect == Spec => []TypeOK
<1>1. Inv => TypeOK
  <2> SUFFICES ASSUME Inv PROVE TypeOK
    OBVIOUS
  <2>1. \A p \in DOMAIN peers : peers[p].number \in 0 .. height[p]
    <3> SUFFICES ASSUME NEW p \in DOMAIN peers PROVE peers[p].number \in 0 .. height[p]
      OBVIOUS
    <3>1. p \in Peer /\ peers[p] \in [number : Nat, id : Nat] /\ peers[p].number <= height[p]
      BY DEF Inv, KnownOK
    <3>2. height[p] \in Int
      BY <3>1, SyncAssumption DEF Inv
    <3> QED
      BY <3>1, <3>2
  <2>2. current.confirmed \in 0 .. confirmed /\ current.executed \in 0 .. executed
    BY DEF Inv, ChainOK
  <2> QED
    BY <2>1, <2>2 DEF Inv, ChainOK, KnownOK, BlocksOK, TypeOK
<1> QED
  BY <1>1, InvHolds, PTL

(* Whatever is requested, answered in full or in part, reset, discarded, committed by
   the consensus, or added again after current_state has been set back, no block that
   the node lacks is missing between two pending ones. *)
THEOREM OnlyCommittedMissing == Spec => []HolesCommitted
<1>1. Inv => HolesCommitted
  BY DEF Inv, Holes, HolesCommitted
<1> QED
  BY <1>1, InvHolds, PTL

(* Every block that is Downloading is awaited under the request that its peer is
   downloading, or an answer has left it out: late answers, timers, reused request
   numbers and lost connections leave none behind. *)
THEOREM DownloadsAwaited == Spec => []DownloadAwaited
<1>1. Inv => DownloadAwaited
  BY DEF Inv, Awaited, DownloadAwaited
<1> QED
  BY <1>1, InvHolds, PTL
=============================================================================
