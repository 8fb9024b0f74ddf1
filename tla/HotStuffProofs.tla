--------------------------- MODULE HotStuffProofs ---------------------------
(***************************************************************************)
(* Theorems about HotStuff, for any validators and weights, any number of  *)
(* views and blocks, and messages that come late, in any order or never.   *)
(*                                                                         *)
(* Agreement rests on quorums that meet.  When the other validators are no *)
(* quorum, the leader is in every quorum, and its own NewView, which it    *)
(* always counts, reports what it voted for; when they are one, two        *)
(* quorums meet in a replica, which has checked the proposal against its   *)
(* lock.                                                                   *)
(*                                                                         *)
(* The parts of the invariant are operators of the set of messages M and   *)
(* the other state they are about, so that the facts about them need no    *)
(* steps.                                                                  *)
(***************************************************************************)
EXTENDS HotStuff, FiniteLemmas

-----------------------------------------------------------------------------
(* The inductive invariant. *)

(* The validators whose votes for b in view v were sent to n; a quorum of them. *)
VotesFor(M, n, phase, b, v) ==
  {m.from : m \in {x \in M : /\ x.type = "Vote" /\ x.to = n
                             /\ x.view = v /\ x.phase = phase /\ x.node = b}}
Backed(M, phase, b, v) == \E n \in Node : Quorum(VotesFor(M, n, phase, b, v))

(* What a certificate says is true: its block was prepared in its view. *)
Certified(M, b, v) == (b = GenesisBlock /\ v = 0) \/ Backed(M, "Prepare", b, v)
CertOK(M, qc) == qc.view \in Nat /\ Certified(M, qc.node, qc.view)

(* The blocks there are: each is proposed when it is built. *)
Known(M) == {GenesisBlock} \cup {m.node : m \in {x \in M : x.type = "Prepare"}}
KnownOK(M, top) ==
  /\ top \in Nat
  /\ \A b \in Known(M) : b.number \in Nat /\ b.id \in 0 .. top /\ b.parent \in -1 .. top
  /\ \A b, c \in Known(M) : b.id = c.id => b = c
  /\ \A b, c \in Known(M) : b.parent = c.id => b.number = c.number + 1

(* Block c is that of a certificate of view v or later, or higher than it. *)
Follows(M, c, v) ==
  \E b \in Known(M), w \in Nat :
     w >= v /\ Certified(M, b, w) /\ (c = b \/ c.number > b.number)

(* A replica's vote follows its locks.  A leader that is in every quorum has
   proposed what follows the certificates it has seen. *)
Earlier(M, m, phase) ==
  {x \in M : x.type = "Vote" /\ x.phase = phase /\ x.from = m.from /\ x.view < m.view}
SafeVote(M, m) ==
  m.phase = "Prepare" =>
    /\ m.from # m.to => \A x \in Earlier(M, m, "Commit") : Follows(M, m.node, x.view)
    /\ m.from = m.to /\ ~ Quorum(Node \ {m.from}) =>
         \A x \in Earlier(M, m, "PreCommit") : Follows(M, m.node, x.view)

(* A message of M \cup {m} and what M has to say for it. *)
Grounded(M, m) ==
  /\ m.type = "NewView" => m.from \in Node /\ m.from # m.to /\ CertOK(M, m.qc)
  /\ m.type = "Prepare" => m.view \in Nat \ {0} /\ CertOK(M, m.justify)
  /\ m.type = "PreCommit" => m.qc.view = m.view /\ Backed(M, "Prepare", m.qc.node, m.view)
  /\ m.type = "Commit" => m.qc.view = m.view /\ Backed(M, "PreCommit", m.qc.node, m.view)
  /\ m.type = "Decide" => m.qc.view = m.view /\ Backed(M, "Commit", m.qc.node, m.view)
  /\ m.type = "TimeoutDecide" => m.view \in Nat
  /\ m.type = "Vote" =>
       /\ m.from \in Node /\ m.view \in Nat \ {0}
       /\ m.phase = "PreCommit" => Backed(M, "Prepare", m.node, m.view)
       /\ m.phase = "Commit" => Backed(M, "PreCommit", m.node, m.view)
       /\ SafeVote(M, m)
Proposed(M, m) ==
  m.type = "Vote" /\ m.phase = "Prepare"
    => \E p \in M : p.type = "Prepare" /\ p.view = m.view /\ p.node = m.node
MsgsOK(M) == \A m \in M : Grounded(M, m) /\ Proposed(M, m)

(* Who has voted in a view has come to it, and holds a certificate of it: V, P,
   L and S are the views, the prepared and locked certificates and the LeaderStates. *)
VoteAt(m, V, P, L, S) ==
  m.type = "Vote" =>
    /\ m.view <= V[m.from]
    /\ m.phase = "PreCommit" => /\ P[m.from].view >= m.view
                                /\ m.view < V[m.from] => S[m.from].own.view >= m.view
    /\ m.phase = "Commit" => L[m.from].view >= m.view

(* A node n with its view, certificates, LeaderState and height. *)
NodeOK(M, n, v, p, l, bs, ld, height) ==
  /\ v \in Nat \ {0}
  /\ CertOK(M, p) /\ p.view <= v
  /\ CertOK(M, l) /\ l.view <= v
  /\ bs.node \in Known(M) /\ bs.node.number <= height
  /\ CertOK(M, ld.own)
  /\ ld.wanted # None => /\ CertOK(M, ld.wanted)
                         /\ Quorum(Node \ {n}) \/ ld.wanted.view >= ld.own.view

(* The blocks of a chain are numbered and were decided. *)
ChainOK(M, c) ==
  /\ \E S : c \in Seq(S)
  /\ \A i \in 1 .. Len(c) :
       /\ c[i].block \in Known(M) /\ c[i].block.number = i /\ c[i].qc.node = c[i].block
       /\ c[i].qc.view \in Nat /\ Backed(M, "Commit", c[i].block, c[i].qc.view)

(* In every view one block was proposed. *)
OneProposal(M) ==
  \A p, q \in M : p.type = "Prepare" /\ q.type = "Prepare" /\ p.view = q.view => p.node = q.node

(* The validators that have voted for the commit of b in view v, or still can. *)
MayCommit(M, V, b, v) ==
  {n \in Node : \/ V[n] <= v
                \/ \E m \in M : /\ m.type = "Vote" /\ m.phase = "Commit" /\ m.from = n
                                /\ m.node = b /\ m.view = v}

(* As long as a block may be committed, every later certificate is for it or for
   a higher block. *)
CommitsLast(M, V) ==
  OneProposal(M) =>
    \A v, w \in Nat : \A b, c \in Known(M) :
       /\ Backed(M, "Prepare", b, v) /\ Quorum(MayCommit(M, V, b, v))
       /\ Backed(M, "Prepare", c, w) /\ w >= v
       => c = b \/ c.number > b.number

Domains ==
  /\ view \in [Node -> Nat]
  /\ DOMAIN base = Node /\ DOMAIN prepareQC = Node /\ DOMAIN lockedQC = Node
  /\ DOMAIN chain = Node /\ DOMAIN lead = Node
  /\ \A n \in Node : DOMAIN lead[n] = {"own", "prepare", "wanted", "sent"}

SafetyInv ==
  /\ Domains
  /\ KnownOK(msgs, made)
  /\ MsgsOK(msgs)
  /\ \A m \in msgs : VoteAt(m, view, prepareQC, lockedQC, lead)
  /\ \A n \in Node : NodeOK(msgs, n, view[n], prepareQC[n], lockedQC[n], base[n], lead[n],
                            Len(chain[n]))
  /\ \A n \in Node : ChainOK(msgs, chain[n])
  /\ CommitsLast(msgs, view)

-----------------------------------------------------------------------------
(* Weights and quorums. *)

LEMMA NodeFinite == IsFiniteSet(Node) /\ Node # {}
<1>1. Members \in Seq(Node) /\ Members # << >>
  BY HotStuffAssumption
<1>2. Len(Members) \in Nat /\ DOMAIN Members = 1 .. Len(Members)
  BY <1>1
<1>3. IsFiniteSet(1 .. Len(Members))
  BY <1>2, FS_Interval
<1>4. Node = {Members[i] : i \in 1 .. Len(Members)}
  BY <1>2 DEF Node, Range
<1>5. Members \in [1 .. Len(Members) -> Node]
  BY <1>1, <1>2
<1>6. Members \in Surjection(1 .. Len(Members), Node)
  BY <1>4, <1>5 DEF Surjection
<1>7. IsFiniteSet(Node)
  BY <1>3, <1>6, FS_Surjection
<1> QED
  BY <1>1, <1>2, <1>4, <1>7

(* One function has the weights of all sets of validators. *)
LEMMA WeightIsSum ==
  ASSUME NEW iter, IsSum(iter, Node, Weight), NEW S \in SUBSET Node
  PROVE  WeightOf(S) = iter[S]
<1> DEFINE Sums(f) == f = [s \in SUBSET S |->
             IF s = {} THEN 0 ELSE LET x == CHOOSE x \in s : TRUE IN Weight[x] + f[s \ {x}]]
<1>1. ASSUME NEW f PROVE Sums(f) <=> IsSum(f, S, Weight)
  BY DEF IsSum, Pick
<1>2. IsFiniteSet(S)
  BY NodeFinite, FS_Subset
<1>3. \E f : Sums(f)
  <2> HIDE DEF Sums
  <2> QED
    BY <1>1, <1>2, SumExists
<1> DEFINE total == CHOOSE f : Sums(f)
<1>4. Sums(total)
  BY <1>3
<1>5. total[S] = iter[S]
  <2> HIDE DEF Sums, total
  <2>1. IsSum(total, S, Weight)
    BY <1>4, <1>1
  <2> QED
    BY <2>1, NodeFinite, SumUnique
<1> QED
  BY <1>5 DEF WeightOf, MapThenSumSet, MapThenFoldSet

LEMMA WeightFacts ==
  /\ WeightOf({}) = 0
  /\ \A S \in SUBSET Node : WeightOf(S) \in Nat
  /\ \A S, T \in SUBSET Node : S \cap T = {} => WeightOf(S \cup T) = WeightOf(S) + WeightOf(T)
  /\ \A n \in Node : WeightOf({n}) > 0
<1>1. PICK iter : IsSum(iter, Node, Weight)
  BY NodeFinite, SumExists
<1>2. \A x \in Node : Weight[x] \in Nat /\ Weight[x] > 0
  BY HotStuffAssumption
<1>3. \A S \in SUBSET Node : WeightOf(S) = iter[S]
  BY <1>1, WeightIsSum
<1>4. \A S \in SUBSET Node : iter[S] \in Nat
  BY <1>1, <1>2, NodeFinite, SumIsNat
<1>5. iter[{}] = 0
  BY <1>1, SumStep
<1>6. ASSUME NEW T \in SUBSET Node
      PROVE  \A S \in SUBSET Node : S \cap T = {} => iter[S \cup T] = iter[S] + iter[T]
  BY <1>1, <1>2, NodeFinite, SumUnion
<1>7. ASSUME NEW n \in Node PROVE WeightOf({n}) > 0
  <2>1. {n} \in SUBSET Node /\ {n} # {}
    OBVIOUS
  <2>2. \A s \in SUBSET Node : \A x \in s : iter[s] = Weight[x] + iter[s \ {x}]
    <3>1. \A x \in Node : Weight[x] \in Nat
      BY <1>2
    <3>2. IsFiniteSet(Node)
      BY NodeFinite
    <3> SUFFICES ASSUME NEW s \in SUBSET Node, NEW x \in s
                 PROVE  iter[s] = Weight[x] + iter[s \ {x}]
      OBVIOUS
    <3> QED
      BY <1>1, <3>1, <3>2, SumTake
  <2>3. \A s : s = {} => iter[s] = 0
    BY <1>5
  <2>4. iter[{n}] = Weight[n] + 0
    <3>1. iter[{n}] = Weight[n] + iter[{n} \ {n}]
      BY <2>1, <2>2
    <3>2. iter[{n} \ {n}] = 0
      BY <2>3
    <3> QED
      BY <3>1, <3>2
  <2> QED
    BY <2>1, <2>4, <1>3, <1>2
<1>8. ASSUME NEW S \in SUBSET Node, NEW T \in SUBSET Node, S \cap T = {}
      PROVE  WeightOf(S \cup T) = WeightOf(S) + WeightOf(T)
  <2>1. S \cup T \in SUBSET Node
    OBVIOUS
  <2> QED
    BY <2>1, <1>3, <1>6, <1>8
<1> QED
  BY <1>3, <1>4, <1>5, <1>7, <1>8

(* A larger set weighs more; two sets weigh what all of both does, and what they share
   once more. *)
LEMMA WeightSplit ==
  ASSUME NEW S \in SUBSET Node, NEW T \in SUBSET Node
  PROVE  /\ S \subseteq T => WeightOf(S) <= WeightOf(T)
         /\ WeightOf(S) + WeightOf(T) <= WeightOf(Node) + WeightOf(S \cap T)
<1>1. ASSUME NEW A \in SUBSET Node, NEW B \in SUBSET Node, A \subseteq B
      PROVE  WeightOf(B) = WeightOf(A) + WeightOf(B \ A) /\ WeightOf(A) <= WeightOf(B)
  <2>1. A \cap (B \ A) = {} /\ A \cup (B \ A) = B /\ B \ A \in SUBSET Node
    BY <1>1
  <2> QED
    BY <2>1, WeightFacts
<1>2. WeightOf(T) = WeightOf(S \cap T) + WeightOf(T \ S)
  <2>1. S \cap T \in SUBSET Node /\ S \cap T \subseteq T /\ T \ (S \cap T) = T \ S
    OBVIOUS
  <2> QED
    BY <2>1, <1>1
<1>3. WeightOf(T \ S) <= WeightOf(Node \ S)
  <2>1. T \ S \in SUBSET Node /\ Node \ S \in SUBSET Node /\ T \ S \subseteq Node \ S
    OBVIOUS
  <2> QED
    BY <2>1, <1>1
<1>4. WeightOf(Node) = WeightOf(S) + WeightOf(Node \ S)
  <2>1. Node \in SUBSET Node /\ S \subseteq Node
    OBVIOUS
  <2> QED
    BY <2>1, <1>1
<1>5. /\ WeightOf(T) \in Nat /\ WeightOf(S) \in Nat /\ WeightOf(Node) \in Nat
      /\ WeightOf(S \cap T) \in Nat /\ WeightOf(T \ S) \in Nat /\ WeightOf(Node \ S) \in Nat
  <2>1. /\ T \in SUBSET Node /\ S \in SUBSET Node /\ Node \in SUBSET Node
        /\ S \cap T \in SUBSET Node /\ T \ S \in SUBSET Node /\ Node \ S \in SUBSET Node
    OBVIOUS
  <2> QED
    BY <2>1, WeightFacts
<1> QED
  BY <1>1, <1>2, <1>3, <1>4, <1>5

(* Two quorums meet, in a validator other than n if those without n are one. *)
LEMMA Quorums ==
  /\ ~ Quorum({})
  /\ \A S, T \in SUBSET Node : S \subseteq T /\ Quorum(S) => Quorum(T)
  /\ \A S, T \in SUBSET Node : Quorum(S) /\ Quorum(T) => S \cap T # {}
  /\ \A S, T \in SUBSET Node : \A n \in Node :
        Quorum(S) /\ Quorum(T) /\ Quorum(Node \ {n}) => \E r \in S \cap T : r # n
<1> DEFINE W == WeightOf(Node)
           F == Faulty
<1>1. W \in Nat /\ W > 0
  <2>1. PICK n \in Node : TRUE
    BY NodeFinite
  <2>2. {n} \in SUBSET Node /\ Node \in SUBSET Node /\ {n} \subseteq Node
    OBVIOUS
  <2>3. WeightOf({n}) <= WeightOf(Node)
    BY <2>2, WeightSplit
  <2>4. WeightOf({n}) > 0 /\ WeightOf({n}) \in Nat /\ WeightOf(Node) \in Nat
    BY <2>2, WeightFacts
  <2> QED
    BY <2>3, <2>4
<1>2. F \in Nat /\ 3 * F < W
  <2>1. \A x \in Nat : x > 0 => (x - 1) \div 3 \in Nat /\ 3 * ((x - 1) \div 3) < x
    OBVIOUS
  <2> HIDE DEF W
  <2>2. F = (W - 1) \div 3
    BY DEF Faulty, W
  <2> QED
    BY <1>1, <2>1, <2>2
<1>3. \A S : Quorum(S) <=> WeightOf(S) >= W - F
  BY DEF Quorum
<1> HIDE DEF W, F
<1>4. \A S \in SUBSET Node : WeightOf(S) \in Nat
  BY WeightFacts
<1>5. ASSUME NEW S \in SUBSET Node, NEW T \in SUBSET Node, Quorum(S), Quorum(T)
      PROVE  WeightOf(S \cap T) > F
  <2>1. WeightOf(S) + WeightOf(T) <= W + WeightOf(S \cap T)
    BY WeightSplit DEF W
  <2>2. S \cap T \in SUBSET Node
    OBVIOUS
  <2>3. WeightOf(S) >= W - F /\ WeightOf(T) >= W - F
    BY <1>3, <1>5
  <2>4. WeightOf(S) \in Nat /\ WeightOf(T) \in Nat /\ WeightOf(S \cap T) \in Nat
    BY <2>2, <1>4
  <2> QED
    BY <1>1, <1>2, <2>1, <2>3, <2>4
<1>6. ~ Quorum({})
  BY <1>1, <1>2, <1>3, WeightFacts
<1>7. ASSUME NEW S \in SUBSET Node, NEW T \in SUBSET Node, S \subseteq T, Quorum(S)
      PROVE  Quorum(T)
  <2>1. WeightOf(S) <= WeightOf(T)
    BY <1>7, WeightSplit
  <2> QED
    BY <2>1, <1>1, <1>2, <1>3, <1>4, <1>7
<1>8. ASSUME NEW S \in SUBSET Node, NEW T \in SUBSET Node, Quorum(S), Quorum(T)
      PROVE  S \cap T # {}
  BY <1>2, <1>5, <1>8, WeightFacts
<1>9. ASSUME NEW S \in SUBSET Node, NEW T \in SUBSET Node, NEW n \in Node,
             Quorum(S), Quorum(T), Quorum(Node \ {n})
      PROVE  \E r \in S \cap T : r # n
  <2> SUFFICES ASSUME \A r \in S \cap T : r = n PROVE FALSE
    OBVIOUS
  <2>1. /\ S \cap T \in SUBSET Node /\ {n} \in SUBSET Node /\ Node \ {n} \in SUBSET Node
        /\ S \cap T \subseteq {n} /\ Node \in SUBSET Node
    OBVIOUS
  <2>2. WeightOf(S \cap T) > F
    BY <1>5, <1>9
  <2>3. WeightOf(S \cap T) <= WeightOf({n})
    BY <2>1, WeightSplit
  <2>4. WeightOf(Node \ {n}) >= W - F
    BY <1>3, <1>9
  <2>5. W = WeightOf(Node \ {n}) + WeightOf({n})
    <3>1. (Node \ {n}) \cap {n} = {} /\ (Node \ {n}) \cup {n} = Node
      OBVIOUS
    <3> QED
      BY <3>1, <2>1, WeightFacts DEF W
  <2>6. WeightOf(S \cap T) \in Nat /\ WeightOf({n}) \in Nat /\ WeightOf(Node \ {n}) \in Nat
    BY <2>1, <1>4
  <2> QED
    BY <2>2, <2>3, <2>4, <2>5, <2>6, <1>1, <1>2
<1> QED
  BY <1>6, <1>7, <1>8, <1>9

-----------------------------------------------------------------------------
(* What messages say stays true when more are sent. *)

VotersIn(M) == \A m \in M : m.type = "Vote" => m.from \in Node

LEMMA VotesGrow ==
  ASSUME NEW M, NEW N, M \subseteq N, VotersIn(N), NEW n, NEW phase, NEW b, NEW v
  PROVE  /\ VotesFor(M, n, phase, b, v) \in SUBSET Node
         /\ VotesFor(N, n, phase, b, v) \in SUBSET Node
         /\ VotesFor(M, n, phase, b, v) \subseteq VotesFor(N, n, phase, b, v)
BY DEF VotersIn, VotesFor

LEMMA BackedGrows ==
  ASSUME NEW M, NEW N, M \subseteq N, VotersIn(N), NEW phase, NEW b, NEW v,
         Backed(M, phase, b, v)
  PROVE  Backed(N, phase, b, v)
<1>1. PICK n \in Node : Quorum(VotesFor(M, n, phase, b, v))
  BY DEF Backed
<1>2. Quorum(VotesFor(N, n, phase, b, v))
  BY <1>1, VotesGrow, Quorums
<1> QED
  BY <1>2 DEF Backed

LEMMA CertifiedGrows ==
  ASSUME NEW M, NEW N, M \subseteq N, VotersIn(N)
  PROVE  /\ \A b, v : Certified(M, b, v) => Certified(N, b, v)
         /\ \A qc : CertOK(M, qc) => CertOK(N, qc)
         /\ Known(M) \subseteq Known(N)
         /\ \A c, v : Follows(M, c, v) => Follows(N, c, v)
<1>1. \A b, v : Certified(M, b, v) => Certified(N, b, v)
  BY BackedGrows DEF Certified
<1>2. Known(M) \subseteq Known(N)
  BY DEF Known
<1>3. \A c, v : Follows(M, c, v) => Follows(N, c, v)
  BY <1>1, <1>2 DEF Follows
<1> QED
  BY <1>1, <1>2, <1>3 DEF CertOK

(* A quorum of votes has one. *)
LEMMA BackedVote ==
  ASSUME NEW M, NEW phase, NEW b, NEW v, Backed(M, phase, b, v)
  PROVE  \E m \in M : m.type = "Vote" /\ m.view = v /\ m.phase = phase /\ m.node = b
<1>1. PICK n \in Node : Quorum(VotesFor(M, n, phase, b, v))
  BY DEF Backed
<1>2. VotesFor(M, n, phase, b, v) # {}
  BY <1>1, Quorums
<1> QED
  BY <1>2 DEF VotesFor

(* The phases of a block come one after the other. *)
LEMMA BackedPhases ==
  ASSUME NEW M, MsgsOK(M), NEW b, NEW v
  PROVE  /\ Backed(M, "Commit", b, v) => Backed(M, "PreCommit", b, v)
         /\ Backed(M, "PreCommit", b, v) => Backed(M, "Prepare", b, v)
         /\ Backed(M, "Prepare", b, v) =>
              \E p \in M : p.type = "Prepare" /\ p.view = v /\ p.node = b
         /\ Backed(M, "Prepare", b, v) => b \in Known(M) /\ v \in Nat \ {0}
<1>1. \A m \in M : m.type = "Vote" => Grounded(M, m) /\ Proposed(M, m)
  BY DEF MsgsOK
<1>2. Backed(M, "Commit", b, v) => Backed(M, "PreCommit", b, v)
  BY <1>1, BackedVote DEF Grounded
<1>3. Backed(M, "PreCommit", b, v) => Backed(M, "Prepare", b, v)
  BY <1>1, BackedVote DEF Grounded
<1>4. Backed(M, "Prepare", b, v) =>
         \E p \in M : p.type = "Prepare" /\ p.view = v /\ p.node = b
  BY <1>1, BackedVote DEF Proposed
<1>5. Backed(M, "Prepare", b, v) => v \in Nat \ {0}
  BY <1>1, BackedVote DEF Grounded
<1> QED
  BY <1>2, <1>3, <1>4, <1>5 DEF Known

LEMMA CertifiedKnown ==
  ASSUME NEW M, MsgsOK(M), NEW b, NEW v, Certified(M, b, v)
  PROVE  b \in Known(M)
BY BackedPhases DEF Certified, Known

(* New votes are of the view the voter is in: the earlier votes stay earlier. *)
LEMMA MsgsKept ==
  ASSUME NEW M, NEW N, M \subseteq N, MsgsOK(M), NEW V \in [Node -> Nat],
         \A m \in M : m.type = "Vote" => m.view <= V[m.from],
         \A m \in N \ M : /\ Grounded(M, m) /\ Proposed(N, m)
                          /\ m.type = "Vote" => m.view = V[m.from]
  PROVE  MsgsOK(N) /\ VotersIn(N)
<1>1. \A m \in N : Grounded(M, m)
  BY DEF MsgsOK
<1>2. VotersIn(N)
  BY <1>1 DEF VotersIn, Grounded
<1>3. ASSUME NEW m \in N PROVE Proposed(N, m)
  BY DEF MsgsOK, Proposed
<1>4. ASSUME NEW m \in N, m.type = "Vote" PROVE SafeVote(N, m)
  <2>1. SafeVote(M, m) /\ m.from \in Node /\ m.view \in Nat /\ m.view <= V[m.from]
    BY <1>1, <1>4 DEF Grounded
  <2>2. ASSUME NEW phase, NEW x \in Earlier(N, m, phase)
        PROVE  x \in Earlier(M, m, phase)
    BY <2>1, <1>1 DEF Earlier, Grounded
  <2>3. \A x : Follows(M, m.node, x) => Follows(N, m.node, x)
    BY <1>2, CertifiedGrows
  <2> QED
    BY <2>1, <2>2, <2>3 DEF SafeVote
<1>5. ASSUME NEW m \in N PROVE Grounded(N, m)
  <2>1. \A phase, b, v : Backed(M, phase, b, v) => Backed(N, phase, b, v)
    BY <1>2, BackedGrows
  <2>2. \A qc : CertOK(M, qc) => CertOK(N, qc)
    BY <1>2, CertifiedGrows
  <2>3. Grounded(M, m)
    BY <1>1
  <2>4. m.type = "Vote" => SafeVote(N, m)
    BY <1>4
  <2> QED
    BY <2>1, <2>2, <2>3, <2>4 DEF Grounded
<1> QED
  BY <1>2, <1>3, <1>5 DEF MsgsOK

(* A later certificate: its quorum meets the validators that may have committed,
   in one that has voted for both. *)
LEMMA LastKept ==
  ASSUME NEW M, NEW N, M \subseteq N, MsgsOK(M), MsgsOK(N), VotersIn(N),
         NEW V \in [Node -> Nat], NEW W \in [Node -> Nat],
         \A n \in Node : V[n] <= W[n],
         \A m \in N : m.type = "Vote" => m.view <= W[m.from],
         \A m \in M : m.type = "Vote" => m.view <= V[m.from],
         \A m \in N \ M : m.type = "Vote" => m.view = V[m.from] /\ SafeVote(M, m),
         NEW top, KnownOK(N, top),
         CommitsLast(M, V)
  PROVE  CommitsLast(N, W)
<1> SUFFICES ASSUME OneProposal(N), NEW v \in Nat, NEW w \in Nat,
                    NEW b \in Known(N), NEW c \in Known(N),
                    Backed(N, "Prepare", b, v), Quorum(MayCommit(N, W, b, v)),
                    Backed(N, "Prepare", c, w), w >= v
             PROVE  c = b \/ c.number > b.number
  BY DEF CommitsLast
<1>1. CASE w = v
  <2>1. PICK p \in N : p.type = "Prepare" /\ p.view = v /\ p.node = b
    BY BackedPhases
  <2>2. PICK q \in N : q.type = "Prepare" /\ q.view = v /\ q.node = c
    BY <1>1, BackedPhases
  <2> QED
    BY <2>1, <2>2 DEF OneProposal
<1>2. CASE w > v
  <2>1. PICK n \in Node : Quorum(VotesFor(N, n, "Prepare", c, w))
    BY DEF Backed
  <2> DEFINE Q1 == MayCommit(N, W, b, v)
             Q2 == VotesFor(N, n, "Prepare", c, w)
  <2>2. Q1 \in SUBSET Node /\ Q2 \in SUBSET Node
    BY VotesGrow DEF MayCommit
  <2>3. ASSUME NEW r \in Q2
        PROVE  \E m \in N : /\ m.type = "Vote" /\ m.phase = "Prepare" /\ m.from = r /\ m.to = n
                            /\ m.view = w /\ m.node = c
    BY DEF VotesFor
  <2>4. ASSUME NEW r \in Q1 \cap Q2
        PROVE  \E m \in M : /\ m.type = "Vote" /\ m.phase = "Commit" /\ m.from = r
                            /\ m.view = v /\ m.node = b
    <3>1. PICK m \in N : /\ m.type = "Vote" /\ m.phase = "Prepare" /\ m.from = r /\ m.to = n
                         /\ m.view = w /\ m.node = c
      BY <2>3
    <3>2. r \in Node /\ W[r] \in Nat /\ V[r] \in Nat
      BY <2>2
    <3>3. w <= W[r]
      BY <3>1
    <3>4. ~ (W[r] <= v)
      BY <3>2, <3>3, <1>2
    <3>5. PICK x \in N : /\ x.type = "Vote" /\ x.phase = "Commit" /\ x.from = r
                         /\ x.node = b /\ x.view = v
      BY <3>4 DEF MayCommit
    <3>6. m \in M => w <= V[r]
      BY <3>1
    <3>7. m \notin M => w = V[r]
      BY <3>1
    <3>8. x \notin M => v = V[r]
      BY <3>5
    <3>9. x \in M
      BY <3>2, <3>6, <3>7, <3>8, <1>2
    <3> QED
      BY <3>5, <3>9
  <2>5. Q1 \cap Q2 # {}
    BY <2>1, <2>2, Quorums
  <2>6. PICK s \in Q1 \cap Q2 : TRUE
    BY <2>5
  <2>7. Backed(M, "PreCommit", b, v) /\ Backed(M, "Prepare", b, v)
    <3>1. PICK m \in M : /\ m.type = "Vote" /\ m.phase = "Commit" /\ m.view = v /\ m.node = b
      BY <2>4, <2>6
    <3>2. Grounded(M, m)
      BY DEF MsgsOK
    <3>3. Backed(M, "PreCommit", b, v)
      BY <3>1, <3>2 DEF Grounded
    <3> QED
      BY <3>3, BackedPhases
  <2>8. \A m \in N : m.type = "Vote" => SafeVote(M, m)
    BY DEF MsgsOK, Grounded
  <2>9. Follows(M, c, v)
    <3>1. CASE Quorum(Node \ {n})
      <4>1. PICK r \in Q1 \cap Q2 : r # n
        BY <3>1, <2>1, <2>2, Quorums
      <4>2. PICK m \in N : /\ m.type = "Vote" /\ m.phase = "Prepare" /\ m.from = r /\ m.to = n
                           /\ m.view = w /\ m.node = c
        BY <2>3
      <4>3. PICK x \in M : /\ x.type = "Vote" /\ x.phase = "Commit" /\ x.from = r
                           /\ x.view = v /\ x.node = b
        BY <2>4
      <4>4. x \in Earlier(M, m, "Commit")
        BY <4>2, <4>3, <1>2 DEF Earlier
      <4> QED
        BY <4>1, <4>2, <4>3, <4>4, <2>8 DEF SafeVote
    <3>2. CASE ~ Quorum(Node \ {n})
      <4>1. ASSUME NEW Q \in SUBSET Node, Quorum(Q) PROVE n \in Q
        <5> SUFFICES ASSUME n \notin Q PROVE FALSE
          OBVIOUS
        <5>1. Q \subseteq Node \ {n} /\ Node \ {n} \in SUBSET Node
          OBVIOUS
        <5> QED
          BY <5>1, <4>1, <3>2, Quorums
      <4>2. n \in Q2
        BY <4>1, <2>1, <2>2
      <4>3. PICK m \in N : /\ m.type = "Vote" /\ m.phase = "Prepare" /\ m.from = n /\ m.to = n
                           /\ m.view = w /\ m.node = c
        BY <4>2, <2>3
      <4>4. PICK k \in Node : Quorum(VotesFor(M, k, "PreCommit", b, v))
        BY <2>7 DEF Backed
      <4>5. n \in VotesFor(M, k, "PreCommit", b, v)
        BY <4>4, <4>1, VotesGrow
      <4>6. PICK x \in M : x.type = "Vote" /\ x.phase = "PreCommit" /\ x.from = n /\ x.view = v
        BY <4>5 DEF VotesFor
      <4>7. x \in Earlier(M, m, "PreCommit")
        BY <4>3, <4>6, <1>2 DEF Earlier
      <4> QED
        BY <4>3, <4>6, <4>7, <3>2, <2>8 DEF SafeVote
    <3> QED
      BY <3>1, <3>2
  <2>10. PICK d \in Known(M), u \in Nat :
            u >= v /\ Certified(M, d, u) /\ (c = d \/ c.number > d.number)
    BY <2>9 DEF Follows
  <2>11. v \in Nat \ {0} /\ b \in Known(M)
    BY <2>7, BackedPhases
  <2>12. Backed(M, "Prepare", d, u)
    BY <2>10, <2>11 DEF Certified
  <2>13. Quorum(MayCommit(M, V, b, v))
    <3>1. ASSUME NEW r \in Q1 PROVE r \in MayCommit(M, V, b, v)
      <4>1. CASE W[r] <= v
        BY <4>1, <2>2 DEF MayCommit
      <4>2. CASE \E m \in N : /\ m.type = "Vote" /\ m.phase = "Commit" /\ m.from = r
                              /\ m.node = b /\ m.view = v
        <5>1. PICK m \in N : /\ m.type = "Vote" /\ m.phase = "Commit" /\ m.from = r
                             /\ m.node = b /\ m.view = v
          BY <4>2
        <5>2. m \notin M => v = V[r]
          BY <5>1
        <5> QED
          BY <5>1, <5>2, <2>2 DEF MayCommit
      <4> QED
        BY <4>1, <4>2 DEF MayCommit
    <3>2. Q1 \subseteq MayCommit(M, V, b, v) /\ MayCommit(M, V, b, v) \in SUBSET Node
      BY <3>1 DEF MayCommit
    <3> QED
      BY <3>2, <2>2, Quorums
  <2>14. OneProposal(M)
    BY DEF OneProposal
  <2>15. d = b \/ d.number > b.number
    BY <2>7, <2>10, <2>11, <2>12, <2>13, <2>14 DEF CommitsLast
  <2>16. b.number \in Nat /\ c.number \in Nat /\ d.number \in Nat
    BY <2>10, CertifiedGrows DEF KnownOK
  <2> QED
    BY <2>10, <2>15, <2>16
<1> QED
  BY <1>1, <1>2

-----------------------------------------------------------------------------
(* What every step does, and that the invariant follows from it. *)

NodeStep(k) ==
  /\ NodeOK(msgs, k, view'[k], prepareQC'[k], lockedQC'[k], base'[k], lead'[k], Len(chain'[k]))
  /\ ChainOK(msgs, chain'[k])
  /\ view'[k] >= view[k]
  /\ prepareQC'[k].view >= prepareQC[k].view
  /\ lockedQC'[k].view >= lockedQC[k].view
  /\ \/ view'[k] = view[k] /\ lead'[k].own = lead[k].own
     \/ lead'[k].own = prepareQC'[k]

NewVote(m) ==
  m.type = "Vote" =>
    /\ m.view = view[m.from] /\ view'[m.from] = view[m.from]
    /\ m.phase = "PreCommit" => prepareQC'[m.from].view >= m.view
    /\ m.phase = "Commit" => lockedQC'[m.from].view >= m.view

StepOK ==
  /\ Domains'
  /\ KnownOK(msgs', made')
  /\ msgs \subseteq msgs'
  /\ \A m \in msgs' \ msgs : Grounded(msgs, m) /\ Proposed(msgs', m) /\ NewVote(m)
  /\ \A k \in Node : NodeStep(k)

LEMMA StepKeeps ==
  ASSUME SafetyInv, StepOK
  PROVE  SafetyInv'
<1> DEFINE M == msgs
           N == msgs'
<1>1. view \in [Node -> Nat] /\ view' \in [Node -> Nat]
  BY DEF SafetyInv, StepOK, Domains
<1>2. \A m \in M : m.type = "Vote" => m.view <= view[m.from]
  BY DEF SafetyInv, VoteAt
<1>3. \A m \in N \ M : /\ Grounded(M, m) /\ Proposed(N, m)
                       /\ m.type = "Vote" => m.view = view[m.from]
  BY DEF StepOK, NewVote
<1>4. MsgsOK(M) /\ M \subseteq N
  BY DEF SafetyInv, StepOK
<1>5. MsgsOK(N) /\ VotersIn(N)
  <2> HIDE DEF M, N
  <2> QED
    BY <1>1, <1>2, <1>3, <1>4, MsgsKept
<1>6. /\ \A qc : CertOK(M, qc) => CertOK(N, qc)
      /\ Known(M) \subseteq Known(N)
      /\ \A phase, b, v : Backed(M, phase, b, v) => Backed(N, phase, b, v)
  <2> HIDE DEF M, N
  <2> QED
    BY <1>4, <1>5, CertifiedGrows, BackedGrows
<1>7. ASSUME NEW k \in Node
      PROVE  /\ NodeOK(N, k, view'[k], prepareQC'[k], lockedQC'[k], base'[k], lead'[k], Len(chain'[k]))
             /\ ChainOK(N, chain'[k])
  <2>1. NodeStep(k)
    BY DEF StepOK
  <2>2. NodeOK(N, k, view'[k], prepareQC'[k], lockedQC'[k], base'[k], lead'[k], Len(chain'[k]))
    BY <2>1, <1>6 DEF NodeStep, NodeOK
  <2>3. ChainOK(N, chain'[k])
    BY <2>1, <1>6 DEF NodeStep, ChainOK
  <2> QED
    BY <2>2, <2>3
<1>8. ASSUME NEW m \in N PROVE VoteAt(m, view', prepareQC', lockedQC', lead')
  <2> SUFFICES ASSUME m.type = "Vote" PROVE VoteAt(m, view', prepareQC', lockedQC', lead')
    BY DEF VoteAt
  <2>1. m.from \in Node /\ m.view \in Nat
    BY <1>5 DEF MsgsOK, Grounded
  <2> DEFINE k == m.from
  <2>2. NodeStep(k) /\ view[k] \in Nat /\ view'[k] \in Nat
    BY <2>1, <1>1 DEF StepOK
  <2>3. /\ prepareQC[k].view \in Nat /\ lockedQC[k].view \in Nat
        /\ prepareQC'[k].view \in Nat /\ lockedQC'[k].view \in Nat
    BY <2>1, <1>7 DEF SafetyInv, NodeOK, CertOK
  <2>4. CASE m \in M
    <3>1. VoteAt(m, view, prepareQC, lockedQC, lead)
      BY <2>4 DEF SafetyInv
    <3>2. m.view <= view'[k] /\ (m.phase = "Commit" => lockedQC'[k].view >= m.view)
      BY <2>1, <2>2, <2>3, <3>1 DEF VoteAt, NodeStep
    <3>3. m.phase = "PreCommit" => prepareQC'[k].view >= m.view
      BY <2>1, <2>2, <2>3, <3>1 DEF VoteAt, NodeStep
    <3>4. m.phase = "PreCommit" /\ m.view < view'[k] => lead'[k].own.view >= m.view
      <4>1. CASE view'[k] = view[k] /\ lead'[k].own = lead[k].own
        BY <4>1, <3>1 DEF VoteAt
      <4>2. CASE lead'[k].own = prepareQC'[k]
        BY <4>2, <3>3
      <4> QED
        BY <4>1, <4>2, <2>2 DEF NodeStep
    <3> QED
      BY <3>2, <3>3, <3>4 DEF VoteAt
  <2>5. CASE m \notin M
    <3>1. NewVote(m)
      BY <2>5 DEF StepOK
    <3> QED
      BY <3>1, <2>1, <2>2 DEF NewVote, VoteAt
  <2> QED
    BY <2>4, <2>5
<1>9. CommitsLast(N, view')
  <2>1. \A n \in Node : view[n] <= view'[n]
    BY <1>1 DEF StepOK, NodeStep
  <2>2. \A m \in N : m.type = "Vote" => m.view <= view'[m.from]
    BY <1>8 DEF VoteAt
  <2>3. \A m \in N \ M : m.type = "Vote" => m.view = view[m.from] /\ SafeVote(M, m)
    BY <1>3 DEF Grounded
  <2>4. KnownOK(N, made') /\ CommitsLast(M, view)
    BY DEF StepOK, SafetyInv
  <2> HIDE DEF M, N
  <2> QED
    BY <1>1, <1>2, <1>4, <1>5, <2>1, <2>2, <2>3, <2>4, LastKept
<1> QED
  BY <1>5, <1>7, <1>8, <1>9 DEF SafetyInv, StepOK

-----------------------------------------------------------------------------
(* What the definitions of the model stand for, under the invariant. *)

(* A node that a step leaves as it is. *)
Same(k) ==
  /\ view'[k] = view[k] /\ prepareQC'[k] = prepareQC[k] /\ lockedQC'[k] = lockedQC[k]
  /\ base'[k] = base[k] /\ lead'[k] = lead[k] /\ chain'[k] = chain[k]

LEMMA NodeNumbers ==
  ASSUME SafetyInv, NEW n \in Node
  PROVE  /\ view[n] \in Nat \ {0}
         /\ prepareQC[n].view \in Nat /\ lockedQC[n].view \in Nat /\ lead[n].own.view \in Nat
         /\ prepareQC[n].view <= view[n] /\ lockedQC[n].view <= view[n]
BY DEF SafetyInv, NodeOK, CertOK

LEMMA SameStep ==
  ASSUME SafetyInv, NEW k \in Node, Same(k)
  PROVE  NodeStep(k)
<1>1. NodeOK(msgs, k, view'[k], prepareQC'[k], lockedQC'[k], base'[k], lead'[k], Len(chain'[k]))
  BY DEF SafetyInv, Same
<1>2. ChainOK(msgs, chain'[k])
  BY DEF SafetyInv, Same
<1> QED
  BY <1>1, <1>2, NodeNumbers DEF NodeStep, Same

LEMMA TipFacts ==
  ASSUME SafetyInv, NEW n \in Node
  PROVE  /\ Len(chain[n]) \in Nat
         /\ Tip(n) \in Known(msgs) /\ Tip(n).number = Len(chain[n])
         /\ Tip(n).id \in 0 .. made
         /\ CertOK(msgs, BaseOf(n)) /\ BaseOf(n).node = Tip(n)
<1>1. ChainOK(msgs, chain[n]) /\ MsgsOK(msgs) /\ KnownOK(msgs, made)
  BY DEF SafetyInv
<1>2. PICK S : chain[n] \in Seq(S)
  BY <1>1 DEF ChainOK
<1>3. Len(chain[n]) \in Nat
  BY <1>2
<1>4. CASE chain[n] = << >>
  <2>1. Tip(n) = GenesisBlock /\ BaseOf(n) = GenesisQC /\ Len(chain[n]) = 0
    BY <1>4 DEF Tip, BaseOf
  <2>2. /\ GenesisBlock \in Known(msgs) /\ GenesisBlock.number = 0
        /\ GenesisQC.view = 0 /\ GenesisQC.node = GenesisBlock
    BY DEF Known, GenesisBlock, GenesisQC
  <2>3. CertOK(msgs, GenesisQC)
    BY <2>2 DEF CertOK, Certified
  <2> QED
    BY <1>1, <1>3, <2>1, <2>2, <2>3 DEF KnownOK
<1>5. CASE chain[n] # << >>
  <2> DEFINE e == chain[n][Len(chain[n])]
  <2>1. Len(chain[n]) \in 1 .. Len(chain[n])
    BY <1>2, <1>5
  <2>2. /\ e.block \in Known(msgs) /\ e.block.number = Len(chain[n]) /\ e.qc.node = e.block
        /\ e.qc.view \in Nat /\ Backed(msgs, "Commit", e.block, e.qc.view)
    BY <1>1, <2>1 DEF ChainOK
  <2>3. Tip(n) = e.block /\ BaseOf(n) = e.qc
    BY <1>5 DEF Tip, BaseOf
  <2>4. Certified(msgs, e.block, e.qc.view)
    BY <1>1, <2>2, BackedPhases DEF Certified
  <2>5. CertOK(msgs, e.qc)
    BY <2>2, <2>4 DEF CertOK
  <2> QED
    BY <1>1, <1>3, <2>2, <2>3, <2>5 DEF KnownOK
<1> QED
  BY <1>4, <1>5

(* A leader's highest certificate: its own NewView counts unless the others are
   a quorum. *)
LEMMA HighFacts ==
  ASSUME SafetyInv, NEW n \in Node, NEW high \in HighQCs(n)
  PROVE  /\ CertOK(msgs, high)
         /\ Quorum(Node \ {n}) \/ high.view >= lead[n].own.view
<1>1. \A m \in NewViewsTo(n) : m.from \in Node /\ m.from # n /\ CertOK(msgs, m.qc)
  BY DEF SafetyInv, MsgsOK, Grounded, NewViewsTo
<1>2. CertOK(msgs, lead[n].own)
  BY DEF SafetyInv, NodeOK
<1>3. \A r \in Reported(n) : /\ r[1] \in Node /\ CertOK(msgs, r[2])
                             /\ r[1] = n => r[2] = lead[n].own
  BY <1>1, <1>2 DEF Reported
<1>4. PICK r \in Reported(n) : high = r[2] /\ Quorum(WithoutHigher(n, r[2]))
  BY DEF HighQCs
<1> DEFINE Q == WithoutHigher(n, high)
<1>5. Q \in SUBSET Node /\ Quorum(Q)
  BY <1>3, <1>4 DEF WithoutHigher
<1>6. n \in Q => high.view >= lead[n].own.view
  <2> SUFFICES ASSUME n \in Q PROVE high.view >= lead[n].own.view
    OBVIOUS
  <2>1. PICK x \in Reported(n) : x[2].view <= high.view /\ x[1] = n
    BY DEF WithoutHigher
  <2>2. high.view \in Nat /\ lead[n].own.view \in Nat
    BY <1>2, <1>3, <1>4 DEF CertOK
  <2> QED
    BY <1>3, <2>1, <2>2
<1>7. n \notin Q => Quorum(Node \ {n})
  <2>1. n \notin Q => Q \subseteq Node \ {n}
    BY <1>5
  <2>2. Node \ {n} \in SUBSET Node
    OBVIOUS
  <2> HIDE DEF Q
  <2> QED
    BY <1>5, <2>1, <2>2, Quorums
<1> QED
  BY <1>3, <1>4, <1>6, <1>7

-----------------------------------------------------------------------------
(* Every step is one of those. *)

(* No other block is known than before. *)
LEMMA KnownSame ==
  ASSUME NEW M, NEW N, NEW top, M \subseteq N, KnownOK(M, top),
         \A m \in N \ M : m.type = "Prepare" => m.node \in Known(M)
  PROVE  KnownOK(N, top)
<1>1. Known(N) = Known(M)
  BY DEF Known
<1> QED
  BY <1>1 DEF KnownOK

(* The step of node n: what is left to show for it. *)
LEMMA ActorStep ==
  ASSUME SafetyInv, NEW n \in Node, Domains', KnownOK(msgs', made'), msgs \subseteq msgs',
         \A k \in Node \ {n} : Same(k),
         \A m \in msgs' \ msgs : Grounded(msgs, m) /\ Proposed(msgs', m) /\ NewVote(m),
         NodeStep(n)
  PROVE  StepOK
<1>1. \A k \in Node : NodeStep(k)
  BY SameStep
<1> QED
  BY <1>1 DEF StepOK

(* A leader proposes b on the certificate high (on_proposal). *)
LEMMA ProposeStep ==
  ASSUME SafetyInv, NEW n \in Node, AsLeader(n), NEW b, NEW high,
         CertOK(msgs, high), Quorum(Node \ {n}) \/ high.view >= lead[n].own.view,
         b = high.node \/ b.number > high.node.number,
         Propose(n, b, high), KnownOK(msgs', made'),
         UNCHANGED <<view, base, prepareQC, lockedQC, chain>>
  PROVE  StepOK
<1> DEFINE p == [type |-> "Prepare", view |-> view[n], node |-> b, justify |-> high]
           m == Vote(n, "Prepare", b)
<1>1. msgs' = msgs \cup {p, m}
  BY DEF Propose
<1>2. Domains /\ Domains'
  BY DEF SafetyInv, Domains, Propose
<1>3. /\ lead'[n].own = lead[n].own /\ lead'[n].wanted = None
      /\ \A k \in Node \ {n} : lead'[k] = lead[k]
  BY <1>2 DEF Propose, Domains
<1>4. \A k \in Node \ {n} : Same(k)
  BY <1>3 DEF Same
<1>5. NodeStep(n)
  <2>1. NodeOK(msgs, n, view'[n], prepareQC'[n], lockedQC'[n], base'[n], lead'[n], Len(chain'[n]))
    BY <1>3 DEF SafetyInv, NodeOK
  <2>2. ChainOK(msgs, chain'[n])
    BY DEF SafetyInv
  <2> QED
    BY <1>3, <2>1, <2>2, NodeNumbers DEF NodeStep
<1>6. view[n] \in Nat \ {0}
  BY NodeNumbers
<1>7. Grounded(msgs, p) /\ Proposed(msgs', p) /\ NewVote(p)
  BY <1>6 DEF Grounded, Proposed, NewVote
<1>8. /\ m.type = "Vote" /\ m.phase = "Prepare" /\ m.from = n /\ m.to = n
      /\ m.view = view[n] /\ m.node = b
  BY DEF Vote, AsLeader
<1>9. Proposed(msgs', m) /\ NewVote(m)
  <2>1. p \in msgs' /\ p.type = "Prepare" /\ p.view = view[n] /\ p.node = b
    BY <1>1
  <2>2. view' = view
    OBVIOUS
  <2> HIDE DEF p, m
  <2> QED
    BY <1>8, <2>1, <2>2 DEF Proposed, NewVote
<1>10. SafeVote(msgs, m)
  <2> SUFFICES ASSUME ~ Quorum(Node \ {n}), NEW x \in Earlier(msgs, m, "PreCommit")
               PROVE  Follows(msgs, b, x.view)
    BY <1>8 DEF SafeVote
  <2>1. x \in msgs /\ x.type = "Vote" /\ x.phase = "PreCommit" /\ x.from = n /\ x.view < view[n]
    BY <1>8 DEF Earlier
  <2>2. VoteAt(x, view, prepareQC, lockedQC, lead) /\ x.view \in Nat
    BY <2>1 DEF SafetyInv, MsgsOK, Grounded
  <2>3. lead[n].own.view >= x.view /\ lead[n].own.view \in Nat
    BY <2>1, <2>2, NodeNumbers DEF VoteAt
  <2>4. high.view >= x.view /\ high.view \in Nat /\ Certified(msgs, high.node, high.view)
    BY <2>2, <2>3 DEF CertOK
  <2>5. high.node \in Known(msgs)
    BY <2>4, CertifiedKnown DEF SafetyInv
  <2> QED
    BY <2>4, <2>5 DEF Follows
<1>11. Grounded(msgs, m)
  BY <1>6, <1>8, <1>10 DEF Grounded
<1> HIDE DEF p, m
<1>12. \A x \in msgs' \ msgs : Grounded(msgs, x) /\ Proposed(msgs', x) /\ NewVote(x)
  BY <1>1, <1>7, <1>9, <1>11
<1> QED
  BY <1>1, <1>2, <1>4, <1>5, <1>12, ActorStep

LEMMA ProposeMsgs ==
  ASSUME NEW n, NEW b, NEW high, Propose(n, b, high)
  PROVE  \E p, m : /\ msgs' = msgs \cup {p, m} /\ p.type = "Prepare" /\ p.node = b
                   /\ m.type = "Vote"
<1> DEFINE p == [type |-> "Prepare", view |-> view[n], node |-> b, justify |-> high]
           m == Vote(n, "Prepare", b)
<1>1. msgs' = msgs \cup {p, m}
  BY DEF Propose
<1>2. p.type = "Prepare" /\ p.node = b /\ m.type = "Vote"
  BY DEF Vote
<1> HIDE DEF p, m
<1> QED
  BY <1>1, <1>2

(* CreateProposal *)
LEMMA CreateStep ==
  ASSUME SafetyInv, NEW n \in Node, NEW high \in HighQCs(n), CreateProposal(n, high)
  PROVE  StepOK
<1> DEFINE b == Built(n)
<1>1. KnownOK(msgs, made) /\ MsgsOK(msgs)
  BY DEF SafetyInv
<1>2. CertOK(msgs, high) /\ (Quorum(Node \ {n}) \/ high.view >= lead[n].own.view)
  BY HighFacts
<1>3. /\ Len(chain[n]) \in Nat /\ Tip(n) \in Known(msgs) /\ Tip(n).number = Len(chain[n])
      /\ Tip(n).id \in 0 .. made
  BY TipFacts
<1>4. b.number = Len(chain[n]) + 1 /\ b.parent = Tip(n).id /\ b.id = made + 1
  BY <1>3 DEF Built
<1>5. base[n].node \in Known(msgs) /\ base[n].node.number <= Len(chain[n])
  BY DEF SafetyInv, NodeOK
<1>6. high.node = base[n].node
  <2>1. high.node \in Known(msgs)
    BY <1>1, <1>2, CertifiedKnown DEF CertOK
  <2> QED
    BY <1>1, <1>5, <2>1 DEF CreateProposal, KnownOK
<1>7. b.number > high.node.number
  BY <1>1, <1>3, <1>4, <1>5, <1>6 DEF KnownOK
<1>8. Known(msgs') = Known(msgs) \cup {b}
  <2>1. PICK p, m : /\ msgs' = msgs \cup {p, m} /\ p.type = "Prepare" /\ p.node = b
                    /\ m.type = "Vote"
    BY ProposeMsgs DEF CreateProposal
  <2> HIDE DEF b
  <2> QED
    BY <2>1 DEF Known
<1>9. KnownOK(msgs', made')
  <2>1. made' = made + 1 /\ made \in Nat
    BY <1>1 DEF CreateProposal, KnownOK
  <2> HIDE DEF b
  <2>2. \A c \in Known(msgs') : c.number \in Nat /\ c.id \in 0 .. made' /\ c.parent \in -1 .. made'
    BY <1>1, <1>3, <1>4, <1>8, <2>1 DEF KnownOK
  <2>3. \A c, d \in Known(msgs') : c.id = d.id => c = d
    BY <1>1, <1>4, <1>8, <2>1 DEF KnownOK
  <2>4. \A c, d \in Known(msgs') : c.parent = d.id => c.number = d.number + 1
    <3>1. \A d \in Known(msgs) : b.parent = d.id => b.number = d.number + 1
      BY <1>1, <1>3, <1>4 DEF KnownOK
    <3>2. \A d \in Known(msgs) : d.parent # b.id
      BY <1>1, <1>4, <2>1 DEF KnownOK
    <3>3. b.parent # b.id
      BY <1>3, <1>4, <2>1
    <3> QED
      BY <1>1, <1>8, <3>1, <3>2, <3>3 DEF KnownOK
  <2> QED
    BY <2>1, <2>2, <2>3, <2>4 DEF KnownOK
<1>10. AsLeader(n) /\ Propose(n, b, high) /\ UNCHANGED <<view, base, prepareQC, lockedQC, chain>>
  BY DEF CreateProposal, ToWork
<1> HIDE DEF b
<1> QED
  BY <1>2, <1>7, <1>9, <1>10, ProposeStep

(* A leader proposes the block of a certificate again. *)
LEMMA ReuseBlock ==
  ASSUME SafetyInv, NEW n \in Node, AsLeader(n), NEW high,
         CertOK(msgs, high), Quorum(Node \ {n}) \/ high.view >= lead[n].own.view,
         Propose(n, high.node, high), made' = made,
         UNCHANGED <<view, base, prepareQC, lockedQC, chain>>
  PROVE  StepOK
<1>1. KnownOK(msgs, made) /\ MsgsOK(msgs)
  BY DEF SafetyInv
<1>2. high.node \in Known(msgs)
  BY <1>1, CertifiedKnown DEF CertOK
<1>3. msgs \subseteq msgs' /\ \A m \in msgs' \ msgs : m.type = "Prepare" => m.node \in Known(msgs)
  <2>1. PICK p, m : /\ msgs' = msgs \cup {p, m} /\ p.node = high.node /\ m.type = "Vote"
    BY ProposeMsgs
  <2> QED
    BY <1>2, <2>1
<1>4. KnownOK(msgs', made')
  BY <1>1, <1>3, KnownSame
<1> QED
  BY <1>4, ProposeStep

(* ReuseProposal *)
LEMMA ReuseStep ==
  ASSUME SafetyInv, NEW n \in Node, NEW high \in HighQCs(n), ReuseProposal(n, high)
  PROVE  StepOK
<1>1. CertOK(msgs, high) /\ (Quorum(Node \ {n}) \/ high.view >= lead[n].own.view)
  BY HighFacts
<1>2. AsLeader(n) /\ made' = made /\ UNCHANGED <<view, base, prepareQC, lockedQC, chain>>
  BY DEF ReuseProposal, ToWork, storage, bounds
<1>3. CASE Propose(n, high.node, high)
  BY <1>1, <1>2, <1>3, ReuseBlock
<1>4. CASE msgs' = msgs /\ (lead' = lead \/ lead' = [lead EXCEPT ![n].wanted = high])
  <2>1. Domains /\ Domains'
    BY <1>2, <1>4 DEF SafetyInv, Domains
  <2>2. \A k \in Node \ {n} : Same(k)
    BY <1>2, <1>4, <2>1 DEF Same, Domains
  <2>3. lead'[n].own = lead[n].own /\ (lead'[n].wanted = lead[n].wanted \/ lead'[n].wanted = high)
    BY <1>4, <2>1 DEF Domains
  <2>4. NodeOK(msgs, n, view'[n], prepareQC'[n], lockedQC'[n], base'[n], lead'[n], Len(chain'[n]))
    BY <1>1, <1>2, <2>3 DEF SafetyInv, NodeOK
  <2>5. ChainOK(msgs, chain'[n]) /\ KnownOK(msgs', made')
    BY <1>2, <1>4 DEF SafetyInv
  <2>6. NodeStep(n)
    BY <1>2, <2>3, <2>4, <2>5, NodeNumbers DEF NodeStep
  <2> QED
    BY <1>4, <2>1, <2>2, <2>5, <2>6, ActorStep
<1> QED
  BY <1>3, <1>4 DEF ReuseProposal

(* OnRemoteProposal *)
LEMMA RemoteStep ==
  ASSUME SafetyInv, NEW n \in Node, NEW verified, OnRemoteProposal(n, verified)
  PROVE  StepOK
<1>1. lead[n].wanted # None /\ AsLeader(n) /\ made' = made
      /\ Propose(n, lead[n].wanted.node, lead[n].wanted)
      /\ UNCHANGED <<view, base, prepareQC, lockedQC, chain>>
  BY DEF OnRemoteProposal, bounds
<1>2. /\ CertOK(msgs, lead[n].wanted)
      /\ Quorum(Node \ {n}) \/ lead[n].wanted.view >= lead[n].own.view
  BY <1>1 DEF SafetyInv, NodeOK
<1> QED
  BY <1>1, <1>2, ReuseBlock

(* A step of node n in its view that makes no proposal. *)
LEMMA ViewStep ==
  ASSUME SafetyInv, NEW n \in Node, Domains', UNCHANGED <<view, base, made>>,
         msgs \subseteq msgs',
         \A m \in msgs' \ msgs : /\ m.type # "Prepare"
                                 /\ Grounded(msgs, m) /\ Proposed(msgs', m) /\ NewVote(m),
         \A k \in Node \ {n} : Same(k),
         lead'[n].own = lead[n].own, lead'[n].wanted = lead[n].wanted,
         CertOK(msgs, prepareQC'[n]), prepareQC'[n].view \in prepareQC[n].view .. view[n],
         CertOK(msgs, lockedQC'[n]), lockedQC'[n].view \in lockedQC[n].view .. view[n],
         ChainOK(msgs, chain'[n]), Len(chain'[n]) >= Len(chain[n])
  PROVE  StepOK
<1>1. KnownOK(msgs', made')
  BY KnownSame DEF SafetyInv
<1>2. /\ view'[n] = view[n] /\ view[n] \in Nat \ {0} /\ base'[n] = base[n]
      /\ prepareQC[n].view \in Nat /\ lockedQC[n].view \in Nat
  BY NodeNumbers
<1>3. Len(chain[n]) \in Nat /\ Len(chain'[n]) \in Nat
  BY TipFacts DEF ChainOK
<1>4. base[n].node \in Known(msgs) /\ base[n].node.number <= Len(chain'[n])
  <2>1. base[n].node \in Known(msgs) /\ base[n].node.number <= Len(chain[n])
    BY DEF SafetyInv, NodeOK
  <2>2. base[n].node.number \in Nat
    BY <2>1 DEF SafetyInv, KnownOK
  <2> QED
    BY <1>3, <2>1, <2>2
<1>5. /\ CertOK(msgs, lead[n].own)
      /\ lead[n].wanted # None => /\ CertOK(msgs, lead[n].wanted)
                                  /\ Quorum(Node \ {n}) \/ lead[n].wanted.view >= lead[n].own.view
  BY DEF SafetyInv, NodeOK
<1>6. NodeOK(msgs, n, view'[n], prepareQC'[n], lockedQC'[n], base'[n], lead'[n], Len(chain'[n]))
  BY <1>2, <1>4, <1>5 DEF NodeOK
<1>7. NodeStep(n)
  BY <1>2, <1>6 DEF NodeStep
<1> QED
  BY <1>1, <1>7, ActorStep

LEMMA NodeFacts ==
  ASSUME SafetyInv, NEW n \in Node
  PROVE  /\ CertOK(msgs, prepareQC[n]) /\ CertOK(msgs, lockedQC[n]) /\ ChainOK(msgs, chain[n])
         /\ Len(chain[n]) >= Len(chain[n])
         /\ prepareQC[n].view \in prepareQC[n].view .. view[n]
         /\ lockedQC[n].view \in lockedQC[n].view .. view[n]
<1>1. /\ CertOK(msgs, prepareQC[n]) /\ CertOK(msgs, lockedQC[n]) /\ ChainOK(msgs, chain[n])
      /\ Len(chain[n]) \in Nat
  BY TipFacts DEF SafetyInv, NodeOK
<1>2. prepareQC[n].view \in prepareQC[n].view .. view[n] /\ lockedQC[n].view \in lockedQC[n].view .. view[n]
  BY NodeNumbers
<1> QED
  BY <1>1, <1>2

(* A node that sends messages and leaves its certificates and chain alone. *)
LEMMA SendStep ==
  ASSUME SafetyInv, NEW n \in Node, UNCHANGED <<view, base, prepareQC, lockedQC, chain, made, lead>>,
         msgs \subseteq msgs',
         \A m \in msgs' \ msgs : /\ m.type # "Prepare"
                                 /\ Grounded(msgs, m) /\ Proposed(msgs', m) /\ NewVote(m)
  PROVE  StepOK
<1>1. Domains'
  BY DEF SafetyInv, Domains
<1>2. \A k \in Node \ {n} : Same(k)
  BY DEF Same
<1> QED
  BY <1>1, <1>2, NodeFacts, ViewStep

(* UnexpectedVote and OnTimeout *)
LEMMA QuietStep ==
  ASSUME SafetyInv, NEW n \in Node, UnexpectedVote(n) \/ OnTimeout(n)
  PROVE  StepOK
<1> DEFINE t == [type |-> "NewTimeout", from |-> n, view |-> view[n]]
<1>1. msgs' = msgs \/ msgs' = msgs \cup {t}
  BY DEF UnexpectedVote, OnTimeout
<1>2. t.type = "NewTimeout"
  OBVIOUS
<1> HIDE DEF t
<1>3. t.type # "Prepare" /\ Grounded(msgs, t) /\ Proposed(msgs', t) /\ NewVote(t)
  BY <1>2 DEF Grounded, Proposed, NewVote
<1>4. UNCHANGED <<view, base, prepareQC, lockedQC, chain, made, lead>>
  BY DEF UnexpectedVote, OnTimeout, storage, bounds
<1> QED
  BY <1>1, <1>3, <1>4, SendStep

(* The vote of a node in its view for the next phase of a block. *)
LEMMA LaterVote ==
  ASSUME SafetyInv, NEW n \in Node, NEW b, view' = view,
         NEW phase, NEW next, <<phase, next>> \in {<<"Prepare", "PreCommit">>, <<"PreCommit", "Commit">>},
         Backed(msgs, phase, b, view[n])
  PROVE  LET m == Vote(n, next, b)
         IN  /\ m.type # "Prepare" /\ Grounded(msgs, m) /\ Proposed(msgs', m)
             /\ next = "PreCommit" /\ prepareQC'[n].view = view[n] => NewVote(m)
             /\ next = "Commit" /\ lockedQC'[n].view = view[n] => NewVote(m)
<1> DEFINE m == Vote(n, next, b)
<1>1. /\ m.type = "Vote" /\ m.phase = next /\ m.from = n /\ m.view = view[n] /\ m.node = b
  BY DEF Vote
<1>2. view[n] \in Nat \ {0} /\ view'[n] = view[n]
  BY NodeNumbers
<1>3. (phase = "Prepare" /\ next = "PreCommit") \/ (phase = "PreCommit" /\ next = "Commit")
  OBVIOUS
<1> HIDE DEF m
<1>4. Grounded(msgs, m)
  BY <1>1, <1>2, <1>3 DEF Grounded, SafeVote
<1>5. m.type # "Prepare" /\ Proposed(msgs', m)
  BY <1>1, <1>3 DEF Proposed
<1>6. /\ next = "PreCommit" /\ prepareQC'[n].view = view[n] => NewVote(m)
      /\ next = "Commit" /\ lockedQC'[n].view = view[n] => NewVote(m)
  BY <1>1, <1>2, <1>3 DEF NewVote
<1> QED
  BY <1>4, <1>5, <1>6 DEF m

(* A certificate of the view a node is in. *)
LEMMA ViewCert ==
  ASSUME SafetyInv, NEW n \in Node, NEW qc, qc.view = view[n],
         Backed(msgs, "Prepare", qc.node, view[n])
  PROVE  /\ CertOK(msgs, qc)
         /\ qc.view \in prepareQC[n].view .. view[n] /\ qc.view \in lockedQC[n].view .. view[n]
BY NodeNumbers DEF CertOK, Certified

(* LeaderPrepare, LeaderPreCommit and LeaderCommit have what EndPhase has. *)
LEMMA EndPhaseFacts ==
  ASSUME SafetyInv, NEW n \in Node, NEW phase, NEW next, EndPhase(n, phase, next)
  PROVE  /\ Backed(msgs, phase, lead[n].prepare, view[n])
         /\ DOMAIN lead' = Node
         /\ \A k \in Node : DOMAIN lead'[k] = {"own", "prepare", "wanted", "sent"}
         /\ \A k \in Node \ {n} : lead'[k] = lead[k]
         /\ lead'[n].own = lead[n].own /\ lead'[n].wanted = lead[n].wanted
         /\ LET qc == QC(n, phase, lead[n].prepare)
            IN  qc.view = view[n] /\ qc.node = lead[n].prepare
<1>1. {m.from : m \in {m \in VotesTo(n, phase) : m.node = lead[n].prepare}}
        = VotesFor(msgs, n, phase, lead[n].prepare, view[n])
  BY DEF VotesTo, VotesFor
<1>2. Backed(msgs, phase, lead[n].prepare, view[n])
  BY <1>1 DEF EndPhase, Backed
<1>3. Domains /\ lead' = [lead EXCEPT ![n].sent = @ \cup {next}]
  BY DEF SafetyInv, EndPhase
<1>4. /\ DOMAIN lead' = Node
      /\ \A k \in Node \ {n} : lead'[k] = lead[k]
      /\ lead'[n] = [lead[n] EXCEPT !.sent = @ \cup {next}]
  BY <1>3 DEF Domains
<1>5. /\ DOMAIN lead'[n] = {"own", "prepare", "wanted", "sent"}
      /\ lead'[n].own = lead[n].own /\ lead'[n].wanted = lead[n].wanted
  BY <1>3, <1>4 DEF Domains
<1>6. \A k \in Node : DOMAIN lead'[k] = {"own", "prepare", "wanted", "sent"}
  BY <1>3, <1>4, <1>5 DEF Domains
<1> QED
  BY <1>2, <1>4, <1>5, <1>6 DEF QC


(* LeaderPrepare *)
LEMMA LeaderPrepareStep ==
  ASSUME SafetyInv, NEW n \in Node, LeaderPrepare(n)
  PROVE  StepOK
<1> DEFINE b == lead[n].prepare
           qc == QC(n, "Prepare", b)
           p == [type |-> "PreCommit", view |-> view[n], qc |-> qc]
           m == Vote(n, "PreCommit", b)
<1>1. /\ EndPhase(n, "Prepare", "PreCommit")
      /\ UNCHANGED <<view, base, lockedQC, chain, made>>
      /\ prepareQC' = [prepareQC EXCEPT ![n] = qc]
  BY DEF LeaderPrepare, bounds
<1>2. msgs' = msgs \cup {p, m}
  BY <1>1 DEF EndPhase
<1>3. /\ Backed(msgs, "Prepare", b, view[n]) /\ qc.view = view[n] /\ qc.node = b
      /\ lead'[n].own = lead[n].own /\ lead'[n].wanted = lead[n].wanted
      /\ \A k \in Node \ {n} : lead'[k] = lead[k]
  BY <1>1, EndPhaseFacts
<1>4. Domains'
  BY <1>1, EndPhaseFacts DEF SafetyInv, Domains
<1>5. prepareQC'[n] = qc /\ \A k \in Node \ {n} : Same(k)
  BY <1>1, <1>3 DEF SafetyInv, Domains, Same
<1>6. p.type = "PreCommit" /\ p.view = view[n] /\ p.qc = qc
  OBVIOUS
<1>7. /\ CertOK(msgs, lockedQC'[n]) /\ lockedQC'[n].view \in lockedQC[n].view .. view[n]
      /\ ChainOK(msgs, chain'[n]) /\ Len(chain'[n]) >= Len(chain[n])
  BY <1>1, NodeFacts
<1>8. m.type # "Prepare" /\ Grounded(msgs, m) /\ Proposed(msgs', m) /\ NewVote(m)
  <2> HIDE DEF b, qc, p
  <2> QED
    BY <1>1, <1>3, <1>5, LaterVote
<1> HIDE DEF b, qc, p, m
<1>9. p.type # "Prepare" /\ Grounded(msgs, p) /\ Proposed(msgs', p) /\ NewVote(p)
  BY <1>3, <1>6 DEF Grounded, Proposed, NewVote
<1>10. CertOK(msgs, qc) /\ qc.view \in prepareQC[n].view .. view[n]
  BY <1>3, ViewCert
<1>11. \A x \in msgs' \ msgs : /\ x.type # "Prepare"
                               /\ Grounded(msgs, x) /\ Proposed(msgs', x) /\ NewVote(x)
  BY <1>2, <1>8, <1>9
<1> QED
  BY <1>1, <1>2, <1>3, <1>4, <1>5, <1>7, <1>10, <1>11, ViewStep

(* LeaderPreCommit *)
LEMMA LeaderPreCommitStep ==
  ASSUME SafetyInv, NEW n \in Node, LeaderPreCommit(n)
  PROVE  StepOK
<1> DEFINE b == lead[n].prepare
           qc == QC(n, "PreCommit", b)
           p == [type |-> "Commit", view |-> view[n], qc |-> qc]
           m == Vote(n, "Commit", b)
<1>1. /\ EndPhase(n, "PreCommit", "Commit")
      /\ UNCHANGED <<view, base, prepareQC, chain, made>>
      /\ lockedQC' = [lockedQC EXCEPT ![n] = qc]
  BY DEF LeaderPreCommit, bounds
<1>2. msgs' = msgs \cup {p, m}
  BY <1>1 DEF EndPhase
<1>3. /\ Backed(msgs, "PreCommit", b, view[n]) /\ qc.view = view[n] /\ qc.node = b
      /\ lead'[n].own = lead[n].own /\ lead'[n].wanted = lead[n].wanted
      /\ \A k \in Node \ {n} : lead'[k] = lead[k]
  BY <1>1, EndPhaseFacts
<1>4. Domains'
  BY <1>1, EndPhaseFacts DEF SafetyInv, Domains
<1>5. lockedQC'[n] = qc /\ \A k \in Node \ {n} : Same(k)
  BY <1>1, <1>3 DEF SafetyInv, Domains, Same
<1>6. p.type = "Commit" /\ p.view = view[n] /\ p.qc = qc
  OBVIOUS
<1>7. /\ CertOK(msgs, prepareQC'[n]) /\ prepareQC'[n].view \in prepareQC[n].view .. view[n]
      /\ ChainOK(msgs, chain'[n]) /\ Len(chain'[n]) >= Len(chain[n])
  BY <1>1, NodeFacts
<1>8. m.type # "Prepare" /\ Grounded(msgs, m) /\ Proposed(msgs', m) /\ NewVote(m)
  <2> HIDE DEF b, qc, p
  <2> QED
    BY <1>1, <1>3, <1>5, LaterVote
<1> HIDE DEF b, qc, p, m
<1>9. p.type # "Prepare" /\ Grounded(msgs, p) /\ Proposed(msgs', p) /\ NewVote(p)
  BY <1>3, <1>6 DEF Grounded, Proposed, NewVote
<1>10. CertOK(msgs, qc) /\ qc.view \in lockedQC[n].view .. view[n]
  BY <1>3, ViewCert, BackedPhases DEF SafetyInv
<1>11. \A x \in msgs' \ msgs : /\ x.type # "Prepare"
                               /\ Grounded(msgs, x) /\ Proposed(msgs', x) /\ NewVote(x)
  BY <1>2, <1>8, <1>9
<1> QED
  BY <1>1, <1>2, <1>3, <1>4, <1>5, <1>7, <1>10, <1>11, ViewStep

(* A chain with one more decided block. *)
Decided(M, e, i) ==
  /\ e.block \in Known(M) /\ e.block.number = i /\ e.qc.node = e.block
  /\ e.qc.view \in Nat /\ Backed(M, "Commit", e.block, e.qc.view)

LEMMA AppendOK ==
  ASSUME NEW M, NEW c, ChainOK(M, c), NEW e, Decided(M, e, Len(c) + 1)
  PROVE  ChainOK(M, Append(c, e)) /\ Len(Append(c, e)) >= Len(c)
<1>1. PICK S : c \in Seq(S)
  BY DEF ChainOK
<1> DEFINE T == S \cup {e}
           d == Append(c, e)
<1>2. c \in Seq(T) /\ e \in T
  BY <1>1
<1>3. Len(c) \in Nat /\ d \in Seq(T) /\ Len(d) = Len(c) + 1
  BY <1>2
<1>4. \A i \in 1 .. Len(d) : Decided(M, d[i], i)
  <2> SUFFICES ASSUME NEW i \in 1 .. Len(d) PROVE Decided(M, d[i], i)
    OBVIOUS
  <2>1. CASE i = Len(c) + 1
    <3>1. d[i] = e
      BY <1>2, <1>3, <2>1
    <3> QED
      BY <2>1, <3>1
  <2>2. CASE i # Len(c) + 1
    <3>1. i \in 1 .. Len(c)
      BY <1>3, <2>2
    <3>2. d[i] = c[i]
      BY <1>2, <3>1
    <3> QED
      BY <3>1, <3>2 DEF ChainOK, Decided
  <2> QED
    BY <2>1, <2>2
<1> HIDE DEF d, T
<1>5. ChainOK(M, d) /\ Len(d) >= Len(c)
  BY <1>3, <1>4 DEF ChainOK, Decided
<1> QED
  BY <1>5 DEF d

(* The decision on a block appends it when it comes next (on_decide). *)
LEMMA DecideFacts ==
  ASSUME SafetyInv, NEW n \in Node, NEW b, NEW qc, Decide(n, b, qc),
         qc.node = b, qc.view = view[n], Backed(msgs, "Commit", b, view[n])
  PROVE  /\ DOMAIN chain' = Node
         /\ \A k \in Node \ {n} : chain'[k] = chain[k]
         /\ ChainOK(msgs, chain'[n]) /\ Len(chain'[n]) >= Len(chain[n])
<1> DEFINE e == [block |-> b, qc |-> qc]
<1>1. DOMAIN chain = Node /\ ChainOK(msgs, chain[n]) /\ Len(chain[n]) \in Nat
  BY TipFacts DEF SafetyInv, Domains
<1>2. CASE chain' = chain
  BY <1>1, <1>2
<1>3. CASE IsNext(n, b) /\ chain' = [chain EXCEPT ![n] = Append(@, e)]
  <2>1. b \in Known(msgs) /\ view[n] \in Nat
    BY BackedPhases, NodeNumbers DEF SafetyInv
  <2>2. b.number = Len(chain[n]) + 1
    BY <1>3, TipFacts DEF IsNext
  <2>3. e.block = b /\ e.qc = qc
    OBVIOUS
  <2> HIDE DEF e
  <2>4. Decided(msgs, e, Len(chain[n]) + 1)
    BY <2>1, <2>2, <2>3 DEF Decided
  <2>5. ChainOK(msgs, Append(chain[n], e)) /\ Len(Append(chain[n], e)) >= Len(chain[n])
    BY <1>1, <2>4, AppendOK
  <2> QED
    BY <1>1, <1>3, <2>5
<1> QED
  BY <1>2, <1>3 DEF Decide

(* LeaderCommit *)
LEMMA LeaderCommitStep ==
  ASSUME SafetyInv, NEW n \in Node, LeaderCommit(n)
  PROVE  StepOK
<1> DEFINE b == lead[n].prepare
           qc == QC(n, "Commit", b)
           p == [type |-> "Decide", view |-> view[n], qc |-> qc]
<1>1. /\ EndPhase(n, "Commit", "Decide") /\ Decide(n, b, qc)
      /\ UNCHANGED <<view, base, prepareQC, lockedQC, made>>
  BY DEF LeaderCommit, storage, bounds
<1>2. msgs' = msgs \cup {p}
  BY <1>1 DEF EndPhase
<1>3. /\ Backed(msgs, "Commit", b, view[n]) /\ qc.view = view[n] /\ qc.node = b
      /\ lead'[n].own = lead[n].own /\ lead'[n].wanted = lead[n].wanted
      /\ \A k \in Node \ {n} : lead'[k] = lead[k]
  BY <1>1, EndPhaseFacts
<1>4. p.type = "Decide" /\ p.view = view[n] /\ p.qc = qc
  OBVIOUS
<1> HIDE DEF b, qc, p
<1>5. /\ DOMAIN chain' = Node /\ \A k \in Node \ {n} : chain'[k] = chain[k]
      /\ ChainOK(msgs, chain'[n]) /\ Len(chain'[n]) >= Len(chain[n])
  BY <1>1, <1>3, DecideFacts
<1>6. Domains'
  BY <1>1, <1>5, EndPhaseFacts DEF SafetyInv, Domains
<1>7. \A k \in Node \ {n} : Same(k)
  BY <1>1, <1>3, <1>5 DEF Same
<1>8. p.type # "Prepare" /\ Grounded(msgs, p) /\ Proposed(msgs', p) /\ NewVote(p)
  BY <1>3, <1>4 DEF Grounded, Proposed, NewVote
<1>9. /\ CertOK(msgs, prepareQC'[n]) /\ prepareQC'[n].view \in prepareQC[n].view .. view[n]
      /\ CertOK(msgs, lockedQC'[n]) /\ lockedQC'[n].view \in lockedQC[n].view .. view[n]
  BY <1>1, NodeFacts
<1> QED
  BY <1>1, <1>2, <1>3, <1>5, <1>6, <1>7, <1>8, <1>9, ViewStep

(* A replica's vote for a proposal is safe: the proposal extends its lock or a
   later certificate (SafeNode). *)
LEMMA ReplicaVote ==
  ASSUME SafetyInv, NEW n \in Node, NEW p \in msgs, p.type = "Prepare", p.view = view[n],
         AsReplica(n), SafeNode(n, p.node, p.justify)
  PROVE  SafeVote(msgs, Vote(n, "Prepare", p.node))
<1> DEFINE m == Vote(n, "Prepare", p.node)
           b == p.node
<1>1. m.from = n /\ m.to # n /\ m.view = view[n] /\ m.node = b
  BY DEF Vote, AsReplica
<1>2. CertOK(msgs, p.justify) /\ CertOK(msgs, lockedQC[n]) /\ b \in Known(msgs)
  BY NodeFacts DEF SafetyInv, MsgsOK, Grounded, Known
<1>3. base[n].node \in Known(msgs) /\ KnownOK(msgs, made) /\ MsgsOK(msgs)
  BY DEF SafetyInv, NodeOK
<1>4. ASSUME NEW x \in Earlier(msgs, m, "Commit") PROVE Follows(msgs, b, x.view)
  <2>1. x \in msgs /\ x.type = "Vote" /\ x.phase = "Commit" /\ x.from = n
    BY <1>1 DEF Earlier
  <2>2. VoteAt(x, view, prepareQC, lockedQC, lead) /\ x.view \in Nat
    BY <2>1 DEF SafetyInv, MsgsOK, Grounded
  <2>3. lockedQC[n].view >= x.view
    BY <2>1, <2>2 DEF VoteAt
  <2>4. PICK q : CertOK(msgs, q) /\ q.view >= lockedQC[n].view /\ Extends(n, b, q)
    <3>1. lockedQC[n].view \in Nat /\ p.justify.view \in Nat
      BY <1>2 DEF CertOK
    <3> QED
      BY <1>2, <3>1 DEF SafeNode
  <2>5. q.view \in Nat /\ Certified(msgs, q.node, q.view) /\ q.view >= x.view
    BY <1>2, <2>2, <2>3, <2>4 DEF CertOK
  <2>6. q.node \in Known(msgs)
    BY <1>3, <2>5, CertifiedKnown
  <2>7. b = q.node \/ b.number = q.node.number + 1
    BY <1>2, <1>3, <2>4, <2>6 DEF Extends, KnownOK
  <2>8. q.node.number \in Nat
    BY <1>3, <2>6 DEF KnownOK
  <2> QED
    BY <2>5, <2>6, <2>7, <2>8 DEF Follows
<1> HIDE DEF m
<1>5. SafeVote(msgs, m)
  BY <1>1, <1>4 DEF SafeVote
<1> QED
  BY <1>5 DEF m

(* OnPrepare *)
LEMMA PrepareStep ==
  ASSUME SafetyInv, NEW n \in Node, NEW p \in msgs, NEW verified, OnPrepare(n, p, verified)
  PROVE  StepOK
<1> DEFINE m == Vote(n, "Prepare", p.node)
<1>1. /\ p.type = "Prepare"
      /\ UNCHANGED <<view, base, prepareQC, lockedQC, chain, made, lead>>
      /\ \/ msgs' = msgs
         \/ /\ msgs' = msgs \cup {m}
            /\ AsReplica(n) /\ p.view = view[n] /\ SafeNode(n, p.node, p.justify)
  BY DEF OnPrepare, bounds
<1>2. /\ m.type = "Vote" /\ m.phase = "Prepare" /\ m.from = n /\ m.view = view[n]
      /\ m.node = p.node
  BY DEF Vote
<1>3. view[n] \in Nat \ {0} /\ view'[n] = view[n]
  BY <1>1, NodeNumbers
<1>4. AsReplica(n) /\ p.view = view[n] /\ SafeNode(n, p.node, p.justify) => SafeVote(msgs, m)
  BY <1>1, ReplicaVote
<1> HIDE DEF m
<1>5. \A x \in msgs' \ msgs : /\ x.type # "Prepare"
                              /\ Grounded(msgs, x) /\ Proposed(msgs', x) /\ NewVote(x)
  <2> SUFFICES ASSUME m \in msgs' \ msgs, SafeVote(msgs, m), p.view = view[n]
               PROVE  Grounded(msgs, m) /\ Proposed(msgs', m) /\ NewVote(m)
    BY <1>1, <1>2, <1>4
  <2>1. Grounded(msgs, m)
    BY <1>2, <1>3 DEF Grounded
  <2>2. Proposed(msgs', m)
    BY <1>1, <1>2 DEF Proposed
  <2>3. NewVote(m)
    BY <1>2, <1>3 DEF NewVote
  <2> QED
    BY <2>1, <2>2, <2>3
<1> QED
  BY <1>1, <1>5, SendStep

(* OnPreCommit *)
LEMMA PreCommitStep ==
  ASSUME SafetyInv, NEW n \in Node, NEW p \in msgs, OnPreCommit(n, p)
  PROVE  StepOK
<1> DEFINE m == Vote(n, "PreCommit", p.qc.node)
<1>1. /\ p.type = "PreCommit" /\ p.view = view[n]
      /\ prepareQC' = [prepareQC EXCEPT ![n] = p.qc] /\ msgs' = msgs \cup {m}
      /\ UNCHANGED <<view, base, lockedQC, chain, made, lead>>
  BY DEF OnPreCommit, bounds
<1>2. p.qc.view = view[n] /\ Backed(msgs, "Prepare", p.qc.node, view[n])
  BY <1>1 DEF SafetyInv, MsgsOK, Grounded
<1>3. Domains' /\ prepareQC'[n] = p.qc /\ \A k \in Node \ {n} : Same(k)
  BY <1>1 DEF SafetyInv, Domains, Same
<1>4. m.type # "Prepare" /\ Grounded(msgs, m) /\ Proposed(msgs', m) /\ NewVote(m)
  BY <1>1, <1>2, <1>3, LaterVote
<1>5. CertOK(msgs, p.qc) /\ p.qc.view \in prepareQC[n].view .. view[n]
  BY <1>2, ViewCert
<1>6. /\ CertOK(msgs, lockedQC'[n]) /\ lockedQC'[n].view \in lockedQC[n].view .. view[n]
      /\ ChainOK(msgs, chain'[n]) /\ Len(chain'[n]) >= Len(chain[n])
  BY <1>1, NodeFacts
<1> HIDE DEF m
<1> QED
  BY <1>1, <1>3, <1>4, <1>5, <1>6, ViewStep

(* OnCommit *)
LEMMA CommitStep ==
  ASSUME SafetyInv, NEW n \in Node, NEW p \in msgs, OnCommit(n, p)
  PROVE  StepOK
<1> DEFINE m == Vote(n, "Commit", p.qc.node)
<1>1. /\ p.type = "Commit" /\ p.view = view[n]
      /\ lockedQC' = [lockedQC EXCEPT ![n] = p.qc] /\ msgs' = msgs \cup {m}
      /\ UNCHANGED <<view, base, prepareQC, chain, made, lead>>
  BY DEF OnCommit, bounds
<1>2. p.qc.view = view[n] /\ Backed(msgs, "PreCommit", p.qc.node, view[n])
  BY <1>1 DEF SafetyInv, MsgsOK, Grounded
<1>3. Domains' /\ lockedQC'[n] = p.qc /\ \A k \in Node \ {n} : Same(k)
  BY <1>1 DEF SafetyInv, Domains, Same
<1>4. m.type # "Prepare" /\ Grounded(msgs, m) /\ Proposed(msgs', m) /\ NewVote(m)
  BY <1>1, <1>2, <1>3, LaterVote
<1>5. CertOK(msgs, p.qc) /\ p.qc.view \in lockedQC[n].view .. view[n]
  BY <1>2, ViewCert, BackedPhases DEF SafetyInv
<1>6. /\ CertOK(msgs, prepareQC'[n]) /\ prepareQC'[n].view \in prepareQC[n].view .. view[n]
      /\ ChainOK(msgs, chain'[n]) /\ Len(chain'[n]) >= Len(chain[n])
  BY <1>1, NodeFacts
<1> HIDE DEF m
<1> QED
  BY <1>1, <1>3, <1>4, <1>5, <1>6, ViewStep

(* A chain that grows, by a decision or from another node. *)
LEMMA GrowStep ==
  ASSUME SafetyInv, NEW n \in Node,
         UNCHANGED <<view, base, prepareQC, lockedQC, made, lead, msgs>>,
         DOMAIN chain' = Node, \A k \in Node \ {n} : chain'[k] = chain[k],
         ChainOK(msgs, chain'[n]), Len(chain'[n]) >= Len(chain[n])
  PROVE  StepOK
<1>1. Domains' /\ \A k \in Node \ {n} : Same(k)
  BY DEF SafetyInv, Domains, Same
<1>2. /\ CertOK(msgs, prepareQC'[n]) /\ prepareQC'[n].view \in prepareQC[n].view .. view[n]
      /\ CertOK(msgs, lockedQC'[n]) /\ lockedQC'[n].view \in lockedQC[n].view .. view[n]
  BY NodeFacts
<1> QED
  BY <1>1, <1>2, ViewStep

(* OnDecide *)
LEMMA DecideStep ==
  ASSUME SafetyInv, NEW n \in Node, NEW p \in msgs, OnDecide(n, p)
  PROVE  StepOK
<1>1. /\ p.type = "Decide" /\ p.view = view[n] /\ Decide(n, p.qc.node, p.qc)
      /\ UNCHANGED <<view, base, prepareQC, lockedQC, made, lead, msgs>>
  BY DEF OnDecide, storage, bounds
<1>2. p.qc.view = view[n] /\ Backed(msgs, "Commit", p.qc.node, view[n])
  BY <1>1 DEF SafetyInv, MsgsOK, Grounded
<1> QED
  BY <1>1, <1>2, DecideFacts, GrowStep

(* Sync *)
LEMMA SyncStep ==
  ASSUME SafetyInv, NEW n \in Node, NEW k \in Node, Sync(n, k)
  PROVE  StepOK
<1> DEFINE e == chain[k][Len(chain[n]) + 1]
<1>1. /\ Len(chain[k]) > Len(chain[n]) /\ IsNext(n, e.block)
      /\ chain' = [chain EXCEPT ![n] = Append(chain[n], e)]
      /\ UNCHANGED <<view, base, prepareQC, lockedQC, made, lead, msgs>>
  BY DEF Sync, storage, bounds, SafetyInv, Domains
<1>2. Len(chain[n]) + 1 \in 1 .. Len(chain[k]) /\ Len(chain[n]) \in Nat
  BY <1>1, TipFacts
<1>3. Decided(msgs, e, Len(chain[n]) + 1) /\ ChainOK(msgs, chain[n])
  BY <1>2 DEF SafetyInv, ChainOK, Decided
<1> HIDE DEF e
<1>4. ChainOK(msgs, Append(chain[n], e)) /\ Len(Append(chain[n], e)) >= Len(chain[n])
  BY <1>3, AppendOK
<1>5. /\ DOMAIN chain' = Node /\ chain'[n] = Append(chain[n], e)
      /\ \A j \in Node \ {n} : chain'[j] = chain[j]
  BY <1>1 DEF SafetyInv, Domains
<1> QED
  BY <1>1, <1>4, <1>5, GrowStep

(* The beginning of a view, after which the node's own NewView is that of its
   prepared certificate (run_view). *)
LEMMA RunViewStep ==
  ASSUME SafetyInv, NEW n \in Node, NEW sent,
         \A m \in sent : m.type = "TimeoutDecide" /\ m.view \in Nat,
         RunView(n, sent), UNCHANGED <<chain, made>>,
         view' \in [Node -> Nat], DOMAIN base' = Node, DOMAIN prepareQC' = Node, DOMAIN lockedQC' = Node,
         \A k \in Node \ {n} : /\ view'[k] = view[k] /\ base'[k] = base[k]
                               /\ prepareQC'[k] = prepareQC[k] /\ lockedQC'[k] = lockedQC[k],
         view'[n] >= view[n],
         CertOK(msgs, prepareQC'[n]), prepareQC'[n].view \in prepareQC[n].view .. view'[n],
         CertOK(msgs, lockedQC'[n]), lockedQC'[n].view \in lockedQC[n].view .. view'[n],
         base'[n].node \in Known(msgs), base'[n].node.number <= Len(chain[n])
  PROVE  StepOK
<1> DEFINE m == NewViewOf(n)'
<1>1. m.type = "NewView" /\ m.from = n /\ m.qc = prepareQC'[n]
  BY DEF NewViewOf
<1>2. msgs' = msgs \cup sent \cup {x \in {m} : x.to # n}
  BY DEF RunView, SentNewView
<1> HIDE DEF m
<1>3. \A x \in msgs' \ msgs : /\ x.type # "Prepare"
                              /\ Grounded(msgs, x) /\ Proposed(msgs', x) /\ NewVote(x)
  <2> SUFFICES ASSUME NEW x \in msgs' \ msgs
               PROVE  /\ x.type # "Prepare"
                      /\ Grounded(msgs, x) /\ Proposed(msgs', x) /\ NewVote(x)
    OBVIOUS
  <2>1. CASE x \in sent
    <3>1. x.type = "TimeoutDecide" /\ x.view \in Nat
      BY <2>1
    <3> QED
      BY <3>1 DEF Grounded, Proposed, NewVote
  <2>2. CASE x = m /\ m.to # n
    BY <1>1, <2>2 DEF Grounded, Proposed, NewVote
  <2> QED
    BY <1>2, <2>1, <2>2
<1>4. msgs \subseteq msgs'
  BY <1>2
<1>5. KnownOK(msgs', made')
  BY <1>3, <1>4, KnownSame DEF SafetyInv
<1>6. Domains /\ lead' = [lead EXCEPT ![n] = NewLead(prepareQC'[n])]
  BY DEF SafetyInv, RunView
<1>7. /\ DOMAIN lead' = Node /\ lead'[n] = NewLead(prepareQC'[n])
      /\ \A k \in Node \ {n} : lead'[k] = lead[k]
  BY <1>6 DEF Domains
<1>8. /\ DOMAIN lead'[n] = {"own", "prepare", "wanted", "sent"}
      /\ lead'[n].own = prepareQC'[n] /\ lead'[n].wanted = None
  BY <1>7 DEF NewLead
<1>9. Domains'
  BY <1>6, <1>7, <1>8 DEF Domains
<1>10. \A k \in Node \ {n} : Same(k)
  BY <1>7 DEF Same
<1>11. /\ view'[n] \in Nat \ {0} /\ view[n] \in Nat
       /\ prepareQC[n].view \in Nat /\ lockedQC[n].view \in Nat
  BY NodeNumbers
<1>12. NodeOK(msgs, n, view'[n], prepareQC'[n], lockedQC'[n], base'[n], lead'[n], Len(chain'[n]))
  BY <1>8, <1>11 DEF NodeOK
<1>13. ChainOK(msgs, chain'[n])
  BY DEF SafetyInv
<1>14. NodeStep(n)
  BY <1>8, <1>11, <1>12, <1>13 DEF NodeStep
<1> QED
  BY <1>3, <1>4, <1>5, <1>9, <1>10, <1>14, ActorStep

(* AdvanceView *)
LEMMA AdvanceStep ==
  ASSUME SafetyInv, NEW n \in Node, NEW v \in Nat, v >= view[n], NEW sent,
         \A m \in sent : m.type = "TimeoutDecide" /\ m.view \in Nat,
         AdvanceView(n, v, sent)
  PROVE  StepOK
<1>1. /\ view' = [view EXCEPT ![n] = v + 1] /\ RunView(n, sent)
      /\ UNCHANGED <<base, prepareQC, lockedQC, chain, made>>
  BY DEF AdvanceView, storage, bounds
<1>2. Domains /\ view \in [Node -> Nat]
  BY DEF SafetyInv, Domains
<1>3. /\ view' \in [Node -> Nat] /\ view'[n] = v + 1 /\ view'[n] >= view[n]
      /\ \A k \in Node \ {n} : view'[k] = view[k]
  BY <1>1, <1>2
<1>4. /\ CertOK(msgs, prepareQC'[n]) /\ CertOK(msgs, lockedQC'[n])
      /\ base'[n].node \in Known(msgs) /\ base'[n].node.number <= Len(chain[n])
  BY <1>1 DEF SafetyInv, NodeOK
<1>5. /\ prepareQC'[n].view \in prepareQC[n].view .. view'[n]
      /\ lockedQC'[n].view \in lockedQC[n].view .. view'[n]
  BY <1>1, <1>3, NodeNumbers
<1>6. DOMAIN base' = Node /\ DOMAIN prepareQC' = Node /\ DOMAIN lockedQC' = Node
  BY <1>1, <1>2 DEF Domains
<1> QED
  BY <1>1, <1>3, <1>4, <1>5, <1>6, RunViewStep

(* OnTimeoutQuorum *)
LEMMA TimeoutQuorumStep ==
  ASSUME SafetyInv, NEW n \in Node, NEW v \in Nat, OnTimeoutQuorum(n, v)
  PROVE  StepOK
<1> DEFINE t == [type |-> "TimeoutDecide", view |-> v]
<1>1. v >= view[n] /\ AdvanceView(n, v, {t})
  BY DEF OnTimeoutQuorum, InTime
<1>2. t.type = "TimeoutDecide" /\ t.view = v
  OBVIOUS
<1> HIDE DEF t
<1> QED
  BY <1>1, <1>2, AdvanceStep

(* OnTimeoutDecide *)
LEMMA TimeoutDecideStep ==
  ASSUME SafetyInv, NEW n \in Node, NEW m \in msgs, OnTimeoutDecide(n, m)
  PROVE  StepOK
<1>1. m.view \in Nat
  BY DEF OnTimeoutDecide, SafetyInv, MsgsOK, Grounded
<1>2. m.view >= view[n] /\ AdvanceView(n, m.view, {})
  BY DEF OnTimeoutDecide, InTime
<1> QED
  BY <1>1, <1>2, AdvanceStep

LEMMA MaxOfTwo ==
  ASSUME NEW a \in Nat, NEW b \in Nat
  PROVE  Max({a, b}) \in Nat /\ Max({a, b}) >= a /\ Max({a, b}) >= b
<1>1. \E x \in {a, b} : \A y \in {a, b} : x >= y
  OBVIOUS
<1>2. Max({a, b}) \in {a, b} /\ \A y \in {a, b} : Max({a, b}) >= y
  BY <1>1 DEF Max
<1> QED
  BY <1>2

(* What refresh leaves a node with. *)
LEMMA RefreshFacts ==
  ASSUME SafetyInv, NEW n \in Node, Refresh(n)
  PROVE  /\ view' \in [Node -> Nat]
         /\ DOMAIN base' = Node /\ DOMAIN prepareQC' = Node /\ DOMAIN lockedQC' = Node
         /\ \A k \in Node \ {n} : /\ view'[k] = view[k] /\ base'[k] = base[k]
                                  /\ prepareQC'[k] = prepareQC[k] /\ lockedQC'[k] = lockedQC[k]
         /\ view'[n] >= view[n]
         /\ CertOK(msgs, prepareQC'[n]) /\ prepareQC'[n].view \in prepareQC[n].view .. view'[n]
         /\ CertOK(msgs, lockedQC'[n]) /\ lockedQC'[n].view \in lockedQC[n].view .. view'[n]
         /\ base'[n].node \in Known(msgs) /\ base'[n].node.number <= Len(chain[n])
<1> DEFINE q == BaseOf(n)
<1>1. Domains /\ view \in [Node -> Nat]
  BY DEF SafetyInv, Domains
<1>2. CertOK(msgs, q) /\ q.node \in Known(msgs) /\ q.node.number = Len(chain[n]) /\ Len(chain[n]) \in Nat
  BY TipFacts
<1>3. q.view \in Nat /\ view[n] \in Nat
  BY <1>2, NodeNumbers DEF CertOK
<1>4. /\ view' = [view EXCEPT ![n] = Max({view[n], q.view + 1})]
      /\ base' = [base EXCEPT ![n] = q]
      /\ prepareQC' = [prepareQC EXCEPT ![n] = RefreshedQC(n, prepareQC[n])]
      /\ lockedQC' = [lockedQC EXCEPT ![n] = RefreshedQC(n, lockedQC[n])]
  BY <1>1 DEF Refresh, Domains
<1> HIDE DEF q
<1>5. /\ Max({view[n], q.view + 1}) \in Nat
      /\ Max({view[n], q.view + 1}) >= view[n] /\ Max({view[n], q.view + 1}) >= q.view + 1
  BY <1>3, MaxOfTwo
<1>6. /\ view' \in [Node -> Nat] /\ view'[n] = Max({view[n], q.view + 1})
      /\ \A k \in Node \ {n} : view'[k] = view[k]
  BY <1>1, <1>4, <1>5
<1>7. /\ DOMAIN base' = Node /\ DOMAIN prepareQC' = Node /\ DOMAIN lockedQC' = Node
      /\ \A k \in Node \ {n} : /\ base'[k] = base[k]
                               /\ prepareQC'[k] = prepareQC[k] /\ lockedQC'[k] = lockedQC[k]
      /\ base'[n] = q /\ prepareQC'[n] = RefreshedQC(n, prepareQC[n])
      /\ lockedQC'[n] = RefreshedQC(n, lockedQC[n])
  BY <1>1, <1>4 DEF Domains
<1>8. ASSUME NEW qc, CertOK(msgs, qc), qc.view <= view[n]
      PROVE  /\ CertOK(msgs, RefreshedQC(n, qc))
             /\ RefreshedQC(n, qc).view \in qc.view .. view'[n]
  <2>1. qc.view \in Nat
    BY <1>8 DEF CertOK
  <2>2. RefreshedQC(n, qc) = IF qc.view <= q.view THEN q ELSE qc
    BY DEF RefreshedQC, q
  <2> QED
    BY <1>2, <1>3, <1>5, <1>6, <1>8, <2>1, <2>2
<1>9. /\ CertOK(msgs, prepareQC[n]) /\ prepareQC[n].view <= view[n]
      /\ CertOK(msgs, lockedQC[n]) /\ lockedQC[n].view <= view[n]
  BY DEF SafetyInv, NodeOK
<1>10. CertOK(msgs, prepareQC'[n]) /\ prepareQC'[n].view \in prepareQC[n].view .. view'[n]
  BY <1>7, <1>8, <1>9
<1>11. CertOK(msgs, lockedQC'[n]) /\ lockedQC'[n].view \in lockedQC[n].view .. view'[n]
  BY <1>7, <1>8, <1>9
<1>12. view'[n] >= view[n] /\ base'[n].node \in Known(msgs) /\ base'[n].node.number <= Len(chain[n])
  BY <1>2, <1>5, <1>6, <1>7
<1> QED
  BY <1>6, <1>7, <1>10, <1>11, <1>12

(* OnBlockCommitted and Restart *)
LEMMA RefreshStep ==
  ASSUME SafetyInv, NEW n \in Node, OnBlockCommitted(n) \/ Restart(n)
  PROVE  StepOK
<1>1. Refresh(n) /\ UNCHANGED <<chain, made>>
  BY DEF OnBlockCommitted, Restart, bounds
<1>2. CASE RunView(n, {})
  BY <1>1, <1>2, RefreshFacts, RunViewStep
<1>3. CASE view'[n] = view[n] /\ msgs' = msgs /\ lead' = lead
  <2>1. Domains'
    BY <1>1, <1>3, RefreshFacts DEF SafetyInv, Domains
  <2>2. \A k \in Node \ {n} : Same(k)
    BY <1>1, <1>3, RefreshFacts DEF Same
  <2>3. NodeOK(msgs, n, view'[n], prepareQC'[n], lockedQC'[n], base'[n], lead'[n], Len(chain'[n]))
    <3>1. /\ view[n] \in Nat \ {0} /\ prepareQC[n].view \in Nat /\ lockedQC[n].view \in Nat
      BY NodeNumbers
    <3>2. /\ CertOK(msgs, lead'[n].own)
          /\ lead'[n].wanted # None =>
               /\ CertOK(msgs, lead'[n].wanted)
               /\ Quorum(Node \ {n}) \/ lead'[n].wanted.view >= lead'[n].own.view
      BY <1>3 DEF SafetyInv, NodeOK
    <3> QED
      BY <1>1, <1>3, <3>1, <3>2, RefreshFacts DEF NodeOK
  <2>4. ChainOK(msgs, chain'[n]) /\ KnownOK(msgs', made')
    BY <1>1, <1>3 DEF SafetyInv
  <2>5. NodeStep(n)
    BY <1>1, <1>3, <2>3, <2>4, NodeNumbers, RefreshFacts DEF NodeStep
  <2> QED
    BY <1>3, <2>1, <2>2, <2>4, <2>5, ActorStep
<1> QED
  BY <1>2, <1>3 DEF OnBlockCommitted, Restart, Continue

-----------------------------------------------------------------------------
(* The theorems. *)

(* The nodes begin on the genesis block, with their first NewView messages. *)
LEMMA InitSafe == Init => SafetyInv
<1> SUFFICES ASSUME Init PROVE SafetyInv
  OBVIOUS
<1>1. \A m \in msgs : /\ m.type = "NewView" /\ m.from \in Node /\ m.from # m.to
                      /\ m.qc = GenesisQC
  <2> SUFFICES ASSUME NEW n \in Node, NEW m \in SentNewView(n)
               PROVE  /\ m.type = "NewView" /\ m.from \in Node /\ m.from # m.to
                      /\ m.qc = GenesisQC
    BY DEF Init
  <2>1. m = NewViewOf(n) /\ m.to # n
    BY DEF SentNewView
  <2>2. m.type = "NewView" /\ m.from = n /\ m.qc = prepareQC[n]
    BY <2>1 DEF NewViewOf
  <2>3. prepareQC[n] = GenesisQC
    BY DEF Init
  <2> QED
    BY <2>1, <2>2, <2>3
<1>2. GenesisQC.view = 0 /\ GenesisQC.node = GenesisBlock
  BY DEF GenesisQC
<1>3. GenesisBlock.number = 0 /\ GenesisBlock.id = 0 /\ GenesisBlock.parent = -1
  BY DEF GenesisBlock
<1>4. CertOK(msgs, GenesisQC)
  BY <1>2 DEF CertOK, Certified
<1>5. Known(msgs) = {GenesisBlock}
  BY <1>1 DEF Known
<1>6. KnownOK(msgs, made)
  <2>1. made = 0
    BY DEF Init
  <2> QED
    BY <1>3, <1>5, <2>1 DEF KnownOK
<1>7. MsgsOK(msgs)
  BY <1>1, <1>4 DEF MsgsOK, Grounded, Proposed
<1>8. \A m \in msgs : VoteAt(m, view, prepareQC, lockedQC, lead)
  BY <1>1 DEF VoteAt
<1>9. Domains
  <2>1. \A n \in Node : lead[n] = NewLead(GenesisQC)
    BY DEF Init
  <2>2. DOMAIN NewLead(GenesisQC) = {"own", "prepare", "wanted", "sent"}
    BY DEF NewLead
  <2> QED
    BY <2>1, <2>2 DEF Domains, Init
<1>10. ASSUME NEW n \in Node
       PROVE  /\ NodeOK(msgs, n, view[n], prepareQC[n], lockedQC[n], base[n], lead[n], Len(chain[n]))
              /\ ChainOK(msgs, chain[n])
  <2>1. /\ view[n] = 1 /\ prepareQC[n] = GenesisQC /\ lockedQC[n] = GenesisQC
        /\ base[n] = GenesisQC /\ lead[n] = NewLead(GenesisQC) /\ chain[n] = << >>
    BY DEF Init
  <2>2. lead[n].own = GenesisQC /\ lead[n].wanted = None
    BY <2>1 DEF NewLead
  <2>3. Len(chain[n]) = 0 /\ chain[n] \in Seq({})
    BY <2>1
  <2>4. ChainOK(msgs, chain[n])
    BY <2>3 DEF ChainOK
  <2> QED
    BY <1>2, <1>3, <1>4, <1>5, <2>1, <2>2, <2>3, <2>4 DEF NodeOK
<1>11. CommitsLast(msgs, view)
  <2>1. \A b, v : ~ Backed(msgs, "Prepare", b, v)
    BY <1>1, BackedVote
  <2> QED
    BY <2>1 DEF CommitsLast
<1> QED
  BY <1>6, <1>7, <1>8, <1>9, <1>10, <1>11 DEF SafetyInv

(* Every handler's step is one of those. *)
LEMMA NextStep ==
  ASSUME SafetyInv, Next
  PROVE  StepOK
<1>1. PICK n \in Node :
         \/ \E high \in HighQCs(n) : CreateProposal(n, high)
         \/ \E high \in HighQCs(n) : ReuseProposal(n, high)
         \/ \E verified \in BOOLEAN : OnRemoteProposal(n, verified)
         \/ UnexpectedVote(n) \/ OnTimeout(n)
         \/ LeaderPrepare(n)
         \/ LeaderPreCommit(n)
         \/ LeaderCommit(n)
         \/ \E v \in 1 .. MaxView : OnTimeoutQuorum(n, v)
         \/ OnBlockCommitted(n) \/ Restart(n)
         \/ \E m \in Node \ {n} : Sync(n, m)
         \/ \E m \in msgs :
              \/ \E verified \in BOOLEAN : OnPrepare(n, m, verified)
              \/ OnPreCommit(n, m)
              \/ OnCommit(n, m)
              \/ OnDecide(n, m)
              \/ OnTimeoutDecide(n, m)
  BY DEF Next
<1>2. 1 .. MaxView \subseteq Nat
  OBVIOUS
<1>3. CASE \/ \E high \in HighQCs(n) : CreateProposal(n, high)
           \/ \E high \in HighQCs(n) : ReuseProposal(n, high)
           \/ \E verified \in BOOLEAN : OnRemoteProposal(n, verified)
  BY <1>3, CreateStep, ReuseStep, RemoteStep
<1>4. CASE UnexpectedVote(n) \/ OnTimeout(n)
  BY <1>4, QuietStep
<1>5. CASE LeaderPrepare(n) \/ LeaderPreCommit(n) \/ LeaderCommit(n)
  BY <1>5, LeaderPrepareStep, LeaderPreCommitStep, LeaderCommitStep
<1>6. CASE \E v \in 1 .. MaxView : OnTimeoutQuorum(n, v)
  BY <1>2, <1>6, TimeoutQuorumStep
<1>7. CASE OnBlockCommitted(n) \/ Restart(n)
  BY <1>7, RefreshStep
<1>8. CASE \E m \in Node \ {n} : Sync(n, m)
  BY <1>8, SyncStep
<1>9. CASE \E m \in msgs :
              \/ \E verified \in BOOLEAN : OnPrepare(n, m, verified)
              \/ OnPreCommit(n, m)
              \/ OnCommit(n, m)
              \/ OnDecide(n, m)
              \/ OnTimeoutDecide(n, m)
  BY <1>9, PrepareStep, PreCommitStep, CommitStep, DecideStep, TimeoutDecideStep
<1> QED
  BY <1>1, <1>3, <1>4, <1>5, <1>6, <1>7, <1>8, <1>9

LEMMA StutterStep ==
  ASSUME SafetyInv, UNCHANGED vars
  PROVE  StepOK
<1>1. UNCHANGED <<view, base, prepareQC, lockedQC, chain, made, lead, msgs>>
  BY DEF vars, storage, bounds
<1>2. \A k \in Node : Same(k)
  BY <1>1 DEF Same
<1>3. Domains' /\ KnownOK(msgs', made')
  BY <1>1 DEF SafetyInv, Domains
<1> QED
  BY <1>1, <1>2, <1>3, SameStep DEF StepOK

(* The messages sent, the certificates held and the chains agree, in the sense
   of SafetyInv, after any steps of any validators: late NewView, vote, timeout
   and decision messages, blocks synchronised, views left and restarts
   (LeaderState and ReplicaState of stream/state.rs). *)
THEOREM SafetyKept == Spec => []SafetyInv
<1>1. SafetyInv /\ [Next]_vars => SafetyInv'
  BY NextStep, StutterStep, StepKeeps
<1> QED
  BY <1>1, InitSafe, PTL DEF Spec

(* The commit of a block of one height settles that height, when no view has two
   proposals. *)
LEMMA OneBlock ==
  ASSUME SafetyInv, OneProposal(msgs), NEW b, NEW c, NEW v \in Nat, NEW w \in Nat, v <= w,
         Backed(msgs, "Commit", b, v), Backed(msgs, "Commit", c, w), b.number = c.number
  PROVE  b = c
<1>1. MsgsOK(msgs) /\ KnownOK(msgs, made) /\ CommitsLast(msgs, view)
  BY DEF SafetyInv
<1>2. /\ Backed(msgs, "Prepare", b, v) /\ Backed(msgs, "Prepare", c, w)
      /\ b \in Known(msgs) /\ c \in Known(msgs)
  BY <1>1, BackedPhases
<1>3. Quorum(MayCommit(msgs, view, b, v))
  <2>1. PICK n \in Node : Quorum(VotesFor(msgs, n, "Commit", b, v))
    BY DEF Backed
  <2>2. VotesFor(msgs, n, "Commit", b, v) \subseteq MayCommit(msgs, view, b, v)
    BY <1>1 DEF VotesFor, MayCommit, MsgsOK, Grounded
  <2>3. MayCommit(msgs, view, b, v) \in SUBSET Node
    BY DEF MayCommit
  <2> QED
    BY <2>1, <2>2, <2>3, Quorums
<1>4. c = b \/ c.number > b.number
  BY <1>1, <1>2, <1>3 DEF CommitsLast
<1> QED
  BY <1>1, <1>2, <1>4 DEF KnownOK

(* No fork (Agreement), for any validators and weights, as long as no view has
   two proposed blocks: the stale NewView messages that a leader counts
   (process_pending_new_view), its votes without the safe-node check, lost
   decisions, timeouts and restarts of replicas cannot make two nodes commit
   different blocks (on_new_view, on_prepare, on_decide).  A second proposal in
   a view takes the restart of its leader in the middle of it. *)
THEOREM AgreementHolds == Spec => [](OneProposal(msgs) => Agreement)
<1>1. SafetyInv /\ OneProposal(msgs) => Agreement
  <2> SUFFICES ASSUME SafetyInv, OneProposal(msgs), NEW n \in Node, NEW m \in Node,
                      NEW i \in 1 .. Len(chain[n]), i <= Len(chain[m])
               PROVE  chain[n][i].block = chain[m][i].block
    BY DEF Agreement
  <2>1. Len(chain[n]) \in Nat /\ Len(chain[m]) \in Nat
    BY TipFacts
  <2>2. i \in Nat /\ i \in 1 .. Len(chain[m])
    BY <2>1
  <2> DEFINE b == chain[n][i].block
             c == chain[m][i].block
             v == chain[n][i].qc.view
             w == chain[m][i].qc.view
  <2>3. /\ v \in Nat /\ Backed(msgs, "Commit", b, v) /\ b.number = i
        /\ w \in Nat /\ Backed(msgs, "Commit", c, w) /\ c.number = i
    BY <2>2 DEF SafetyInv, ChainOK
  <2> HIDE DEF b, c, v, w
  <2>4. v <= w \/ w <= v
    BY <2>3
  <2>5. b = c
    BY <2>3, <2>4, OneBlock
  <2> QED
    BY <2>5 DEF b, c
<1> QED
  BY <1>1, SafetyKept, PTL

(* Views and the views of the certificates only grow (ViewsGrow), whatever late
   timeout messages, decisions and synchronised blocks a node takes, and over
   any number of restarts (advance_view, update_locked_qc, Storage::refresh). *)
THEOREM ViewsNeverShrink == Spec => ViewsGrow
<1>1. SafetyInv /\ [Next]_vars =>
        [\A n \in Node : /\ view'[n] >= view[n]
                         /\ prepareQC'[n].view >= prepareQC[n].view
                         /\ lockedQC'[n].view >= lockedQC[n].view]_vars
  BY NextStep DEF StepOK, NodeStep
<1> QED
  BY <1>1, SafetyKept, PTL DEF Spec, ViewsGrow

-----------------------------------------------------------------------------
(* One leader for a view, and one proposal of it as long as nobody restarts. *)

LEMMA ModShift ==
  ASSUME NEW L \in Nat \ {0}, NEW a \in Nat, NEW v \in Nat
  PROVE  ((a % L) + v - a) % L = v % L
<1> DEFINE c == (a % L) + v - a
           x == a \div L
           y == v \div L
           z == c \div L
<1>1. a % L \in 0 .. L - 1 /\ x \in Int /\ a = L * x + (a % L)
  BY ModFacts
<1>2. v % L \in 0 .. L - 1 /\ y \in Int /\ v = L * y + (v % L)
  BY ModFacts
<1>3. c \in Int
  BY <1>1
<1>4. c % L \in 0 .. L - 1 /\ z \in Int /\ c = L * z + (c % L)
  <2> HIDE DEF c
  <2> QED
    BY <1>3, ModFacts
<1>5. c = v - L * x
  BY <1>1
<1> HIDE DEF c, x, y, z
<1>6. c % L = (v % L) + (L * y - L * x - L * z)
  BY <1>1, <1>2, <1>3, <1>4, <1>5
<1>7. L * y - L * x - L * z = L * (y - x - z)
  BY <1>1, <1>2, <1>4
<1> DEFINE k == y - x - z
<1>8. k \in Int /\ c % L = (v % L) + L * k
  BY <1>1, <1>2, <1>4, <1>6, <1>7
<1> HIDE DEF k
<1>9. c % L = v % L
  BY <1>2, <1>4, <1>8, ModUnique
<1> QED
  BY <1>9 DEF c

(* compute_leader, whatever certificate it counts from. *)
LeaderOf(v) == Members[(v % Len(Members)) + 1]
LedBy(qc) == qc.view \in Nat /\ qc.leader = LeaderOf(qc.view)

LEMMA LeaderOfView ==
  ASSUME NEW n, LedBy(base[n]), view[n] \in Nat
  PROVE  ComputeLeader(n) = LeaderOf(view[n])
<1> DEFINE L == Len(Members)
           a == base[n].view
           last == CHOOSE i \in DOMAIN Members : Members[i] = base[n].leader
<1>1. L \in Nat \ {0} /\ DOMAIN Members = 1 .. L
  BY HotStuffAssumption
<1>2. a \in Nat /\ base[n].leader = Members[(a % L) + 1]
  BY DEF LedBy, LeaderOf
<1> HIDE DEF L, a
<1>3. a % L \in 0 .. L - 1
  BY <1>1, <1>2
<1>4. (a % L) + 1 \in DOMAIN Members
  BY <1>1, <1>3
<1>5. last \in DOMAIN Members /\ Members[last] = base[n].leader
  BY <1>2, <1>4
<1> HIDE DEF last
<1>6. last = (a % L) + 1
  BY <1>2, <1>4, <1>5, HotStuffAssumption
<1>7. last - 1 + view[n] - a = (a % L) + view[n] - a
  BY <1>2, <1>3, <1>6
<1>8. (last - 1 + view[n] - a) % L = view[n] % L
  BY <1>1, <1>2, <1>7, ModShift
<1> QED
  BY <1>8 DEF ComputeLeader, LeaderOf, L, a, last

LEMMA LeaderIsNode ==
  ASSUME NEW v \in Nat
  PROVE  LeaderOf(v) \in Node
<1>1. Len(Members) \in Nat \ {0} /\ DOMAIN Members = 1 .. Len(Members) /\ Members \in Seq(Node)
  BY HotStuffAssumption
<1>2. v % Len(Members) \in 0 .. Len(Members) - 1
  BY <1>1
<1>3. (v % Len(Members)) + 1 \in 1 .. Len(Members)
  BY <1>1, <1>2
<1> QED
  BY <1>1, <1>3 DEF LeaderOf

AnyBlock == [number : Nat, parent : Int, id : Nat]

(* The leader of the view of a proposal has come to it, and still holds the
   proposal while it is in that view. *)
Led(p, V, S) ==
  /\ p.view <= V[LeaderOf(p.view)]
  /\ p.view = V[LeaderOf(p.view)] => S[LeaderOf(p.view)].prepare = p.node

LeadInv ==
  /\ restarts \in Nat
  /\ \A b \in Known(msgs) : b \in AnyBlock
  /\ \A n \in Node : LedBy(base[n]) /\ (lead[n].wanted # None => lead[n].prepare = None)
  /\ \A n \in Node : \A i \in 1 .. Len(chain[n]) : LedBy(chain[n][i].qc)
  /\ \A m \in msgs : m.type = "Decide" => LedBy(m.qc)
  /\ restarts = 0 => /\ OneProposal(msgs)
                     /\ \A p \in msgs : p.type = "Prepare" => Led(p, view, lead)

(* What every step does to that. *)
NewProposal(p) ==
  /\ p.node \in AnyBlock
  /\ \E n \in Node : /\ p.view = view[n] /\ n = LeaderOf(view[n]) /\ view'[n] = view[n]
                     /\ lead[n].prepare = None /\ lead'[n].prepare = p.node
LeadStep ==
  /\ restarts' \in Nat /\ (restarts' = 0 => restarts = 0)
  /\ \A m \in msgs' \ msgs : /\ m.type = "Decide" => LedBy(m.qc)
                             /\ m.type = "Prepare" => NewProposal(m)
  /\ \A n \in Node : /\ LedBy(base'[n])
                     /\ lead'[n].wanted # None => lead'[n].prepare = None
                     /\ \A i \in 1 .. Len(chain'[n]) : LedBy(chain'[n][i].qc)
                     /\ restarts' = 0 /\ view'[n] = view[n] /\ lead[n].prepare # None
                          => lead'[n].prepare = lead[n].prepare

LEMMA LeadKeeps ==
  ASSUME SafetyInv, LeadInv, StepOK, LeadStep
  PROVE  LeadInv'
<1>1. /\ msgs \subseteq msgs' /\ \A n \in Node : view[n] \in Nat /\ view'[n] \in Nat /\ view[n] <= view'[n]
  BY DEF SafetyInv, Domains, StepOK, NodeStep
<1>2. \A p \in msgs : p.type = "Prepare" => p.view \in Nat /\ p.node \in Known(msgs)
  BY DEF SafetyInv, MsgsOK, Grounded, Known
<1>3. \A b \in Known(msgs') : b \in AnyBlock
  <2>1. \A p \in msgs' : p.type = "Prepare" => p.node \in AnyBlock
    BY <1>2 DEF LeadInv, LeadStep, NewProposal
  <2>2. GenesisBlock \in AnyBlock
    BY DEF GenesisBlock, AnyBlock
  <2> QED
    BY <2>1, <2>2 DEF Known
<1>4. \A m \in msgs' : m.type = "Decide" => LedBy(m.qc)
  BY DEF LeadInv, LeadStep
<1>5. ASSUME restarts' = 0
      PROVE  /\ OneProposal(msgs')
             /\ \A p \in msgs' : p.type = "Prepare" => Led(p, view', lead')
  <2>1. restarts = 0
    BY <1>5 DEF LeadStep
  <2>2. /\ OneProposal(msgs)
        /\ \A p \in msgs : p.type = "Prepare" => Led(p, view, lead)
    BY <2>1 DEF LeadInv
  <2>3. ASSUME NEW p \in msgs, p.type = "Prepare"
        PROVE  /\ Led(p, view', lead') /\ p.view \in Nat
               /\ p.view = view[LeaderOf(p.view)] => lead[LeaderOf(p.view)].prepare # None
    <3> DEFINE k == LeaderOf(p.view)
    <3>1. k \in Node /\ p.view \in Nat
      BY <1>2, <2>3, LeaderIsNode
    <3>2. p.view <= view[k] /\ (p.view = view[k] => lead[k].prepare = p.node)
      BY <2>2, <2>3 DEF Led
    <3>3. p.node # None
      BY <1>2, <2>3, HotStuffAssumption DEF LeadInv, AnyBlock
    <3>4. view'[k] = view[k] /\ lead[k].prepare # None => lead'[k].prepare = lead[k].prepare
      BY <1>5, <3>1 DEF LeadStep
    <3>5. view[k] \in Nat /\ view'[k] \in Nat /\ view[k] <= view'[k]
      BY <1>1, <3>1
    <3> HIDE DEF k
    <3>6. p.view <= view'[k] /\ (p.view = view'[k] => lead'[k].prepare = p.node)
      BY <3>1, <3>2, <3>3, <3>4, <3>5
    <3> QED
      BY <3>1, <3>2, <3>3, <3>6 DEF Led, k
  <2>4. ASSUME NEW p \in msgs' \ msgs, p.type = "Prepare"
        PROVE  /\ Led(p, view', lead')
               /\ p.view = view[LeaderOf(p.view)] /\ lead[LeaderOf(p.view)].prepare = None
               /\ lead'[LeaderOf(p.view)].prepare = p.node
    <3>1. PICK n \in Node : /\ p.view = view[n] /\ n = LeaderOf(view[n]) /\ view'[n] = view[n]
                            /\ lead[n].prepare = None /\ lead'[n].prepare = p.node
      BY <2>4 DEF LeadStep, NewProposal
    <3>2. LeaderOf(p.view) = n
      BY <3>1
    <3>3. view[n] \in Nat
      BY <1>1
    <3> QED
      BY <3>1, <3>2, <3>3 DEF Led
  <2>5. OneProposal(msgs')
    <3> SUFFICES ASSUME NEW p \in msgs', NEW q \in msgs', p.type = "Prepare", q.type = "Prepare",
                        p.view = q.view
                 PROVE  p.node = q.node
      BY DEF OneProposal
    <3>1. CASE p \in msgs /\ q \in msgs
      BY <2>2, <3>1 DEF OneProposal
    <3>2. CASE p \notin msgs /\ q \notin msgs
      BY <2>4, <3>2
    <3>3. CASE p \in msgs /\ q \notin msgs
      BY <2>3, <2>4, <3>3
    <3>4. CASE p \notin msgs /\ q \in msgs
      BY <2>3, <2>4, <3>4
    <3> QED
      BY <3>1, <3>2, <3>3, <3>4
  <2> QED
    BY <2>3, <2>4, <2>5
<1> QED
  BY <1>3, <1>4, <1>5 DEF LeadInv, LeadStep

(* A step that makes no proposal and begins no view. *)
LEMMA LeadQuiet ==
  ASSUME LeadInv, UNCHANGED <<view, base, restarts>>,
         \A k \in Node : lead'[k].prepare = lead[k].prepare /\ lead'[k].wanted = lead[k].wanted,
         \A m \in msgs' \ msgs : m.type # "Prepare" /\ (m.type = "Decide" => LedBy(m.qc)),
         \A k \in Node : \A i \in 1 .. Len(chain'[k]) : LedBy(chain'[k][i].qc)
  PROVE  LeadStep
BY DEF LeadInv, LeadStep

LEMMA LeaderHere ==
  ASSUME SafetyInv, LeadInv, NEW n \in Node, AsLeader(n)
  PROVE  n = LeaderOf(view[n])
BY LeaderOfView, NodeNumbers DEF LeadInv, AsLeader

LEMMA LeadAppend ==
  ASSUME SafetyInv, LeadInv, NEW n \in Node, NEW e, LedBy(e.qc),
         chain' = chain \/ chain' = [chain EXCEPT ![n] = Append(chain[n], e)]
  PROVE  \A k \in Node : \A i \in 1 .. Len(chain'[k]) : LedBy(chain'[k][i].qc)
<1>1. \A k \in Node : \A i \in 1 .. Len(chain[k]) : LedBy(chain[k][i].qc)
  BY DEF LeadInv
<1>2. CASE chain' = chain
  BY <1>1, <1>2
<1>3. CASE chain' = [chain EXCEPT ![n] = Append(chain[n], e)]
  <2>1. chain'[n] = Append(chain[n], e) /\ \A k \in Node \ {n} : chain'[k] = chain[k]
    BY <1>3 DEF SafetyInv, Domains
  <2>2. PICK S : chain[n] \in Seq(S)
    BY DEF SafetyInv, ChainOK
  <2> DEFINE T == S \cup {e}
  <2>3. chain[n] \in Seq(T) /\ e \in T
    BY <2>2
  <2> HIDE DEF T
  <2>4. \A i \in 1 .. Len(Append(chain[n], e)) :
          IF i = Len(chain[n]) + 1 THEN Append(chain[n], e)[i] = e
          ELSE i \in 1 .. Len(chain[n]) /\ Append(chain[n], e)[i] = chain[n][i]
    BY <2>3
  <2>5. \A i \in 1 .. Len(chain'[n]) : LedBy(chain'[n][i].qc)
    BY <1>1, <2>1, <2>4
  <2> QED
    BY <1>1, <2>1, <2>5
<1> QED
  BY <1>2, <1>3

(* A proposal. *)
LEMMA LeadPropose ==
  ASSUME SafetyInv, LeadInv, NEW n \in Node, AsLeader(n), NEW b \in AnyBlock, NEW high,
         lead[n].prepare = None, Propose(n, b, high), UNCHANGED <<view, base, chain, restarts>>
  PROVE  LeadStep
<1>1. n = LeaderOf(view[n])
  BY LeaderHere
<1>2. Domains
  BY DEF SafetyInv
<1>3. /\ lead'[n].prepare = b /\ lead'[n].wanted = None
      /\ \A k \in Node \ {n} : lead'[k] = lead[k]
  BY <1>2 DEF Domains, Propose
<1> DEFINE p == [type |-> "Prepare", view |-> view[n], node |-> b, justify |-> high]
           m == Vote(n, "Prepare", b)
<1>4. msgs' = msgs \cup {p, m}
  BY DEF Propose
<1>5. p.view = view[n] /\ p.node = b /\ p.type = "Prepare" /\ m.type = "Vote"
  BY DEF Vote
<1> HIDE DEF p, m
<1>6. NewProposal(p)
  BY <1>1, <1>3, <1>5 DEF NewProposal
<1>7. \A x \in msgs' \ msgs : /\ x.type = "Decide" => LedBy(x.qc)
                              /\ x.type = "Prepare" => NewProposal(x)
  BY <1>4, <1>5, <1>6
<1> QED
  BY <1>3, <1>7 DEF LeadInv, LeadStep

LEMMA LeadProposals ==
  ASSUME SafetyInv, LeadInv, NEW n \in Node,
         \/ \E high \in HighQCs(n) : CreateProposal(n, high)
         \/ \E high \in HighQCs(n) : ReuseProposal(n, high)
         \/ \E verified \in BOOLEAN : OnRemoteProposal(n, verified)
  PROVE  LeadStep
<1>1. \A qc : CertOK(msgs, qc) => qc.node \in AnyBlock
  BY CertifiedKnown DEF CertOK, SafetyInv, LeadInv
<1>2. ASSUME NEW high \in HighQCs(n), CreateProposal(n, high) PROVE LeadStep
  <2>1. Tip(n).number \in Nat /\ Tip(n).id \in Int /\ made \in Nat
    BY TipFacts DEF SafetyInv, KnownOK
  <2>2. Built(n) \in AnyBlock
    BY <2>1 DEF Built, AnyBlock
  <2>3. /\ AsLeader(n) /\ lead[n].prepare = None /\ Propose(n, Built(n), high)
        /\ UNCHANGED <<view, base, chain, restarts>>
    BY <1>2 DEF CreateProposal, ToWork
  <2> QED
    BY <2>2, <2>3, LeadPropose
<1>3. ASSUME NEW high \in HighQCs(n), ReuseProposal(n, high) PROVE LeadStep
  <2>1. high.node \in AnyBlock
    BY <1>1, HighFacts
  <2>2. AsLeader(n) /\ lead[n].prepare = None /\ UNCHANGED <<view, base, chain, restarts>>
    BY <1>3 DEF ReuseProposal, ToWork, storage, bounds
  <2>3. CASE Propose(n, high.node, high)
    BY <2>1, <2>2, <2>3, LeadPropose
  <2>4. CASE msgs' = msgs /\ (lead' = lead \/ lead' = [lead EXCEPT ![n].wanted = high])
    <3>1. /\ \A k \in Node \ {n} : lead'[k] = lead[k]
          /\ lead'[n].prepare = None
      BY <2>2, <2>4 DEF SafetyInv, Domains
    <3> QED
      BY <2>2, <2>4, <3>1 DEF LeadInv, LeadStep
  <2> QED
    BY <1>3, <2>3, <2>4 DEF ReuseProposal
<1>4. ASSUME NEW verified, OnRemoteProposal(n, verified) PROVE LeadStep
  <2>1. /\ AsLeader(n) /\ lead[n].wanted # None /\ Propose(n, lead[n].wanted.node, lead[n].wanted)
        /\ UNCHANGED <<view, base, chain, restarts>>
    BY <1>4 DEF OnRemoteProposal, bounds
  <2>2. lead[n].wanted.node \in AnyBlock /\ lead[n].prepare = None
    BY <1>1, <2>1 DEF SafetyInv, NodeOK, LeadInv
  <2> QED
    BY <2>1, <2>2, LeadPropose
<1> QED
  BY <1>2, <1>3, <1>4

(* The leader's phases. *)
LEMMA LeadPhases ==
  ASSUME SafetyInv, LeadInv, NEW n \in Node,
         LeaderPrepare(n) \/ LeaderPreCommit(n) \/ LeaderCommit(n)
  PROVE  LeadStep
<1>1. PICK phase, next : /\ EndPhase(n, phase, next) /\ next # "Prepare" /\ next # "Vote"
                         /\ UNCHANGED <<view, base, restarts>>
                         /\ chain' = chain \/ Decide(n, lead[n].prepare, QC(n, phase, lead[n].prepare))
  BY DEF LeaderPrepare, LeaderPreCommit, LeaderCommit, storage, bounds
<1> DEFINE b == lead[n].prepare
           qc == QC(n, phase, b)
           p == [type |-> next, view |-> view[n], qc |-> qc]
           m == Vote(n, next, b)
           e == [block |-> b, qc |-> qc]
<1>2. n = LeaderOf(view[n]) /\ view[n] \in Nat
  BY <1>1, LeaderHere, NodeNumbers DEF EndPhase
<1>3. LedBy(qc)
  BY <1>2 DEF QC, LedBy
<1>4. /\ \A k \in Node \ {n} : lead'[k] = lead[k]
      /\ lead'[n].prepare = lead[n].prepare /\ lead'[n].wanted = lead[n].wanted
  BY <1>1 DEF EndPhase, SafetyInv, Domains
<1>5. \A x \in msgs' \ msgs : x \in {p, m}
  BY <1>1 DEF EndPhase
<1>6. p.type = next /\ p.qc = qc /\ m.type = "Vote" /\ e.qc = qc
  BY DEF Vote
<1>7. chain' = chain \/ chain' = [chain EXCEPT ![n] = Append(chain[n], e)]
  BY <1>1 DEF Decide, SafetyInv, Domains
<1> HIDE DEF b, qc, p, m, e
<1>8. \A k \in Node : \A i \in 1 .. Len(chain'[k]) : LedBy(chain'[k][i].qc)
  BY <1>3, <1>6, <1>7, LeadAppend
<1>9. \A x \in msgs' \ msgs : x.type # "Prepare" /\ (x.type = "Decide" => LedBy(x.qc))
  BY <1>1, <1>3, <1>5, <1>6
<1> QED
  BY <1>1, <1>4, <1>8, <1>9, LeadQuiet

(* The replicas' handlers, timeouts and synchronised blocks. *)
LEMMA LeadReplicas ==
  ASSUME SafetyInv, LeadInv, NEW n \in Node,
         \/ UnexpectedVote(n) \/ OnTimeout(n)
         \/ \E k \in Node \ {n} : Sync(n, k)
         \/ \E m \in msgs : \/ \E verified \in BOOLEAN : OnPrepare(n, m, verified)
                            \/ OnPreCommit(n, m) \/ OnCommit(n, m) \/ OnDecide(n, m)
  PROVE  LeadStep
<1>1. lead' = lead /\ UNCHANGED <<view, base, restarts>>
  BY DEF UnexpectedVote, OnTimeout, Sync, OnPrepare, OnPreCommit, OnCommit, OnDecide, storage, bounds
<1>2. ASSUME NEW x \in msgs' \ msgs PROVE x.type \in {"Vote", "NewTimeout"}
  <2>1. \A phase, b : Vote(n, phase, b).type = "Vote"
    BY DEF Vote
  <2>2. CASE UnexpectedVote(n) \/ OnTimeout(n)
    BY <2>2 DEF UnexpectedVote, OnTimeout
  <2>3. CASE \E k \in Node \ {n} : Sync(n, k)
    BY <2>3 DEF Sync
  <2>4. ASSUME NEW m \in msgs, NEW verified, OnPrepare(n, m, verified)
        PROVE  x.type = "Vote"
    <3>1. msgs' = msgs \/ msgs' = msgs \cup {Vote(n, "Prepare", m.node)}
      BY <2>4 DEF OnPrepare
    <3> QED
      BY <2>1, <3>1
  <2>5. ASSUME NEW m \in msgs, OnPreCommit(n, m) \/ OnCommit(n, m) \/ OnDecide(n, m)
        PROVE  x.type = "Vote"
    <3>1. \/ msgs' = msgs
          \/ msgs' = msgs \cup {Vote(n, "PreCommit", m.qc.node)}
          \/ msgs' = msgs \cup {Vote(n, "Commit", m.qc.node)}
      BY <2>5 DEF OnPreCommit, OnCommit, OnDecide
    <3> QED
      BY <2>1, <3>1
  <2> QED
    BY <2>2, <2>3, <2>4, <2>5
<1>3. \A k \in Node : \A i \in 1 .. Len(chain'[k]) : LedBy(chain'[k][i].qc)
  <2>1. CASE chain' = chain
    BY <2>1 DEF LeadInv
  <2>2. ASSUME NEW k \in Node, Sync(n, k)
        PROVE  \A j \in Node : \A i \in 1 .. Len(chain'[j]) : LedBy(chain'[j][i].qc)
    <3> DEFINE e == chain[k][Len(chain[n]) + 1]
    <3>1. /\ Len(chain[k]) > Len(chain[n])
          /\ chain' = [chain EXCEPT ![n] = Append(chain[n], e)]
      BY <2>2 DEF Sync, SafetyInv, Domains
    <3>2. Len(chain[n]) + 1 \in 1 .. Len(chain[k])
      BY <3>1, TipFacts
    <3>3. LedBy(e.qc)
      BY <3>2 DEF LeadInv
    <3> HIDE DEF e
    <3> QED
      BY <3>1, <3>3, LeadAppend
  <2>3. ASSUME NEW m \in msgs, OnDecide(n, m), chain' # chain
        PROVE  \A j \in Node : \A i \in 1 .. Len(chain'[j]) : LedBy(chain'[j][i].qc)
    <3> DEFINE e == [block |-> m.qc.node, qc |-> m.qc]
    <3>1. chain' = [chain EXCEPT ![n] = Append(chain[n], e)]
      BY <2>3 DEF OnDecide, Decide, SafetyInv, Domains
    <3>2. LedBy(e.qc)
      BY <2>3 DEF OnDecide, LeadInv
    <3> HIDE DEF e
    <3> QED
      BY <3>1, <3>2, LeadAppend
  <2> QED
    BY <2>1, <2>2, <2>3 DEF UnexpectedVote, OnTimeout, OnPrepare, OnPreCommit, OnCommit
<1> QED
  BY <1>1, <1>2, <1>3, LeadQuiet

(* The beginning of a view. *)
LEMMA LeadRunView ==
  ASSUME SafetyInv, LeadInv, NEW n \in Node, NEW sent, \A m \in sent : m.type = "TimeoutDecide",
         RunView(n, sent), chain' = chain, restarts' \in {restarts, restarts + 1},
         \A k \in Node : LedBy(base'[k]),
         view'[n] # view[n] \/ restarts' # restarts
  PROVE  LeadStep
<1> DEFINE m == NewViewOf(n)'
<1>1. m.type = "NewView"
  BY DEF NewViewOf
<1>2. msgs' = msgs \cup sent \cup {x \in {m} : x.to # n}
  BY DEF RunView, SentNewView
<1> HIDE DEF m
<1>3. \A x \in msgs' \ msgs : x.type \in {"TimeoutDecide", "NewView"}
  BY <1>1, <1>2
<1>4. lead'[n] = NewLead(prepareQC'[n]) /\ \A k \in Node \ {n} : lead'[k] = lead[k]
  BY DEF RunView, SafetyInv, Domains
<1>5. lead'[n].wanted = None /\ lead'[n].prepare = None
  BY <1>4 DEF NewLead
<1>6. restarts \in Nat /\ restarts' \in Nat /\ (restarts' = 0 => restarts' = restarts)
  BY DEF LeadInv
<1>7. \A k \in Node : /\ lead'[k].wanted # None => lead'[k].prepare = None
                      /\ \A i \in 1 .. Len(chain'[k]) : LedBy(chain'[k][i].qc)
                      /\ restarts' = 0 /\ view'[k] = view[k] => lead'[k] = lead[k]
  BY <1>4, <1>5, <1>6 DEF LeadInv
<1> QED
  BY <1>3, <1>6, <1>7 DEF LeadStep

LEMMA LeadViews ==
  ASSUME SafetyInv, LeadInv, NEW n \in Node,
         \/ \E v \in Nat : OnTimeoutQuorum(n, v)
         \/ \E m \in msgs : OnTimeoutDecide(n, m)
         \/ OnBlockCommitted(n) \/ Restart(n)
  PROVE  LeadStep
<1>1. ASSUME NEW v \in Nat, NEW sent, \A m \in sent : m.type = "TimeoutDecide",
             v >= view[n], AdvanceView(n, v, sent)
      PROVE  LeadStep
  <2>1. /\ RunView(n, sent) /\ UNCHANGED <<base, chain, restarts>>
        /\ view' = [view EXCEPT ![n] = v + 1]
    BY <1>1 DEF AdvanceView, storage, bounds
  <2>2. view'[n] = v + 1 /\ view[n] \in Nat
    BY <2>1, NodeNumbers DEF SafetyInv, Domains
  <2>3. view'[n] # view[n]
    BY <1>1, <2>2
  <2>4. \A k \in Node : LedBy(base'[k])
    BY <2>1 DEF LeadInv
  <2> QED
    BY <1>1, <2>1, <2>3, <2>4, LeadRunView
<1>2. ASSUME NEW v \in Nat, OnTimeoutQuorum(n, v) PROVE LeadStep
  BY <1>1, <1>2 DEF OnTimeoutQuorum, InTime
<1>3. ASSUME NEW m \in msgs, OnTimeoutDecide(n, m) PROVE LeadStep
  <2>1. m.view \in Nat
    BY <1>3 DEF OnTimeoutDecide, SafetyInv, MsgsOK, Grounded
  <2> QED
    BY <1>1, <1>3, <2>1 DEF OnTimeoutDecide, InTime
<1>4. ASSUME OnBlockCommitted(n) \/ Restart(n) PROVE LeadStep
  <2>1. chain' = chain /\ Refresh(n)
    BY <1>4 DEF OnBlockCommitted, Restart
  <2>2. LedBy(BaseOf(n))
    <3>1. CASE chain[n] = << >>
      <4>1. BaseOf(n) = GenesisQC
        BY <3>1 DEF BaseOf
      <4>2. GenesisQC.view = 0 /\ GenesisQC.leader = Members[1]
        BY DEF GenesisQC
      <4>3. Len(Members) \in Nat \ {0}
        BY HotStuffAssumption
      <4>4. 0 % Len(Members) = 0
        BY <4>3
      <4> QED
        BY <4>1, <4>2, <4>4 DEF LedBy, LeaderOf
    <3>2. CASE chain[n] # << >>
      <4>1. PICK S : chain[n] \in Seq(S)
        BY DEF SafetyInv, ChainOK
      <4>2. Len(chain[n]) \in 1 .. Len(chain[n])
        BY <3>2, <4>1
      <4> QED
        BY <3>2, <4>2 DEF LeadInv, BaseOf
    <3> QED
      BY <3>1, <3>2
  <2>3. \A k \in Node : LedBy(base'[k])
    BY <2>1, <2>2 DEF Refresh, LeadInv, SafetyInv, Domains
  <2>4. CASE RunView(n, {}) /\ restarts' = restarts + 1
    <3>1. restarts \in Nat
      BY DEF LeadInv
    <3> QED
      BY <2>1, <2>3, <2>4, <3>1, LeadRunView
  <2>5. CASE RunView(n, {}) /\ view'[n] # view[n] /\ restarts' = restarts
    BY <2>1, <2>3, <2>5, LeadRunView
  <2>6. CASE msgs' = msgs /\ lead' = lead /\ restarts' = restarts
    BY <2>1, <2>3, <2>6 DEF LeadInv, LeadStep
  <2> QED
    BY <1>4, <2>4, <2>5, <2>6 DEF OnBlockCommitted, Restart, Continue, bounds
<1> QED
  BY <1>2, <1>3, <1>4

LEMMA LeadInit == Init => LeadInv
<1> SUFFICES ASSUME Init PROVE LeadInv
  OBVIOUS
<1>1. \A m \in msgs : m.type = "NewView"
  <2> SUFFICES ASSUME NEW n \in Node, NEW m \in SentNewView(n) PROVE m.type = "NewView"
    BY DEF Init
  <2> QED
    BY DEF SentNewView, NewViewOf
<1>2. LedBy(GenesisQC)
  <2>1. GenesisQC.view = 0 /\ GenesisQC.leader = Members[1]
    BY DEF GenesisQC
  <2>2. Len(Members) \in Nat \ {0}
    BY HotStuffAssumption
  <2>3. 0 % Len(Members) = 0
    BY <2>2
  <2> QED
    BY <2>1, <2>3 DEF LedBy, LeaderOf
<1>3. \A n \in Node : /\ base[n] = GenesisQC /\ chain[n] = << >> /\ lead[n] = NewLead(GenesisQC)
  BY DEF Init
<1>4. NewLead(GenesisQC).wanted = None
  BY DEF NewLead
<1>5. Known(msgs) = {GenesisBlock} /\ GenesisBlock \in AnyBlock
  BY <1>1 DEF Known, GenesisBlock, AnyBlock
<1>6. \A n \in Node : Len(chain[n]) = 0
  BY <1>3
<1>7. restarts = 0 /\ OneProposal(msgs)
  BY <1>1 DEF Init, OneProposal
<1> QED
  BY <1>1, <1>2, <1>3, <1>4, <1>5, <1>6, <1>7 DEF LeadInv

LEMMA LeadNext ==
  ASSUME SafetyInv, LeadInv, [Next]_vars
  PROVE  LeadInv'
<1>1. StepOK
  BY NextStep, StutterStep
<1>2. CASE UNCHANGED vars
  <2>1. UNCHANGED <<view, base, chain, lead, msgs, restarts>>
    BY <1>2 DEF vars, storage, bounds
  <2>2. LeadStep
    BY <2>1 DEF LeadInv, LeadStep
  <2> QED
    BY <1>1, <2>2, LeadKeeps
<1>3. CASE Next
  <2>1. PICK n \in Node :
          \/ \/ \E high \in HighQCs(n) : CreateProposal(n, high)
             \/ \E high \in HighQCs(n) : ReuseProposal(n, high)
             \/ \E verified \in BOOLEAN : OnRemoteProposal(n, verified)
          \/ LeaderPrepare(n) \/ LeaderPreCommit(n) \/ LeaderCommit(n)
          \/ \/ UnexpectedVote(n) \/ OnTimeout(n)
             \/ \E m \in Node \ {n} : Sync(n, m)
             \/ \E m \in msgs : \/ \E verified \in BOOLEAN : OnPrepare(n, m, verified)
                                \/ OnPreCommit(n, m) \/ OnCommit(n, m) \/ OnDecide(n, m)
          \/ \/ \E v \in 1 .. MaxView : OnTimeoutQuorum(n, v)
             \/ \E m \in msgs : OnTimeoutDecide(n, m)
             \/ OnBlockCommitted(n) \/ Restart(n)
    BY <1>3 DEF Next
  <2>2. 1 .. MaxView \subseteq Nat
    OBVIOUS
  <2>3. CASE \/ \E high \in HighQCs(n) : CreateProposal(n, high)
             \/ \E high \in HighQCs(n) : ReuseProposal(n, high)
             \/ \E verified \in BOOLEAN : OnRemoteProposal(n, verified)
    BY <1>1, <2>3, LeadProposals, LeadKeeps
  <2>4. CASE LeaderPrepare(n) \/ LeaderPreCommit(n) \/ LeaderCommit(n)
    BY <1>1, <2>4, LeadPhases, LeadKeeps
  <2>5. CASE \/ UnexpectedVote(n) \/ OnTimeout(n)
             \/ \E m \in Node \ {n} : Sync(n, m)
             \/ \E m \in msgs : \/ \E verified \in BOOLEAN : OnPrepare(n, m, verified)
                                \/ OnPreCommit(n, m) \/ OnCommit(n, m) \/ OnDecide(n, m)
    BY <1>1, <2>5, LeadReplicas, LeadKeeps
  <2>6. CASE \/ \E v \in 1 .. MaxView : OnTimeoutQuorum(n, v)
             \/ \E m \in msgs : OnTimeoutDecide(n, m)
             \/ OnBlockCommitted(n) \/ Restart(n)
    BY <1>1, <2>2, <2>6, LeadViews, LeadKeeps
  <2> QED
    BY <2>1, <2>3, <2>4, <2>5, <2>6
<1> QED
  BY <1>2, <1>3

(* Without a restart no view has two proposed blocks: the validators agree on
   the leader of a view, whatever commit certificate each counts from
   (compute_leader), and a LeaderState makes one proposal (work, on_proposal,
   on_remote_proposal). *)
THEOREM OneProposalPerView == Spec => [](restarts = 0 => OneProposal(msgs))
<1>1. SafetyInv /\ LeadInv /\ [Next]_vars => LeadInv'
  BY LeadNext
<1>2. LeadInv => (restarts = 0 => OneProposal(msgs))
  BY DEF LeadInv
<1> QED
  BY <1>1, <1>2, LeadInit, SafetyKept, PTL DEF Spec

(* No fork (Agreement) for any validators, weights, views and delays of messages,
   as long as no validator restarts. *)
THEOREM NoForkWithoutRestart == Spec => [](restarts = 0 => Agreement)
BY AgreementHolds, OneProposalPerView, PTL
=============================================================================
