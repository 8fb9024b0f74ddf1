----------------------------- MODULE RaftProofs -----------------------------
(***************************************************************************)
(* Election safety of the Raft consensus, for any number of nodes, terms   *)
(* and faults.                                                             *)
(*                                                                         *)
(* The invariant follows a vote from the ballot, over the answer under way *)
(* and the candidate's count, to the majority of the winner.  A node's     *)
(* ballots stay behind its persisted term, and the one of its term is the  *)
(* persisted vote: that is what a restart between two writes and a refresh *)
(* of the storage have to keep.                                            *)
(***************************************************************************)
EXTENDS Raft, FiniteLemmas

Roles == {"Leader", "Candidate", "Follower"}

VoteTypes ==
  /\ term \in [Node -> Nat]
  /\ votedFor \in [Node -> Node \cup {None}]
  /\ role \in [Node -> Roles]
  /\ election \in [Node -> Nat]
  /\ granted \in [Node -> SUBSET Node]
  /\ ballots \in [1 .. MaxTerm -> [Node -> SUBSET Node]]
  /\ won \in [1 .. MaxTerm -> SUBSET Node]

(* The storage and the chain, as far as terms come from them. *)
IsLog(lg) ==
  /\ IsFiniteSet(DOMAIN lg)
  /\ DOMAIN lg \subseteq Nat
  /\ \A i \in DOMAIN lg : lg[i].term \in Nat
IsPosition(p) == p.index \in Nat /\ p.term \in Nat
IsChains(c) == \E S : c \in [Node -> Seq([block : S, index : Nat, term : Nat])]

StoreTypes ==
  /\ DOMAIN log = Node /\ \A n \in Node : IsLog(log[n])
  /\ DOMAIN base = Node /\ \A n \in Node : IsPosition(base[n])
  /\ IsChains(chain)

(* The links, and the messages under way on one of them. *)
Links(c) == \E S : c \in [Node -> [Node -> Seq(S)]]
Carried(c, m, n) == {c[m][n][i] : i \in 1 .. Len(c[m][n])}
MessageType(x) ==
  /\ x.type \in {"VoteReq", "VoteRes", "AppendReq"} => x.term \in Nat
  /\ x.type = "VoteReq" => x.term \in 1 .. MaxTerm /\ x.id = x.term
  /\ x.type = "AppendReq" => IsLog(x.entries)
LinkTypes ==
  /\ Links(chan)
  /\ \A m, n \in Node : \A x \in Carried(chan, m, n) : MessageType(x)

Types == VoteTypes /\ StoreTypes /\ LinkTypes

-----------------------------------------------------------------------------
(* A node has no ballot beyond its term, its ballot of the term is its vote,
   and it has one candidate at most. *)
BallotsInv ==
  \A n \in Node, t \in 1 .. MaxTerm :
    /\ t > term[n] => ballots[t][n] = {}
    /\ t = term[n] => ballots[t][n] \subseteq {votedFor[n]}
    /\ \A a, b \in ballots[t][n] : a = b

(* An answer that grants the vote was given with a ballot. *)
Backed(bs, x, m, n) ==
  x.type = "VoteRes" /\ x.granted => x.id \in 1 .. MaxTerm /\ n \in bs[x.id][m]
AnswersInv == \A m, n \in Node : \A x \in Carried(chan, m, n) : Backed(ballots, x, m, n)

(* So were the votes that a candidate has counted, *)
GrantedInv ==
  \A n \in Node :
    /\ role[n] = "Candidate" => election[n] \in 1 .. MaxTerm
    /\ granted[n] # {} => role[n] = "Candidate"
    /\ \A m \in granted[n] : n \in ballots[election[n]][m]

(* and those of a winner, which are a majority. *)
Voters(n, t) == {m \in Node : n \in ballots[t][m]}
WonInv == \A t \in 1 .. MaxTerm : \A n \in won[t] : Cardinality(Voters(n, t)) >= Majority

VotesInv == BallotsInv /\ AnswersInv /\ GrantedInv /\ WonInv
Inv == Types /\ VotesInv

-----------------------------------------------------------------------------
(* Links. *)

LEMMA LinksIn ==
  ASSUME NEW c, Links(c)
  PROVE  \E S : c \in [Node -> [Node -> Seq(S)]]
BY DEF Links

(* After a step that takes c to d, what is under way was so before, or is one of
   the messages S from n to a node of M. *)
Sends(c, d, n, M, S) ==
  /\ Links(d)
  /\ \A i, j \in Node :
       Carried(d, i, j) \subseteq Carried(c, i, j) \cup {x \in S : i = n /\ j \in M}

LEMMA AppendCarries ==
  ASSUME NEW S, NEW q \in Seq(S), NEW x, NEW y,
         y \in {Append(q, x)[i] : i \in 1 .. Len(Append(q, x))}
  PROVE  y = x \/ y \in {q[i] : i \in 1 .. Len(q)}
<1>1. Len(Append(q, x)) = Len(q) + 1 /\ Len(q) \in Nat
  OBVIOUS
<1>2. PICK k \in 1 .. Len(q) + 1 : y = Append(q, x)[k]
  BY <1>1
<1>3. Append(q, x)[k] = IF k = Len(q) + 1 THEN x ELSE q[k]
  OBVIOUS
<1> QED
  BY <1>1, <1>2, <1>3

LEMMA SendOne ==
  ASSUME NEW c, Links(c), NEW n \in Node, NEW m \in Node, NEW x
  PROVE  Sends(c, [c EXCEPT ![n][m] = Append(@, x)], n, {m}, {x})
<1> DEFINE d == [c EXCEPT ![n][m] = Append(@, x)]
<1>1. PICK S : c \in [Node -> [Node -> Seq(S)]]
  BY DEF Links
<1>2. c \in [Node -> [Node -> Seq(S \cup {x})]]
  <2>1. Seq(S) \subseteq Seq(S \cup {x})
    OBVIOUS
  <2> QED
    BY <1>1, <2>1
<1>3. d \in [Node -> [Node -> Seq(S \cup {x})]]
  BY <1>2
<1>4. ASSUME NEW i \in Node, NEW j \in Node
      PROVE  Carried(d, i, j) \subseteq Carried(c, i, j) \cup {y \in {x} : i = n /\ j \in {m}}
  <2>1. c[i][j] \in Seq(S \cup {x})
    BY <1>2
  <2>2. CASE i = n /\ j = m
    <3>1. d[i][j] = Append(c[i][j], x)
      BY <1>2, <2>2
    <3> HIDE DEF d
    <3>4. Carried(d, i, j) \subseteq Carried(c, i, j) \cup {x}
      BY <2>1, <3>1, AppendCarries DEF Carried
    <3> QED
      BY <2>2, <3>4
  <2>3. CASE ~ (i = n /\ j = m)
    <3>1. d[i][j] = c[i][j]
      BY <1>2, <2>3
    <3> QED
      BY <3>1 DEF Carried
  <2> QED
    BY <2>2, <2>3
<1> QED
  <2> HIDE DEF d
  <2>1. Links(d)
    BY <1>3 DEF Links
  <2>2. Sends(c, d, n, {m}, {x})
    BY <2>1, <1>4 DEF Sends
  <2> QED
    BY <2>2 DEF d

(* Steps that follow one another, the first of which sends nothing *)
LEMMA SendsAfter ==
  ASSUME NEW c, NEW d, NEW e, NEW n, NEW M, NEW S, Sends(c, d, n, M, {}), Sends(d, e, n, M, S)
  PROVE  Sends(c, e, n, M, S)
BY DEF Sends

LEMMA SendsMore ==
  ASSUME NEW c, NEW d, NEW e, NEW n, NEW M, NEW R, NEW S, Sends(c, d, n, M, R), Sends(d, e, n, M, S)
  PROVE  Sends(c, e, n, M, R \cup S)
BY DEF Sends

LEMMA SendsNothing ==
  ASSUME NEW c, Links(c), NEW n, NEW M, NEW S
  PROVE  Sends(c, c, n, M, S)
BY DEF Sends

LEMMA TakenLinks ==
  ASSUME Links(chan), NEW n \in Node, NEW m \in Node, chan[m][n] # << >>, NEW M
  PROVE  /\ Sends(chan, Taken(n, m), n, M, {})
         /\ Head(chan[m][n]) \in Carried(chan, m, n)
<1>1. PICK S : chan \in [Node -> [Node -> Seq(S)]]
  BY DEF Links
<1>2. chan[m][n] \in Seq(S) /\ Len(chan[m][n]) >= 1 /\ Len(chan[m][n]) \in Nat
  BY <1>1
<1>3. Head(chan[m][n]) = chan[m][n][1]
  BY <1>2
<1>4. Head(chan[m][n]) \in Carried(chan, m, n)
  BY <1>2, <1>3 DEF Carried
<1> DEFINE d == Taken(n, m)
<1>5. d \in [Node -> [Node -> Seq(S)]]
  BY <1>1, <1>2 DEF Taken
<1>6. ASSUME NEW i \in Node, NEW j \in Node PROVE Carried(d, i, j) \subseteq Carried(chan, i, j)
  <2>1. CASE i = m /\ j = n
    <3>1. d[i][j] = Tail(chan[i][j])
      BY <1>1, <2>1 DEF Taken
    <3>2. Len(d[i][j]) = Len(chan[i][j]) - 1
      BY <1>2, <2>1, <3>1
    <3>3. \A k \in 1 .. Len(d[i][j]) : d[i][j][k] = chan[i][j][k + 1]
      BY <1>2, <2>1, <3>1, <3>2
    <3> HIDE DEF d
    <3> QED
      BY <1>2, <2>1, <3>2, <3>3 DEF Carried
  <2>2. CASE ~ (i = m /\ j = n)
    <3>1. d[i][j] = chan[i][j]
      BY <1>1, <2>2 DEF Taken
    <3> QED
      BY <3>1 DEF Carried
  <2> QED
    BY <2>1, <2>2
<1>7. Sends(chan, d, n, M, {})
  <2> HIDE DEF d
  <2> QED
    BY <1>5, <1>6 DEF Sends, Links
<1> QED
  BY <1>4, <1>7

LEMMA AnswerLinks ==
  ASSUME Links(chan), NEW n \in Node, NEW m \in Node, chan[m][n] # << >>, NEW res,
         Answer(n, m, res)
  PROVE  Sends(chan, chan', n, {m}, {res})
<1>1. Sends(chan, Taken(n, m), n, {m}, {})
  BY TakenLinks
<1>2. chan' = [Taken(n, m) EXCEPT ![n][m] = Append(@, res)]
  BY DEF Answer
<1>3. Links(Taken(n, m))
  BY <1>1 DEF Sends
<1>4. Sends(Taken(n, m), chan', n, {m}, {res})
  BY <1>2, <1>3, SendOne
<1> QED
  BY <1>1, <1>4, SendsAfter

-----------------------------------------------------------------------------
(* Logs. *)

LEMMA RestrictLog ==
  ASSUME NEW lg, IsLog(lg), NEW i
  PROVE  IsLog(From(lg, i)) /\ IsLog(UpTo(lg, i))
<1>1. ASSUME NEW D \in SUBSET DOMAIN lg PROVE IsLog([j \in D |-> lg[j]])
  <2>1. IsFiniteSet(D)
    BY <1>1, FS_Subset DEF IsLog
  <2> QED
    BY <2>1 DEF IsLog
<1>2. /\ {j \in DOMAIN lg : j >= i} \in SUBSET DOMAIN lg
      /\ {j \in DOMAIN lg : j <= i} \in SUBSET DOMAIN lg
  OBVIOUS
<1> QED
  BY <1>1, <1>2 DEF From, UpTo, Restrict

LEMMA ExtendLog ==
  ASSUME NEW lg, IsLog(lg), NEW es, IsLog(es)
  PROVE  IsLog(Extend(lg, es))
<1>1. IsFiniteSet(DOMAIN lg \cup DOMAIN es)
  BY FS_Union DEF IsLog
<1>2. DOMAIN Extend(lg, es) = DOMAIN lg \cup DOMAIN es
  BY DEF Extend
<1>3. \A i \in DOMAIN lg \cup DOMAIN es : Extend(lg, es)[i].term \in Nat
  BY DEF Extend, IsLog
<1> QED
  BY <1>1, <1>2, <1>3 DEF IsLog

LEMMA EntryLog ==
  ASSUME NEW i \in Nat, NEW t \in Nat, NEW b
  PROVE  IsLog(Entry(i, t, b))
<1>1. IsFiniteSet({i})
  BY FS_Singleton
<1> QED
  BY <1>1 DEF Entry, IsLog

LEMMA LastPosition ==
  ASSUME NEW lg, IsLog(lg), NEW bs, IsPosition(bs)
  PROVE  IsPosition(LastOf(lg, bs))
<1>1. CASE DOMAIN lg = {}
  BY <1>1 DEF LastOf
<1>2. CASE DOMAIN lg # {}
  <2>1. DOMAIN lg \subseteq Int /\ IsFiniteSet(DOMAIN lg)
    BY DEF IsLog
  <2>2. Max(DOMAIN lg) \in DOMAIN lg
    BY <1>2, <2>1, MaxProperty
  <2> QED
    BY <1>2, <2>2 DEF LastOf, IsLog, IsPosition
<1> QED
  BY <1>1, <1>2

LEMMA SeqLarger ==
  ASSUME NEW A, NEW B, A \subseteq B
  PROVE  Seq(A) \subseteq Seq(B)
OBVIOUS

LEMMA LastIn ==
  ASSUME NEW A, NEW q \in Seq(A), q # << >>
  PROVE  q[Len(q)] \in A
OBVIOUS

LEMMA ProofPosition ==
  ASSUME IsChains(chain), NEW n \in Node
  PROVE  IsPosition(ProofOf(chain[n]))
<1>1. PICK S : chain \in [Node -> Seq([block : S, index : Nat, term : Nat])]
  BY DEF IsChains
<1>2. CASE chain[n] = << >>
  BY <1>2 DEF ProofOf, IsPosition, Genesis
<1>3. CASE chain[n] # << >>
  <2>1. chain[n] \in Seq([block : S, index : Nat, term : Nat])
    BY <1>1
  <2>2. chain[n][Len(chain[n])] \in [block : S, index : Nat, term : Nat]
    BY <2>1, <1>3, LastIn
  <2> QED
    BY <1>3, <2>2 DEF ProofOf, IsPosition
<1> QED
  BY <1>2, <1>3

LEMMA ChainExtended ==
  ASSUME IsChains(chain), NEW n \in Node, NEW b, NEW i \in Nat, NEW t \in Nat,
         chain' = [chain EXCEPT ![n] = Append(@, [block |-> b, index |-> i, term |-> t])]
  PROVE  IsChains(chain')
<1>1. PICK S : chain \in [Node -> Seq([block : S, index : Nat, term : Nat])]
  BY DEF IsChains
<1> DEFINE R == S \cup {b}
<1>2. [block : S, index : Nat, term : Nat] \subseteq [block : R, index : Nat, term : Nat]
  OBVIOUS
<1>3. Seq([block : S, index : Nat, term : Nat]) \subseteq Seq([block : R, index : Nat, term : Nat])
  BY <1>2, SeqLarger
<1>4. [block |-> b, index |-> i, term |-> t] \in [block : R, index : Nat, term : Nat]
  OBVIOUS
<1> DEFINE E == [block : R, index : Nat, term : Nat]
           e == [block |-> b, index |-> i, term |-> t]
<1>5. chain' \in [Node -> Seq(E)]
  <2>1. chain \in [Node -> Seq(E)] /\ e \in E
    BY <1>1, <1>3, <1>4
  <2> HIDE DEF E, e
  <2>2. Append(chain[n], e) \in Seq(E)
    BY <2>1
  <2>3. chain' = [chain EXCEPT ![n] = Append(chain[n], e)]
    BY DEF e
  <2> QED
    BY <2>1, <2>2, <2>3
<1> QED
  BY <1>5 DEF IsChains

-----------------------------------------------------------------------------
(* Steps of the elections. *)

(* What VoteKept says of a step *)
VoteKeptStep ==
  \A n \in Node : /\ term'[n] >= term[n]
                  /\ term'[n] = term[n] /\ votedFor[n] # None => votedFor'[n] = votedFor[n]

(* A step of node n without a ballot: the term may grow, the vote changes only
   with it, and a candidacy is left alone or given up. *)
KeepsVotes(n) ==
  /\ \E t \in Nat, v \in Node \cup {None} :
       /\ t >= term[n]
       /\ t = term[n] => v = votedFor[n]
       /\ term' = [term EXCEPT ![n] = t]
       /\ votedFor' = [votedFor EXCEPT ![n] = v]
  /\ \/ UNCHANGED <<role, election, granted>>
     \/ /\ role' = [role EXCEPT ![n] = "Follower"]
        /\ election' = [election EXCEPT ![n] = 0]
        /\ granted' = [granted EXCEPT ![n] = {}]
  /\ UNCHANGED <<ballots, won>>

LEMMA UnchangedKeeps ==
  ASSUME VoteTypes, UNCHANGED voteVars, NEW n \in Node
  PROVE  KeepsVotes(n)
<1>1. term[n] \in Nat /\ votedFor[n] \in Node \cup {None}
  BY DEF VoteTypes
<1>2. term = [term EXCEPT ![n] = term[n]] /\ votedFor = [votedFor EXCEPT ![n] = votedFor[n]]
  BY DEF VoteTypes
<1>3. /\ term' = term /\ votedFor' = votedFor
      /\ UNCHANGED <<role, election, granted>> /\ UNCHANGED <<ballots, won>>
  BY DEF voteVars
<1>4. term[n] >= term[n]
  BY <1>1
<1> QED
  BY <1>1, <1>2, <1>3, <1>4 DEF KeepsVotes

LEMMA KeepsVotesInv ==
  ASSUME VoteTypes, BallotsInv, GrantedInv, WonInv, NEW n \in Node, KeepsVotes(n)
  PROVE  VoteTypes' /\ BallotsInv' /\ GrantedInv' /\ WonInv' /\ VoteKeptStep
<1>1. PICK t \in Nat, v \in Node \cup {None} :
        /\ t >= term[n]
        /\ t = term[n] => v = votedFor[n]
        /\ term' = [term EXCEPT ![n] = t]
        /\ votedFor' = [votedFor EXCEPT ![n] = v]
  BY DEF KeepsVotes
<1>2. ballots' = ballots /\ won' = won
  BY DEF KeepsVotes
<1>3. VoteTypes'
  <2>1. term' \in [Node -> Nat] /\ votedFor' \in [Node -> Node \cup {None}]
    BY <1>1 DEF VoteTypes
  <2>2. role' \in [Node -> Roles] /\ election' \in [Node -> Nat] /\ granted' \in [Node -> SUBSET Node]
    <3>1. CASE UNCHANGED <<role, election, granted>>
      BY <3>1 DEF VoteTypes
    <3>2. CASE /\ role' = [role EXCEPT ![n] = "Follower"]
               /\ election' = [election EXCEPT ![n] = 0]
               /\ granted' = [granted EXCEPT ![n] = {}]
      BY <3>2 DEF VoteTypes, Roles
    <3> QED
      BY <3>1, <3>2 DEF KeepsVotes
  <2> QED
    BY <1>2, <2>1, <2>2 DEF VoteTypes
<1>4. \A i \in Node : /\ term'[i] \in Nat /\ term[i] \in Nat
                      /\ term'[i] >= term[i]
                      /\ term'[i] = term[i] => votedFor'[i] = votedFor[i]
  BY <1>1 DEF VoteTypes
<1>5. BallotsInv'
  <2> SUFFICES ASSUME NEW i \in Node, NEW u \in 1 .. MaxTerm
               PROVE  /\ u > term'[i] => ballots[u][i] = {}
                      /\ u = term'[i] => ballots[u][i] \subseteq {votedFor'[i]}
                      /\ \A a, b \in ballots[u][i] : a = b
    BY <1>2 DEF BallotsInv
  <2>1. CASE term'[i] = term[i]
    BY <1>4, <2>1 DEF BallotsInv
  <2>2. CASE term'[i] > term[i]
    BY <1>4, <2>2 DEF BallotsInv
  <2> QED
    BY <1>4, <2>1, <2>2
<1>6. GrantedInv'
  <2>1. CASE UNCHANGED <<role, election, granted>>
    BY <1>2, <2>1 DEF GrantedInv
  <2>2. CASE /\ role' = [role EXCEPT ![n] = "Follower"]
             /\ election' = [election EXCEPT ![n] = 0]
             /\ granted' = [granted EXCEPT ![n] = {}]
    BY <1>2, <2>2 DEF GrantedInv, VoteTypes
  <2> QED
    BY <2>1, <2>2 DEF KeepsVotes
<1>7. WonInv'
  BY <1>2 DEF WonInv, Voters, Majority
<1>8. VoteKeptStep
  BY <1>4 DEF VoteKeptStep
<1> QED
  BY <1>3, <1>5, <1>6, <1>7, <1>8

(* The messages after a step: the answers that were backed are so still. *)
LEMMA LinksInv ==
  ASSUME LinkTypes, AnswersInv, NEW n \in Node, NEW M, NEW S,
         Sends(chan, chan', n, M, S),
         \A t \in 1 .. MaxTerm, m \in Node : ballots[t][m] \subseteq ballots'[t][m],
         \A x \in S : MessageType(x),
         \A x \in S, j \in Node : j \in M => Backed(ballots', x, n, j)
  PROVE  LinkTypes' /\ AnswersInv'
<1>1. ASSUME NEW i \in Node, NEW j \in Node, NEW x \in Carried(chan', i, j)
      PROVE  MessageType(x) /\ Backed(ballots', x, i, j)
  <2>1. CASE x \in Carried(chan, i, j)
    <3>1. MessageType(x) /\ Backed(ballots, x, i, j)
      BY <2>1 DEF LinkTypes, AnswersInv
    <3> QED
      BY <3>1 DEF Backed
  <2>2. CASE x \in S /\ i = n /\ j \in M
    BY <2>2
  <2> QED
    BY <2>1, <2>2 DEF Sends
<1>2. LinkTypes'
  BY <1>1 DEF LinkTypes, Sends, MessageType, IsLog
<1>3. AnswersInv'
  BY <1>1 DEF AnswersInv
<1> QED
  BY <1>2, <1>3

(* Storage::refresh: the term does not decrease, and the vote is forgotten only
   with a later term. *)
LEMMA RefreshStep ==
  ASSUME VoteTypes, StoreTypes, NEW n \in Node, NEW t \in Nat, t >= term[n], NEW c, Refresh(n, t, c)
  PROVE  /\ \E u \in Nat, v \in Node \cup {None} :
              /\ u >= term[n]
              /\ u = term[n] => v = votedFor[n]
              /\ term' = [term EXCEPT ![n] = u]
              /\ votedFor' = [votedFor EXCEPT ![n] = v]
         /\ DOMAIN log' = Node /\ \A i \in Node : IsLog(log'[i])
         /\ DOMAIN base' = Node /\ \A i \in Node : IsPosition(base'[i])
<1>1. IsPosition(ProofOf(chain[n]))
  BY ProofPosition DEF StoreTypes
<1>2. term[n] \in Nat /\ votedFor[n] \in Node \cup {None}
  BY DEF VoteTypes
<1> DEFINE u == TermAfterRefresh(n, t)
           v == VoteAfterRefresh(n, t)
<1>3. u \in Nat /\ u >= term[n] /\ v \in Node \cup {None} /\ (u = term[n] => v = votedFor[n])
  BY <1>1, <1>2 DEF TermAfterRefresh, VoteAfterRefresh, IsPosition
<1>4. term' = [term EXCEPT ![n] = u] /\ votedFor' = [votedFor EXCEPT ![n] = v]
  BY DEF Refresh
<1>5. DOMAIN log' = Node /\ \A i \in Node : IsLog(log'[i])
  <2>1. log' = [log EXCEPT ![n] = From(log[n], ProofOf(chain[n]).index + 1)]
    BY DEF Refresh
  <2>2. IsLog(From(log[n], ProofOf(chain[n]).index + 1))
    BY RestrictLog DEF StoreTypes
  <2> QED
    BY <2>1, <2>2 DEF StoreTypes
<1>6. DOMAIN base' = Node /\ \A i \in Node : IsPosition(base'[i])
  <2>1. base' = [base EXCEPT ![n] = ProofOf(chain[n])]
    BY DEF Refresh
  <2> QED
    BY <1>1, <2>1 DEF StoreTypes
<1> HIDE DEF u, v
<1> QED
  BY <1>3, <1>4, <1>5, <1>6

(* More ballots leave the winners their majorities. *)
LEMMA VotersFinite ==
  ASSUME NEW V \in SUBSET Node, NEW W \in SUBSET V
  PROVE  /\ IsFiniteSet(V) /\ Cardinality(V) \in Nat
         /\ Cardinality(W) \in Nat /\ Cardinality(W) <= Cardinality(V)
<1>1. IsFiniteSet(V)
  BY RaftAssumption, FS_Subset
<1>2. IsFiniteSet(W) /\ Cardinality(W) <= Cardinality(V)
  BY <1>1, FS_Subset
<1> QED
  BY <1>1, <1>2, FS_CardinalityType

LEMMA MajorityNat == Majority \in Nat /\ 2 * Majority > Cardinality(Node) /\ Cardinality(Node) \in Nat
<1>1. Cardinality(Node) \in Nat
  BY RaftAssumption, FS_CardinalityType
<1> QED
  BY <1>1 DEF Majority

LEMMA WonGrows ==
  ASSUME WonInv,
         \A t \in 1 .. MaxTerm, m \in Node : ballots[t][m] \subseteq ballots'[t][m],
         \A t \in 1 .. MaxTerm : \A n \in won'[t] :
           n \in won[t] \/ Cardinality(Voters(n, t)') >= Majority
  PROVE  WonInv'
<1> SUFFICES ASSUME NEW t \in 1 .. MaxTerm, NEW n \in won'[t], n \in won[t]
             PROVE  Cardinality(Voters(n, t)') >= Majority
  BY DEF WonInv, Majority
<1>1. Cardinality(Voters(n, t)) >= Majority
  BY DEF WonInv
<1>2. Voters(n, t)' \in SUBSET Node /\ Voters(n, t) \in SUBSET Voters(n, t)'
  BY DEF Voters
<1>3. /\ Cardinality(Voters(n, t)) <= Cardinality(Voters(n, t)')
      /\ Cardinality(Voters(n, t)) \in Nat /\ Cardinality(Voters(n, t)') \in Nat
  BY <1>2, VotersFinite
<1> QED
  BY <1>1, <1>3, MajorityNat

(* A step of node n without a ballot keeps the invariant. *)
LEMMA KeepsInv ==
  ASSUME Inv, NEW n \in Node, KeepsVotes(n), StoreTypes',
         NEW M, NEW S, Sends(chan, chan', n, M, S),
         \A x \in S : MessageType(x) /\ ~ (x.type = "VoteRes" /\ x.granted)
  PROVE  Inv' /\ VoteKeptStep
<1>1. VoteTypes' /\ BallotsInv' /\ GrantedInv' /\ WonInv' /\ VoteKeptStep
  BY KeepsVotesInv DEF Inv, Types, VotesInv
<1>2. \A t \in 1 .. MaxTerm, m \in Node : ballots[t][m] \subseteq ballots'[t][m]
  BY DEF KeepsVotes
<1>3. \A x \in S, j \in Node : j \in M => Backed(ballots', x, n, j)
  BY DEF Backed
<1>4. LinkTypes /\ AnswersInv
  BY DEF Inv, Types, VotesInv
<1>5. LinkTypes' /\ AnswersInv'
  BY <1>2, <1>3, <1>4, LinksInv
<1> QED
  BY <1>1, <1>5 DEF Inv, Types, VotesInv

(* StartElection: a candidate's first ballot of a new term is its own. *)
LEMMA StartElectionInv ==
  ASSUME Inv, NEW n \in Node, NEW targets \in SUBSET Others(n), StartElection(n, targets)
  PROVE  Inv' /\ VoteKeptStep
<1> DEFINE t == term[n] + 1
           req == [type |-> "VoteReq", id |-> t, term |-> t, last |-> Last(n)]
<1>1. t \in 1 .. MaxTerm /\ term[n] \in Nat
  BY RaftAssumption DEF StartElection, Inv, Types, VoteTypes
<1>2. /\ term' = [term EXCEPT ![n] = t]
      /\ votedFor' = [votedFor EXCEPT ![n] = n]
      /\ role' = [role EXCEPT ![n] = "Candidate"]
      /\ election' = [election EXCEPT ![n] = t]
      /\ granted' = [granted EXCEPT ![n] = {n}]
      /\ ballots' = [ballots EXCEPT ![t][n] = @ \cup {n}]
      /\ won' = won
  BY <1>1 DEF StartElection, Inv, Types, VoteTypes
<1>3. ballots[t][n] = {}
  BY <1>1 DEF Inv, VotesInv, BallotsInv
<1> HIDE DEF t
<1>4. VoteTypes'
  <2>1. VoteTypes
    BY DEF Inv, Types
  <2>2. ballots' \in [1 .. MaxTerm -> [Node -> SUBSET Node]]
    <3>1. ballots[t][n] \cup {n} \in SUBSET Node
      BY <1>3
    <3> QED
      BY <1>1, <1>2, <2>1, <3>1 DEF VoteTypes
  <2>3. /\ term' \in [Node -> Nat] /\ votedFor' \in [Node -> Node \cup {None}]
        /\ election' \in [Node -> Nat]
    BY <1>1, <1>2, <2>1 DEF VoteTypes
  <2>4. role' \in [Node -> Roles] /\ granted' \in [Node -> SUBSET Node] /\ won' = won
    BY <1>2, <2>1 DEF VoteTypes, Roles
  <2> QED
    BY <2>1, <2>2, <2>3, <2>4 DEF VoteTypes
<1>5. \A i \in Node, u \in 1 .. MaxTerm :
        ballots'[u][i] = IF i = n /\ u = t THEN {n} ELSE ballots[u][i]
  BY <1>1, <1>2, <1>3 DEF Inv, Types, VoteTypes
<1>6. BallotsInv'
  <2> SUFFICES ASSUME NEW i \in Node, NEW u \in 1 .. MaxTerm
               PROVE  /\ u > term'[i] => ballots'[u][i] = {}
                      /\ u = term'[i] => ballots'[u][i] \subseteq {votedFor'[i]}
                      /\ \A a, b \in ballots'[u][i] : a = b
    BY DEF BallotsInv
  <2>0. /\ u > term[i] => ballots[u][i] = {}
        /\ u = term[i] => ballots[u][i] \subseteq {votedFor[i]}
        /\ \A a, b \in ballots[u][i] : a = b
    BY DEF Inv, VotesInv, BallotsInv
  <2>1. CASE i = n
    <3>1. term'[i] = t /\ votedFor'[i] = n /\ t = term[n] + 1
      BY <1>2, <2>1 DEF t, Inv, Types, VoteTypes
    <3> QED
      BY <1>1, <1>5, <2>0, <2>1, <3>1
  <2>2. CASE i # n
    <3>1. term'[i] = term[i] /\ votedFor'[i] = votedFor[i]
      BY <1>2, <2>2 DEF Inv, Types, VoteTypes
    <3> QED
      BY <1>5, <2>0, <2>2, <3>1
  <2> QED
    BY <2>1, <2>2
<1>7. GrantedInv'
  <2> SUFFICES ASSUME NEW i \in Node
               PROVE  /\ role'[i] = "Candidate" => election'[i] \in 1 .. MaxTerm
                      /\ granted'[i] # {} => role'[i] = "Candidate"
                      /\ \A m \in granted'[i] : i \in ballots'[election'[i]][m]
    BY DEF GrantedInv
  <2>1. CASE i = n
    BY <1>1, <1>2, <1>5, <2>1 DEF Inv, Types, VoteTypes
  <2>2. CASE i # n
    <3>1. role'[i] = role[i] /\ election'[i] = election[i] /\ granted'[i] = granted[i]
      BY <1>2, <2>2 DEF Inv, Types, VoteTypes
    <3>2. /\ role[i] = "Candidate" => election[i] \in 1 .. MaxTerm
          /\ granted[i] # {} => role[i] = "Candidate"
          /\ \A m \in granted[i] : m \in Node /\ i \in ballots[election[i]][m]
      BY DEF Inv, Types, VoteTypes, VotesInv, GrantedInv
    <3> QED
      BY <1>3, <1>5, <3>1, <3>2
  <2> QED
    BY <2>1, <2>2
<1>8. \A u \in 1 .. MaxTerm, i \in Node : ballots[u][i] \subseteq ballots'[u][i]
  BY <1>3, <1>5
<1>9. WonInv'
  BY <1>2, <1>8, WonGrows DEF Inv, VotesInv
<1>10. VoteKeptStep
  BY <1>1, <1>2 DEF VoteKeptStep, Inv, Types, VoteTypes, t
<1>11. StoreTypes'
  BY DEF StartElection, logVars, chainVars, Inv, Types, StoreTypes
<1>12. Sends(chan, chan', n, targets, {req})
  <2>1. Links(chan)
    BY DEF Inv, Types, LinkTypes
  <2>2. PICK S : chan \in [Node -> [Node -> Seq(S)]]
    BY <2>1 DEF Links
  <2> HIDE DEF req
  <2>3. chan' = [chan EXCEPT ![n] = [m \in Node |->
                   IF m \in targets THEN Append(chan[n][m], req) ELSE chan[n][m]]]
    BY DEF StartElection, req, t
  <2>4. ASSUME NEW i \in Node, NEW j \in Node
        PROVE  /\ chan'[i][j] \in Seq(S \cup {req})
               /\ Carried(chan', i, j) \subseteq Carried(chan, i, j) \cup {x \in {req} : i = n /\ j \in targets}
    <3>0. chan[i][j] \in Seq(S) /\ chan[i][j] \in Seq(S \cup {req})
      BY <2>2, SeqLarger
    <3>1. CASE i = n /\ j \in targets
      <4>1. chan'[i][j] = Append(chan[i][j], req)
        BY <2>2, <2>3, <3>1
      <4>2. chan'[i][j] \in Seq(S \cup {req})
        BY <3>0, <4>1
      <4>3. Carried(chan', i, j) \subseteq Carried(chan, i, j) \cup {req}
        BY <3>0, <4>1, AppendCarries DEF Carried
      <4> QED
        BY <3>1, <4>2, <4>3
    <3>2. CASE ~ (i = n /\ j \in targets)
      <4>1. chan'[i][j] = chan[i][j]
        BY <2>2, <2>3, <3>2
      <4> QED
        BY <3>0, <4>1 DEF Carried
    <3> QED
      BY <3>1, <3>2
  <2>5. chan' \in [Node -> [Node -> Seq(S \cup {req})]]
    BY <2>2, <2>3, <2>4
  <2> QED
    BY <2>4, <2>5 DEF Sends, Links
<1>13. MessageType(req) /\ \A j \in Node : Backed(ballots', req, n, j)
  BY <1>1 DEF MessageType, Backed
<1>14. LinkTypes' /\ AnswersInv'
  <2> HIDE DEF req
  <2>1. LinkTypes /\ AnswersInv
    BY DEF Inv, Types, VotesInv
  <2>2. /\ \A x \in {req} : MessageType(x)
        /\ \A x \in {req}, j \in Node : j \in targets => Backed(ballots', x, n, j)
    BY <1>13
  <2> QED
    BY <1>8, <1>12, <2>1, <2>2, LinksInv
<1> QED
  BY <1>4, <1>6, <1>7, <1>9, <1>10, <1>11, <1>14 DEF Inv, Types, VotesInv

(* The candidacy of node n is left alone or given up. *)
LeavesCandidacy(n) ==
  \/ UNCHANGED <<role, election, granted>>
  \/ /\ role' = [role EXCEPT ![n] = "Follower"]
     /\ election' = [election EXCEPT ![n] = 0]
     /\ granted' = [granted EXCEPT ![n] = {}]

(* A ballot of node n, for the candidates B, in a term that is not over. *)
LEMMA BallotInv ==
  ASSUME VoteTypes, BallotsInv, GrantedInv, WonInv, NEW n \in Node,
         NEW t \in 1 .. MaxTerm, NEW v \in Node \cup {None}, NEW B \in SUBSET Node,
         t >= term[n],
         t = term[n] /\ votedFor[n] # None => v = votedFor[n],
         ballots[t][n] \cup B \subseteq {v},
         term' = [term EXCEPT ![n] = t],
         votedFor' = [votedFor EXCEPT ![n] = v],
         ballots' = [ballots EXCEPT ![t][n] = @ \cup B],
         won' = won,
         LeavesCandidacy(n)
  PROVE  VoteTypes' /\ BallotsInv' /\ GrantedInv' /\ WonInv' /\ VoteKeptStep
         /\ \A u \in 1 .. MaxTerm, i \in Node : ballots[u][i] \subseteq ballots'[u][i]
<1>1. \A i \in Node, u \in 1 .. MaxTerm :
        ballots'[u][i] = IF i = n /\ u = t THEN ballots[u][i] \cup B ELSE ballots[u][i]
  BY DEF VoteTypes
<1>2. VoteTypes'
  <2>1. ballots' \in [1 .. MaxTerm -> [Node -> SUBSET Node]]
    <3>0. ballots \in [1 .. MaxTerm -> [Node -> SUBSET Node]]
      BY DEF VoteTypes
    <3>1. ballots[t][n] \in SUBSET Node
      BY <3>0, Zenon
    <3>2. ballots[t][n] \cup B \in SUBSET Node
      BY <3>1
    <3> QED
      BY <3>2 DEF VoteTypes
  <2>2. term' \in [Node -> Nat] /\ votedFor' \in [Node -> Node \cup {None}]
    BY DEF VoteTypes
  <2>3. role' \in [Node -> Roles] /\ election' \in [Node -> Nat] /\ granted' \in [Node -> SUBSET Node]
    <3>1. CASE UNCHANGED <<role, election, granted>>
      BY <3>1 DEF VoteTypes
    <3>2. CASE /\ role' = [role EXCEPT ![n] = "Follower"]
               /\ election' = [election EXCEPT ![n] = 0]
               /\ granted' = [granted EXCEPT ![n] = {}]
      BY <3>2 DEF VoteTypes, Roles
    <3> QED
      BY <3>1, <3>2 DEF LeavesCandidacy
  <2> QED
    BY <2>1, <2>2, <2>3 DEF VoteTypes
<1>3. BallotsInv'
  <2> SUFFICES ASSUME NEW i \in Node, NEW u \in 1 .. MaxTerm
               PROVE  /\ u > term'[i] => ballots'[u][i] = {}
                      /\ u = term'[i] => ballots'[u][i] \subseteq {votedFor'[i]}
                      /\ \A a, b \in ballots'[u][i] : a = b
    BY DEF BallotsInv
  <2>0. /\ u > term[i] => ballots[u][i] = {}
        /\ u = term[i] => ballots[u][i] \subseteq {votedFor[i]}
        /\ \A a, b \in ballots[u][i] : a = b
        /\ term[i] \in Nat
    BY DEF BallotsInv, VoteTypes
  <2>1. CASE i = n
    <3>1. term'[i] = t /\ votedFor'[i] = v
      BY <2>1 DEF VoteTypes
    <3>2. CASE u = t
      BY <1>1, <2>1, <3>1, <3>2
    <3>3. CASE u # t
      BY <1>1, <2>0, <2>1, <3>1, <3>3
    <3> QED
      BY <3>2, <3>3
  <2>2. CASE i # n
    <3>1. term'[i] = term[i] /\ votedFor'[i] = votedFor[i]
      BY <2>2 DEF VoteTypes
    <3> QED
      BY <1>1, <2>0, <2>2, <3>1
  <2> QED
    BY <2>1, <2>2
<1>4. GrantedInv'
  <2> SUFFICES ASSUME NEW i \in Node
               PROVE  /\ role'[i] = "Candidate" => election'[i] \in 1 .. MaxTerm
                      /\ granted'[i] # {} => role'[i] = "Candidate"
                      /\ \A m \in granted'[i] : i \in ballots'[election'[i]][m]
    BY DEF GrantedInv
  <2>1. \/ role'[i] = role[i] /\ election'[i] = election[i] /\ granted'[i] = granted[i]
        \/ role'[i] = "Follower" /\ granted'[i] = {}
    BY DEF LeavesCandidacy, VoteTypes
  <2>2. /\ role[i] = "Candidate" => election[i] \in 1 .. MaxTerm
        /\ granted[i] # {} => role[i] = "Candidate"
        /\ \A m \in granted[i] : m \in Node /\ i \in ballots[election[i]][m]
    BY DEF VoteTypes, GrantedInv
  <2> QED
    BY <1>1, <2>1, <2>2
<1>5. \A u \in 1 .. MaxTerm, i \in Node : ballots[u][i] \subseteq ballots'[u][i]
  BY <1>1
<1>6. WonInv'
  BY <1>5, WonGrows
<1>7. VoteKeptStep
  BY DEF VoteKeptStep, VoteTypes
<1> QED
  BY <1>2, <1>3, <1>4, <1>5, <1>6, <1>7

LEMMA FirstMessage ==
  ASSUME LinkTypes, NEW n \in Node, NEW m \in Node, NEW type, First(n, m, type)
  PROVE  /\ chan[m][n] # << >> /\ Links(chan)
         /\ Head(chan[m][n]).type = type
         /\ Head(chan[m][n]) \in Carried(chan, m, n)
         /\ MessageType(Head(chan[m][n]))
<1>1. chan[m][n] # << >> /\ Links(chan) /\ Head(chan[m][n]).type = type
  BY DEF First, LinkTypes
<1>2. Head(chan[m][n]) \in Carried(chan, m, n)
  BY <1>1, TakenLinks
<1> QED
  BY <1>1, <1>2 DEF LinkTypes

(* on_req_request_vote: a vote in the term that is not over, for the candidate
   that asks, unless it has been given to another. *)
LEMMA ReqVoteInv ==
  ASSUME Inv, NEW n \in Node, NEW m \in Others(n), OnReqRequestVote(n, m)
  PROVE  Inv' /\ VoteKeptStep
<1> DEFINE req == Head(chan[m][n])
           vote == VoteOf(n, m, req)
           grants == UpToDate(n, req.last) /\ vote = m
           Res(g) == [type |-> "VoteRes", id |-> req.id, term |-> term[n], granted |-> g]
<1>0. /\ VoteTypes /\ StoreTypes /\ LinkTypes /\ m \in Node
      /\ BallotsInv /\ GrantedInv /\ WonInv /\ AnswersInv
  BY DEF Inv, Types, VotesInv, Others
<1>1. /\ chan[m][n] # << >> /\ Links(chan)
      /\ req.term \in 1 .. MaxTerm /\ req.id = req.term
  BY <1>0, FirstMessage DEF OnReqRequestVote, MessageType
<1>2. StoreTypes'
  BY <1>0 DEF OnReqRequestVote, logVars, chainVars, StoreTypes
<1>3. term[n] \in Nat /\ votedFor[n] \in Node \cup {None} /\ None \notin Node
  BY <1>0, RaftAssumption DEF VoteTypes
<1>4. ASSUME NEW g PROVE MessageType(Res(g))
  BY <1>3 DEF MessageType
<1>5. won' = won
  BY DEF OnReqRequestVote
<1>6. CASE /\ Answer(n, m, Res(FALSE))
           /\ UNCHANGED <<term, votedFor, role, election, granted, ballots, match>>
  <2>1. KeepsVotes(n)
    BY <1>0, <1>5, <1>6, UnchangedKeeps DEF voteVars
  <2>2. Sends(chan, chan', n, {m}, {Res(FALSE)})
    <3> DEFINE r == Res(FALSE)
    <3>1. Answer(n, m, r)
      BY <1>6
    <3> HIDE DEF r
    <3>2. Sends(chan, chan', n, {m}, {r})
      BY <1>0, <1>1, <3>1, AnswerLinks
    <3> QED
      BY <3>2 DEF r
  <2>3. \A x \in {Res(FALSE)} : MessageType(x) /\ ~ (x.type = "VoteRes" /\ x.granted)
    BY <1>4
  <2> QED
    BY <1>2, <2>1, <2>2, <2>3, KeepsInv
<1>7. CASE /\ req.term >= term[n]
           /\ term' = [term EXCEPT ![n] = req.term]
           /\ votedFor' = [votedFor EXCEPT ![n] = vote]
           /\ ballots' = [ballots EXCEPT ![req.term][n] = @ \cup {c \in {m} : grants}]
           /\ Answer(n, m, Res(grants))
           /\ IF req.term > term[n] \/ vote # votedFor[n] THEN BecomeFollower(n)
              ELSE UNCHANGED <<role, election, granted, match>>
  <2> DEFINE B == {c \in {m} : grants}
             t == req.term
  <2>1. /\ vote \in Node \cup {None}
        /\ t = term[n] /\ votedFor[n] # None => vote = votedFor[n]
        /\ t = term[n] => vote = votedFor[n] \/ votedFor[n] = None
    BY <1>0, <1>3 DEF VoteOf
  <2>2. B \subseteq {vote} /\ B \in SUBSET Node
    BY <1>0
  <2>3. ballots[t][n] \subseteq {vote}
    <3>1. /\ t > term[n] => ballots[t][n] = {}
          /\ t = term[n] => ballots[t][n] \subseteq {votedFor[n]}
          /\ ballots[t][n] \subseteq Node
      BY <1>0, <1>1 DEF BallotsInv, VoteTypes
    <3>2. t \in Nat /\ term[n] \in Nat /\ t >= term[n]
      BY <1>1, <1>3, <1>7, RaftAssumption
    <3>3. t > term[n] \/ t = term[n]
      BY <3>2
    <3> HIDE DEF vote, t
    <3>4. CASE t > term[n]
      BY <3>1, <3>4, Zenon
    <3>5. CASE t = term[n]
      <4>1. CASE votedFor[n] = None
        <5>1. ballots[t][n] = {}
          BY <1>3, <3>1, <3>5, <4>1, Zenon
        <5> QED
          BY <5>1, Zenon
      <4>2. CASE votedFor[n] # None
        BY <2>1, <3>1, <3>5, <4>2, Zenon
      <4> QED
        BY <4>1, <4>2
    <3> QED
      BY <3>3, <3>4, <3>5
  <2>4. LeavesCandidacy(n)
    BY <1>7 DEF LeavesCandidacy, BecomeFollower
  <2>5. /\ t \in 1 .. MaxTerm /\ t >= term[n]
        /\ term' = [term EXCEPT ![n] = t]
        /\ votedFor' = [votedFor EXCEPT ![n] = vote]
        /\ ballots' = [ballots EXCEPT ![t][n] = @ \cup B]
    BY <1>1, <1>7
  <2>6. /\ VoteTypes' /\ BallotsInv' /\ GrantedInv' /\ WonInv' /\ VoteKeptStep
        /\ \A u \in 1 .. MaxTerm, i \in Node : ballots[u][i] \subseteq ballots'[u][i]
    <3> HIDE DEF vote, t, B
    <3>1. ballots[t][n] \cup B \subseteq {vote}
      BY <2>2, <2>3
    <3> QED
      BY <1>0, <1>5, <2>1, <2>2, <2>4, <2>5, <3>1, BallotInv
  <2> DEFINE r == Res(grants)
  <2>7. MessageType(r) /\ Backed(ballots', r, n, m)
    <3>1. MessageType(r)
      BY <1>4
    <3>2. grants => m \in ballots'[t][n]
      <4>1. grants => m \in B
        OBVIOUS
      <4>2. ballots'[t][n] = ballots[t][n] \cup B
        <5> HIDE DEF t, B
        <5> QED
          BY <1>0, <2>5 DEF VoteTypes
      <4> HIDE DEF grants, t, B
      <4> QED
        BY <4>1, <4>2
    <3>3. r.id = t /\ (r.granted <=> grants)
      BY <1>1
    <3> HIDE DEF r, grants, t
    <3> QED
      BY <2>5, <3>1, <3>2, <3>3 DEF Backed
  <2>8. LinkTypes' /\ AnswersInv'
    <3>1. Answer(n, m, r)
      BY <1>7
    <3> HIDE DEF r
    <3>2. Sends(chan, chan', n, {m}, {r})
      BY <1>0, <1>1, <3>1, AnswerLinks
    <3>3. /\ \A x \in {r} : MessageType(x)
          /\ \A x \in {r}, j \in Node : j \in {m} => Backed(ballots', x, n, j)
      BY <2>7
    <3> QED
      BY <1>0, <2>6, <3>2, <3>3, LinksInv
  <2> QED
    BY <1>2, <2>6, <2>8 DEF Inv, Types, VotesInv
<1> QED
  BY <1>6, <1>7, Zenon DEF OnReqRequestVote

(* What is kept by a step that only takes a message of m *)
LEMMA TakesInv ==
  ASSUME Inv, NEW n \in Node, NEW m \in Node, chan[m][n] # << >>, chan' = Taken(n, m),
         KeepsVotes(n), StoreTypes'
  PROVE  Inv' /\ VoteKeptStep
<1>1. Links(chan)
  BY DEF Inv, Types, LinkTypes
<1>2. Sends(chan, chan', n, {}, {})
  BY <1>1, TakenLinks
<1>3. \A x \in {} : MessageType(x) /\ ~ (x.type = "VoteRes" /\ x.granted)
  OBVIOUS
<1> QED
  BY <1>2, <1>3, KeepsInv

(* on_res_request_vote: a candidate counts the answers to its own election, and
   wins with the ballots of a majority. *)
LEMMA ResVoteInv ==
  ASSUME Inv, NEW n \in Node, NEW m \in Others(n), OnResRequestVote(n, m)
  PROVE  Inv' /\ VoteKeptStep
<1> DEFINE res == Head(chan[m][n])
           voters == granted[n] \cup {m}
           expected == role[n] = "Candidate" /\ res.id = election[n]
<1>0. /\ VoteTypes /\ StoreTypes /\ LinkTypes /\ m \in Node
      /\ BallotsInv /\ GrantedInv /\ WonInv /\ AnswersInv
  BY DEF Inv, Types, VotesInv, Others
<1>1. /\ chan[m][n] # << >> /\ Links(chan) /\ chan' = Taken(n, m)
      /\ res.type = "VoteRes" /\ res.term \in Nat
      /\ Backed(ballots, res, m, n)
  BY <1>0, FirstMessage DEF OnResRequestVote, Expected, MessageType, AnswersInv
<1>2. ballots' = ballots /\ base' = base /\ chain' = chain
  BY DEF OnResRequestVote, Expected, chainVars
<1>3. term[n] \in Nat /\ votedFor[n] \in Node \cup {None}
  BY <1>0 DEF VoteTypes
<1>7. LinkTypes' /\ AnswersInv'
  <2>1. Sends(chan, chan', n, {}, {})
    BY <1>0, <1>1, TakenLinks
  <2>2. /\ \A t \in 1 .. MaxTerm, i \in Node : ballots[t][i] \subseteq ballots'[t][i]
        /\ \A x \in {} : MessageType(x)
        /\ \A x \in {}, j \in Node : j \in {} => Backed(ballots', x, n, j)
    BY <1>2
  <2> QED
    BY <1>0, <2>1, <2>2, LinksInv
<1>4. CASE UNCHANGED <<term, votedFor, role, election, granted, won, log, match>>
  <2>1. KeepsVotes(n)
    BY <1>0, <1>2, <1>4, UnchangedKeeps DEF voteVars
  <2>2. StoreTypes'
    BY <1>0, <1>2, <1>4 DEF StoreTypes
  <2> QED
    BY <1>0, <1>1, <2>1, <2>2, TakesInv
<1>5. CASE /\ expected /\ res.term > term[n]
           /\ term' = [term EXCEPT ![n] = res.term]
           /\ votedFor' = [votedFor EXCEPT ![n] = None]
           /\ BecomeFollower(n)
           /\ UNCHANGED <<won, log>>
  <2>1. KeepsVotes(n)
    <3>1. res.term >= term[n] /\ res.term # term[n] /\ None \in Node \cup {None}
      BY <1>1, <1>3, <1>5
    <3>2. /\ role' = [role EXCEPT ![n] = "Follower"]
          /\ election' = [election EXCEPT ![n] = 0]
          /\ granted' = [granted EXCEPT ![n] = {}]
      BY <1>5 DEF BecomeFollower
    <3> HIDE DEF res
    <3> QED
      BY <1>1, <1>2, <1>5, <3>1, <3>2 DEF KeepsVotes
  <2>2. StoreTypes'
    BY <1>0, <1>2, <1>5 DEF StoreTypes
  <2> QED
    BY <1>0, <1>1, <2>1, <2>2, TakesInv
<1>6. CASE /\ expected /\ res.term <= term[n] /\ res.granted
           /\ IF Elected(voters) THEN BecomeLeader(n)
              ELSE /\ granted' = [granted EXCEPT ![n] = voters]
                   /\ UNCHANGED <<role, won, match, log>>
           /\ UNCHANGED <<term, votedFor, election>>
  <2> DEFINE t == election[n]
  <2>1. t \in 1 .. MaxTerm /\ n \in ballots[t][m]
    BY <1>0, <1>1, <1>6 DEF GrantedInv, Backed
  <2>2. voters \in SUBSET Node /\ \A i \in voters : n \in ballots[t][i]
    BY <1>0, <2>1 DEF GrantedInv, VoteTypes
  <2>3. CASE Elected(voters)
    <3>1. BecomeLeader(n)
      BY <1>6, <2>3
    <3>2. VoteTypes'
      <4>1. role' \in [Node -> Roles] /\ granted' \in [Node -> SUBSET Node]
        BY <1>0, <3>1 DEF BecomeLeader, VoteTypes, Roles
      <4>2. won' \in [1 .. MaxTerm -> SUBSET Node]
        <5>1. won[t] \cup {n} \in SUBSET Node
          BY <1>0, <2>1 DEF VoteTypes
        <5> QED
          BY <1>0, <3>1, <5>1 DEF BecomeLeader, VoteTypes
      <4> QED
        BY <1>0, <1>2, <1>6, <4>1, <4>2 DEF VoteTypes
    <3>3. GrantedInv'
      BY <1>0, <1>2, <1>6, <3>1 DEF BecomeLeader, GrantedInv, VoteTypes
    <3>4. WonInv'
      <4>1. Cardinality(Voters(n, t)) >= Majority
        <5>1. voters \in SUBSET Voters(n, t) /\ Voters(n, t) \in SUBSET Node
          BY <2>2 DEF Voters
        <5>2. Cardinality(voters) \in Nat /\ Cardinality(Voters(n, t)) \in Nat
              /\ Cardinality(voters) <= Cardinality(Voters(n, t))
          <6> HIDE DEF voters
          <6> QED
            BY <5>1, VotersFinite
        <5>3. Cardinality(voters) >= Majority
          BY <2>3 DEF Elected
        <5> HIDE DEF voters, t
        <5> QED
          BY <5>2, <5>3, MajorityNat
      <4>2. \A u \in 1 .. MaxTerm : \A i \in won'[u] : i \in won[u] \/ (i = n /\ u = t)
        BY <1>0, <2>1, <3>1 DEF BecomeLeader, VoteTypes
      <4>3. Voters(n, t)' = Voters(n, election[n])
        BY <1>2, <1>6 DEF Voters
      <4> QED
        BY <1>0, <1>2, <4>1, <4>2 DEF WonInv, Voters, Majority
    <3>5. StoreTypes'
      <4>1. IsPosition(Last(n))
        BY <1>0, LastPosition DEF StoreTypes, Last
      <4>2. IsLog(Entry(Last(n).index + 1, term[n], None))
        <5>1. Last(n).index + 1 \in Nat
          BY <4>1 DEF IsPosition
        <5> QED
          BY <1>3, <5>1, EntryLog
      <4>3. IsLog(Extend(log[n], Entry(Last(n).index + 1, term[n], None)))
        BY <1>0, <4>2, ExtendLog DEF StoreTypes
      <4>4. log' = [log EXCEPT ![n] = Extend(log[n], Entry(Last(n).index + 1, term[n], None))]
        BY <3>1 DEF BecomeLeader
      <4> QED
        BY <1>0, <1>2, <4>3, <4>4 DEF StoreTypes
    <3>6. BallotsInv' /\ VoteKeptStep
      BY <1>0, <1>2, <1>6 DEF BallotsInv, VoteKeptStep, VoteTypes
    <3>7. LinkTypes' /\ AnswersInv'
      BY <1>7
    <3> QED
      BY <3>2, <3>3, <3>4, <3>5, <3>6, <3>7 DEF Inv, Types, VotesInv
  <2>4. CASE ~ Elected(voters)
    <3>1. granted' = [granted EXCEPT ![n] = voters] /\ UNCHANGED <<role, won, match, log>>
      BY <1>6, <2>4
    <3>2. VoteTypes'
      <4> HIDE DEF voters
      <4>1. granted' \in [Node -> SUBSET Node]
        BY <1>0, <2>2, <3>1 DEF VoteTypes
      <4> QED
        BY <1>0, <1>2, <1>6, <3>1, <4>1 DEF VoteTypes
    <3>3. GrantedInv'
      <4>1. role[n] = "Candidate" /\ election' = election
        BY <1>6
      <4> HIDE DEF voters
      <4> QED
        BY <1>0, <1>2, <2>2, <3>1, <4>1 DEF GrantedInv, VoteTypes
    <3>4. WonInv' /\ BallotsInv' /\ VoteKeptStep
      BY <1>0, <1>2, <1>6, <3>1 DEF WonInv, Voters, Majority, BallotsInv, VoteKeptStep, VoteTypes
    <3>5. StoreTypes'
      BY <1>0, <1>2, <3>1 DEF StoreTypes
    <3>6. LinkTypes' /\ AnswersInv'
      BY <1>7
    <3> QED
      BY <3>2, <3>3, <3>4, <3>5, <3>6 DEF Inv, Types, VotesInv
  <2> QED
    BY <2>3, <2>4
<1> QED
  BY <1>4, <1>5, <1>6, Zenon DEF OnResRequestVote, Expected

-----------------------------------------------------------------------------
(* Replication, the chain and failures. *)

(* A step that sends nothing and leaves the votes alone *)
LEMMA QuietInv ==
  ASSUME Inv, NEW n \in Node, UNCHANGED voteVars, StoreTypes', chan' = chan
  PROVE  Inv' /\ VoteKeptStep
<1>1. Links(chan) /\ VoteTypes
  BY DEF Inv, Types, LinkTypes
<1>2. Sends(chan, chan', n, {}, {}) /\ KeepsVotes(n)
  BY <1>1, SendsNothing, UnchangedKeeps
<1>3. \A x \in {} : MessageType(x) /\ ~ (x.type = "VoteRes" /\ x.granted)
  OBVIOUS
<1> QED
  BY <1>2, <1>3, KeepsInv

LEMMA WorkInv ==
  ASSUME Inv, NEW n \in Node, Work(n)
  PROVE  Inv' /\ VoteKeptStep
<1>0. VoteTypes /\ StoreTypes
  BY DEF Inv, Types
<1>1. PICK b : log' = [log EXCEPT ![n] = Extend(@, Entry(Last(n).index + 1, term[n], b))]
  BY DEF Work
<1>2. IsPosition(Last(n)) /\ term[n] \in Nat
  BY <1>0, LastPosition DEF StoreTypes, Last, VoteTypes
<1>3. IsLog(Entry(Last(n).index + 1, term[n], b))
  BY <1>2, EntryLog DEF IsPosition
<1>4. IsLog(Extend(log[n], Entry(Last(n).index + 1, term[n], b)))
  BY <1>0, <1>3, ExtendLog DEF StoreTypes
<1>5. StoreTypes'
  BY <1>0, <1>1, <1>4 DEF StoreTypes, Work, chainVars
<1> QED
  BY <1>5, QuietInv DEF Work

LEMMA ReplicateInv ==
  ASSUME Inv, NEW n \in Node, NEW m \in Others(n), Replicate(n, m)
  PROVE  Inv' /\ VoteKeptStep
<1> DEFINE req == [type |-> "AppendReq", id |-> election[n], term |-> term[n], prev |-> match[n][m],
                   commit |-> commit[n], entries |-> From(log[n], match[n][m].index + 1)]
<1>0. VoteTypes /\ StoreTypes /\ Links(chan) /\ m \in Node
  BY DEF Inv, Types, LinkTypes, Others
<1>1. MessageType(req)
  <2>1. IsLog(From(log[n], match[n][m].index + 1)) /\ term[n] \in Nat
    BY <1>0, RestrictLog DEF StoreTypes, VoteTypes
  <2> QED
    BY <2>1 DEF MessageType
<1>2. ~ (req.type = "VoteRes" /\ req.granted)
  OBVIOUS
<1>3. chan' = [chan EXCEPT ![n][m] = Append(@, req)]
  BY DEF Replicate
<1> HIDE DEF req
<1>4. Sends(chan, chan', n, {m}, {req})
  BY <1>0, <1>3, SendOne
<1>5. StoreTypes' /\ KeepsVotes(n)
  BY <1>0, UnchangedKeeps DEF StoreTypes, Replicate, logVars, chainVars
<1>6. \A x \in {req} : MessageType(x) /\ ~ (x.type = "VoteRes" /\ x.granted)
  BY <1>1, <1>2
<1> QED
  BY <1>4, <1>5, <1>6, KeepsInv

(* Messages that carry neither a vote nor a term *)
Plain(S) == \A x \in S : x.type \in {"AppendRes", "ProposalReq", "ProposalRes"}

LEMMA PlainMessages ==
  ASSUME NEW S, Plain(S)
  PROVE  \A x \in S : MessageType(x) /\ ~ (x.type = "VoteRes" /\ x.granted)
BY DEF Plain, MessageType

(* The answer of on_req_append_entries, with a request for the proposal before
   it or without *)
LEMMA TwoAnswers ==
  ASSUME Links(chan), NEW n \in Node, NEW m \in Node, chan[m][n] # << >>, NEW a, NEW b,
         chan' = [Taken(n, m) EXCEPT ![n][m] = @ \o <<a, b>>]
  PROVE  Sends(chan, chan', n, {m}, {a, b})
<1> DEFINE c == Taken(n, m)
           d == [c EXCEPT ![n][m] = Append(@, a)]
           e == [d EXCEPT ![n][m] = Append(@, b)]
<1>1. Sends(chan, c, n, {m}, {}) /\ Links(c)
  BY TakenLinks DEF Sends
<1> HIDE DEF c
<1>2. Sends(c, d, n, {m}, {a}) /\ Links(d)
  BY <1>1, SendOne DEF Sends
<1>3. Sends(d, e, n, {m}, {b})
  <2> HIDE DEF d
  <2> QED
    BY <1>2, SendOne
<1>4. chan' = e
  <2>1. PICK S : c \in [Node -> [Node -> Seq(S)]]
    BY <1>1 DEF Links
  <2>2. c[n][m] \o <<a, b>> = Append(Append(c[n][m], a), b)
    <3>1. c[n][m] \in Seq(S)
      BY <2>1
    <3>2. \A q \in Seq(S) : q \o <<a, b>> = Append(Append(q, a), b)
      OBVIOUS
    <3> QED
      BY <3>1, <3>2
  <2>3. chan' = [c EXCEPT ![n][m] = c[n][m] \o <<a, b>>]
    BY DEF c
  <2> QED
    BY <2>1, <2>2, <2>3
<1>5. Sends(chan, d, n, {m}, {a})
  <2> HIDE DEF d
  <2> QED
    BY <1>1, <1>2, SendsAfter
<1>6. Sends(chan, e, n, {m}, {a} \cup {b})
  <2> HIDE DEF d, e
  <2> QED
    BY <1>3, <1>5, SendsMore
<1>7. {a} \cup {b} = {a, b}
  OBVIOUS
<1> QED
  BY <1>4, <1>6, <1>7

LEMMA PlainAnswer ==
  ASSUME Links(chan), NEW n \in Node, NEW m \in Node, chan[m][n] # << >>, NEW res,
         Answer(n, m, res), res.type \in {"AppendRes", "ProposalReq", "ProposalRes"}
  PROVE  \E S : Plain(S) /\ Sends(chan, chan', n, {m}, S)
<1>1. Sends(chan, chan', n, {m}, {res})
  BY AnswerLinks
<1>2. Plain({res})
  BY DEF Plain
<1> QED
  BY <1>1, <1>2

LEMMA PerformAppendStep ==
  ASSUME Links(chan), StoreTypes, NEW n \in Node, NEW m \in Node, chan[m][n] # << >>,
         NEW req, IsLog(req.entries), NEW lg, IsLog(lg), PerformAppend(n, m, req, lg)
  PROVE  /\ \E l : IsLog(l) /\ log' = [log EXCEPT ![n] = l]
         /\ \E S : Plain(S) /\ Sends(chan, chan', n, {m}, S)
<1> DEFINE b == FirstBlock(req.entries)
           stored == IF proposal[n] = b THEN b ELSE None
           waiting == IF pending[n] = b THEN b ELSE None
<1>1. IsLog(Extend(lg, req.entries))
  BY ExtendLog
<1>2. ASSUME NEW s, NEW t, NEW l, Answer(n, m, AppendRes(req, s, t, l))
      PROVE  \E S : Plain(S) /\ Sends(chan, chan', n, {m}, S)
  <2>1. AppendRes(req, s, t, l).type = "AppendRes"
    BY DEF AppendRes
  <2> QED
    BY <1>2, <2>1, PlainAnswer
<1>3. CASE b = None
  <2>1. /\ log' = [log EXCEPT ![n] = Extend(lg, req.entries)]
        /\ Answer(n, m, AppendRes(req, TRUE, req.term, LastOf(log'[n], base[n])))
    BY <1>3, Zenon DEF PerformAppend
  <2> QED
    BY <1>1, <1>2, <2>1
<1>4. CASE b # None
  <2>1. PICK verdict \in IF waiting = None THEN {"Discard"} ELSE Verdicts(n, waiting) :
          LET known == IF verdict = "Ok" THEN waiting ELSE stored
              still == IF verdict = "Wait" THEN waiting ELSE None
          IN /\ proposal' = [proposal EXCEPT ![n] = known]
             /\ pending' = [pending EXCEPT ![n] = still]
             /\ params' = [params EXCEPT ![n] = IF verdict = "Ok" THEN waiting ELSE @]
             /\ IF known # None
                THEN /\ log' = [log EXCEPT ![n] = Extend(lg, req.entries)]
                     /\ Answer(n, m, AppendRes(req, TRUE, req.term, LastOf(log'[n], base[n])))
                ELSE /\ log' = [log EXCEPT ![n] = lg]
                     /\ \E asks \in IF still = None THEN BOOLEAN ELSE {FALSE} :
                          LET res == AppendRes(req, FALSE, req.term, LastOf(lg, base[n]))
                          IN chan' = [Taken(n, m) EXCEPT ![n][m] =
                               IF asks THEN @ \o << [type |-> "ProposalReq"], res >>
                                       ELSE Append(@, res)]
    BY <1>4, Zenon DEF PerformAppend
  <2> DEFINE known == IF verdict = "Ok" THEN waiting ELSE stored
             res == AppendRes(req, FALSE, req.term, LastOf(lg, base[n]))
  <2>2. CASE known # None
    BY <1>1, <1>2, <2>1, <2>2
  <2>3. CASE known = None
    <3>1. /\ log' = [log EXCEPT ![n] = lg]
          /\ \E asks \in BOOLEAN :
               chan' = [Taken(n, m) EXCEPT ![n][m] =
                 IF asks THEN @ \o << [type |-> "ProposalReq"], res >> ELSE Append(@, res)]
      BY <2>1, <2>3
    <3>2. \/ chan' = [Taken(n, m) EXCEPT ![n][m] = @ \o << [type |-> "ProposalReq"], res >>]
          \/ Answer(n, m, res)
      BY <3>1 DEF Answer
    <3>3. ASSUME chan' = [Taken(n, m) EXCEPT ![n][m] = @ \o << [type |-> "ProposalReq"], res >>]
          PROVE  \E S : Plain(S) /\ Sends(chan, chan', n, {m}, S)
      <4> DEFINE ask == [type |-> "ProposalReq"]
      <4>1. ask.type = "ProposalReq" /\ res.type = "AppendRes"
        BY DEF AppendRes
      <4>2. chan' = [Taken(n, m) EXCEPT ![n][m] = @ \o <<ask, res>>]
        BY <3>3
      <4> HIDE DEF ask, res
      <4>3. Sends(chan, chan', n, {m}, {ask, res})
        BY <4>2, TwoAnswers
      <4>4. Plain({ask, res})
        BY <4>1 DEF Plain
      <4> QED
        BY <4>3, <4>4
    <3> QED
      BY <1>2, <3>1, <3>2, <3>3
  <2> QED
    BY <2>2, <2>3
<1> QED
  BY <1>3, <1>4

(* on_req_append_entries: a leader of a later term is followed, and the vote
   forgotten with the term. *)
LEMMA ReqAppendInv ==
  ASSUME Inv, NEW n \in Node, NEW m \in Others(n), OnReqAppendEntries(n, m)
  PROVE  Inv' /\ VoteKeptStep
<1> DEFINE req == Head(chan[m][n])
<1>0. VoteTypes /\ StoreTypes /\ LinkTypes /\ m \in Node
  BY DEF Inv, Types, Others
<1>1. /\ chan[m][n] # << >> /\ Links(chan)
      /\ req.term \in Nat /\ IsLog(req.entries)
  BY <1>0, FirstMessage DEF OnReqAppendEntries, MessageType
<1>2. ballots' = ballots /\ won' = won /\ base' = base /\ chain' = chain
  BY DEF OnReqAppendEntries, chainVars
<1>3. term[n] \in Nat /\ votedFor[n] \in Node \cup {None}
  BY <1>0 DEF VoteTypes
<1> DEFINE LogDone == DOMAIN log' = Node /\ \A i \in Node : IsLog(log'[i])
<1>4. ASSUME LogDone PROVE StoreTypes'
  BY <1>0, <1>2, <1>4 DEF StoreTypes
<1>5. IsLog(log[n]) /\ DOMAIN log = Node /\ \A i \in Node : IsLog(log[i])
  BY <1>0 DEF StoreTypes
<1> DEFINE Refuse(success, last) == /\ Answer(n, m, AppendRes(req, success, term[n], last))
                                    /\ UNCHANGED <<log, blockVars>>
           Done == /\ LogDone
                   /\ \E S : Plain(S) /\ Sends(chan, chan', n, {m}, S)
<1>6. ASSUME NEW s, NEW l, Refuse(s, l) PROVE Done
  <2>1. AppendRes(req, s, term[n], l).type = "AppendRes"
    BY DEF AppendRes
  <2>2. \E S : Plain(S) /\ Sends(chan, chan', n, {m}, S)
    <3> DEFINE res == AppendRes(req, s, term[n], l)
    <3>1. Answer(n, m, res)
      BY <1>6
    <3> HIDE DEF res
    <3> QED
      BY <1>0, <1>1, <2>1, <3>1, PlainAnswer DEF res
  <2>3. log' = log
    BY <1>6
  <2> QED
    BY <1>5, <2>2, <2>3
<1>7. ASSUME NEW lg, IsLog(lg), PerformAppend(n, m, req, lg) PROVE Done
  <2> HIDE DEF req
  <2>1. PICK l : IsLog(l) /\ log' = [log EXCEPT ![n] = l]
    BY <1>0, <1>1, <1>7, PerformAppendStep
  <2>2. LogDone
    BY <1>5, <2>1
  <2> QED
    BY <1>0, <1>1, <1>7, <2>2, PerformAppendStep
<1>8. ASSUME KeepsVotes(n), Done PROVE Inv' /\ VoteKeptStep
  <2>1. PICK S : Plain(S) /\ Sends(chan, chan', n, {m}, S)
    BY <1>8
  <2>2. StoreTypes'
    BY <1>4, <1>8
  <2> QED
    BY <1>8, <2>1, <2>2, PlainMessages, KeepsInv
<1>9. CASE /\ req.term < term[n]
           /\ Refuse(FALSE, Last(n))
           /\ UNCHANGED <<term, votedFor, role, election, granted, match, commit>>
  <2>1. KeepsVotes(n)
    BY <1>0, <1>2, <1>9, UnchangedKeeps DEF voteVars
  <2> HIDE DEF Done, Refuse
  <2> QED
    BY <1>6, <1>8, <1>9, <2>1
<1> DEFINE Arms ==
             CASE DOMAIN req.entries = {} -> Refuse(TRUE, Last(n))
               [] DOMAIN req.entries # {} /\ Min(DOMAIN req.entries) # req.prev.index + 1
                    -> Refuse(FALSE, Last(n))
               [] DOMAIN req.entries # {} /\ Min(DOMAIN req.entries) = req.prev.index + 1
                    -> IF req.prev = Last(n) THEN PerformAppend(n, m, req, log[n])
                       ELSE IF PrevExists(n, req.prev)
                       THEN PerformAppend(n, m, req, UpTo(log[n], req.prev.index))
                       ELSE Refuse(FALSE, base[n])
<1>10. CASE /\ req.term >= term[n]
            /\ term' = [term EXCEPT ![n] = req.term]
            /\ votedFor' = [votedFor EXCEPT ![n] = IF req.term > term[n] THEN None ELSE @]
            /\ BecomeFollower(n)
            /\ Arms
  <2>1. KeepsVotes(n)
    <3> DEFINE v == IF req.term > term[n] THEN None ELSE votedFor[n]
    <3>1. v \in Node \cup {None} /\ (req.term = term[n] => v = votedFor[n])
      BY <1>3
    <3>2. votedFor' = [votedFor EXCEPT ![n] = v]
      BY <1>10
    <3>3. /\ role' = [role EXCEPT ![n] = "Follower"]
          /\ election' = [election EXCEPT ![n] = 0]
          /\ granted' = [granted EXCEPT ![n] = {}]
      BY <1>10 DEF BecomeFollower
    <3> HIDE DEF v, req
    <3> QED
      BY <1>1, <1>2, <1>10, <3>1, <3>2, <3>3 DEF KeepsVotes
  <2>2. IsLog(UpTo(log[n], req.prev.index))
    BY <1>5, RestrictLog
  <2>3. Done
    <3>1. \/ \E s, l : Refuse(s, l)
          \/ PerformAppend(n, m, req, log[n])
          \/ PerformAppend(n, m, req, UpTo(log[n], req.prev.index))
      <4>1. CASE DOMAIN req.entries = {}
        BY <1>10, <4>1
      <4>2. CASE DOMAIN req.entries # {} /\ Min(DOMAIN req.entries) # req.prev.index + 1
        BY <1>10, <4>2
      <4>3. CASE DOMAIN req.entries # {} /\ Min(DOMAIN req.entries) = req.prev.index + 1
        BY <1>10, <4>3
      <4> QED
        BY <4>1, <4>2, <4>3
    <3> HIDE DEF Done, Refuse
    <3> QED
      BY <1>5, <1>6, <1>7, <2>2, <3>1
  <2> QED
    BY <1>8, <2>1, <2>3
<1> QED
  BY <1>9, <1>10, Zenon DEF OnReqAppendEntries

LEMMA ResAppendInv ==
  ASSUME Inv, NEW n \in Node, NEW m \in Others(n), OnResAppendEntries(n, m)
  PROVE  Inv' /\ VoteKeptStep
<1>0. VoteTypes /\ StoreTypes /\ LinkTypes /\ m \in Node
  BY DEF Inv, Types, Others
<1>1. chan[m][n] # << >> /\ chan' = Taken(n, m)
  BY DEF OnResAppendEntries, First
<1>2. StoreTypes'
  BY <1>0 DEF OnResAppendEntries, chainVars, StoreTypes
<1>3. UNCHANGED <<term, votedFor, ballots, won>> /\ LeavesCandidacy(n)
  BY DEF OnResAppendEntries, LeavesCandidacy, BecomeFollower
<1>4. KeepsVotes(n)
  <2>1. term[n] \in Nat /\ votedFor[n] \in Node \cup {None} /\ term[n] >= term[n]
    BY <1>0 DEF VoteTypes
  <2>2. term = [term EXCEPT ![n] = term[n]] /\ votedFor = [votedFor EXCEPT ![n] = votedFor[n]]
    BY <1>0 DEF VoteTypes
  <2> QED
    BY <1>3, <2>1, <2>2 DEF KeepsVotes, LeavesCandidacy
<1> QED
  BY <1>0, <1>1, <1>2, <1>4, TakesInv

LEMMA ReqProposalInv ==
  ASSUME Inv, NEW n \in Node, NEW m \in Others(n), OnReqRequestProposal(n, m)
  PROVE  Inv' /\ VoteKeptStep
<1>0. VoteTypes /\ StoreTypes /\ LinkTypes /\ Links(chan) /\ m \in Node
  BY DEF Inv, Types, LinkTypes, Others
<1>1. chan[m][n] # << >>
  BY DEF OnReqRequestProposal, First
<1>2. StoreTypes' /\ KeepsVotes(n)
  BY <1>0, UnchangedKeeps DEF OnReqRequestProposal, logVars, chainVars, StoreTypes
<1>3. CASE chan' = Taken(n, m)
  BY <1>0, <1>1, <1>2, <1>3, TakesInv
<1>4. CASE Answer(n, m, [type |-> "ProposalRes", block |-> proposal[n]])
  <2> DEFINE res == [type |-> "ProposalRes", block |-> proposal[n]]
  <2>1. res.type = "ProposalRes" /\ Answer(n, m, res)
    BY <1>4
  <2> HIDE DEF res
  <2>2. PICK S : Plain(S) /\ Sends(chan, chan', n, {m}, S)
    BY <1>0, <1>1, <2>1, PlainAnswer
  <2> QED
    BY <1>2, <2>2, PlainMessages, KeepsInv
<1> QED
  BY <1>3, <1>4 DEF OnReqRequestProposal

LEMMA ResProposalInv ==
  ASSUME Inv, NEW n \in Node, NEW m \in Others(n), OnResRequestProposal(n, m)
  PROVE  Inv' /\ VoteKeptStep
<1>0. VoteTypes /\ StoreTypes /\ m \in Node
  BY DEF Inv, Types, Others
<1>1. chan[m][n] # << >> /\ chan' = Taken(n, m)
  BY DEF OnResRequestProposal, First
<1>2. StoreTypes' /\ KeepsVotes(n)
  BY <1>0, UnchangedKeeps DEF OnResRequestProposal, logVars, chainVars, StoreTypes
<1> QED
  BY <1>0, <1>1, <1>2, TakesInv

(* on_log_updated: the proof of a committed block is the end of the log. *)
LEMMA LogUpdatedInv ==
  ASSUME Inv, NEW n \in Node, OnLogUpdated(n)
  PROVE  Inv' /\ VoteKeptStep
<1>0. VoteTypes /\ StoreTypes
  BY DEF Inv, Types
<1>1. IsPosition(Last(n))
  BY <1>0, LastPosition DEF StoreTypes, Last
<1>2. \/ chain' = chain
      \/ \E b : chain' = [chain EXCEPT ![n] = Append(@,
                            [block |-> b, index |-> Last(n).index, term |-> Last(n).term])]
  BY DEF OnLogUpdated
<1>3. IsChains(chain')
  BY <1>0, <1>1, <1>2, ChainExtended DEF StoreTypes, IsPosition
<1>4. StoreTypes'
  BY <1>0, <1>3 DEF StoreTypes, OnLogUpdated, logVars
<1> QED
  BY <1>4, QuietInv DEF OnLogUpdated

LEMMA SyncInv ==
  ASSUME Inv, NEW n \in Node, NEW m \in Others(n), Sync(n, m)
  PROVE  Inv' /\ VoteKeptStep
<1>0. VoteTypes /\ StoreTypes /\ m \in Node
  BY DEF Inv, Types, Others
<1>1. PICK S : chain \in [Node -> Seq([block : S, index : Nat, term : Nat])]
  BY <1>0 DEF StoreTypes, IsChains
<1> DEFINE E == [block : S, index : Nat, term : Nat]
<1>2. chain' \in [Node -> Seq(E)]
  <2>0. chain \in [Node -> Seq(E)]
    BY <1>1
  <2> HIDE DEF E
  <2>1. chain[n] \in Seq(E) /\ chain[m] \in Seq(E) /\ Len(chain[m]) > Len(chain[n])
    BY <1>0, <2>0 DEF Sync
  <2>2. chain[m][Len(chain[n]) + 1] \in E
    BY <2>1
  <2>3. chain' = [chain EXCEPT ![n] = Append(chain[n], chain[m][Len(chain[n]) + 1])]
    BY DEF Sync
  <2>4. Append(chain[n], chain[m][Len(chain[n]) + 1]) \in Seq(E)
    BY <2>1, <2>2
  <2> QED
    BY <2>0, <2>3, <2>4
<1>3. StoreTypes'
  BY <1>0, <1>2 DEF StoreTypes, IsChains, Sync, logVars
<1> QED
  BY <1>3, QuietInv DEF Sync

LEMMA BlockCommittedInv ==
  ASSUME Inv, NEW n \in Node, OnBlockCommitted(n)
  PROVE  Inv' /\ VoteKeptStep
<1>0. VoteTypes /\ StoreTypes /\ Links(chan)
  BY DEF Inv, Types, LinkTypes
<1>1. Refresh(n, term[n], commit[n]) /\ term[n] \in Nat /\ term[n] >= term[n]
  BY <1>0 DEF OnBlockCommitted, VoteTypes
<1>2. /\ \E u \in Nat, v \in Node \cup {None} :
              /\ u >= term[n]
              /\ u = term[n] => v = votedFor[n]
              /\ term' = [term EXCEPT ![n] = u]
              /\ votedFor' = [votedFor EXCEPT ![n] = v]
      /\ DOMAIN log' = Node /\ \A i \in Node : IsLog(log'[i])
      /\ DOMAIN base' = Node /\ \A i \in Node : IsPosition(base'[i])
  BY <1>0, <1>1, RefreshStep
<1>3. KeepsVotes(n)
  BY <1>2 DEF KeepsVotes, OnBlockCommitted
<1>4. StoreTypes'
  BY <1>0, <1>2 DEF StoreTypes, OnBlockCommitted
<1>5. Sends(chan, chan', n, {}, {})
  BY <1>0, SendsNothing DEF OnBlockCommitted
<1>6. \A x \in {} : MessageType(x) /\ ~ (x.type = "VoteRes" /\ x.granted)
  OBVIOUS
<1> QED
  BY <1>3, <1>4, <1>5, <1>6, KeepsInv

(* Links that are cleared *)
LEMMA ClearedLinks ==
  ASSUME Links(chan), NEW d, DOMAIN d = Node,
         \A i \in Node : DOMAIN d[i] = Node,
         d = [i \in Node |-> [j \in Node |-> d[i][j]]],
         \A i, j \in Node : d[i][j] = chan[i][j] \/ d[i][j] = << >>,
         NEW n
  PROVE  Sends(chan, d, n, {}, {})
<1>1. PICK S : chan \in [Node -> [Node -> Seq(S)]]
  BY DEF Links
<1>2. \A i, j \in Node : d[i][j] \in Seq(S)
  <2>1. << >> \in Seq(S) /\ \A i, j \in Node : chan[i][j] \in Seq(S)
    BY <1>1
  <2> SUFFICES ASSUME NEW i \in Node, NEW j \in Node PROVE d[i][j] \in Seq(S)
    OBVIOUS
  <2>2. CASE d[i][j] = chan[i][j]
    BY <2>1, <2>2
  <2>3. CASE d[i][j] = << >>
    BY <2>1, <2>3
  <2> QED
    BY <2>2, <2>3
<1>3. d \in [Node -> [Node -> Seq(S)]]
  BY <1>2
<1>4. \A i, j \in Node : Carried(d, i, j) \subseteq Carried(chan, i, j)
  BY DEF Carried
<1> QED
  BY <1>3, <1>4 DEF Sends, Links

LEMMA DisconnectInv ==
  ASSUME Inv, NEW n \in Node, NEW m \in Others(n), Disconnect(n, m)
  PROVE  Inv' /\ VoteKeptStep
<1>0. VoteTypes /\ StoreTypes /\ Links(chan) /\ m \in Node
  BY DEF Inv, Types, LinkTypes, Others
<1>1. PICK S : chan \in [Node -> [Node -> Seq(S)]]
  BY <1>0 DEF Links
<1>2. /\ chan' \in [Node -> [Node -> Seq(S)]]
      /\ \A i, j \in Node : chan'[i][j] = chan[i][j] \/ chan'[i][j] = << >>
  <2> DEFINE c == [chan EXCEPT ![n][m] = << >>]
  <2>1. /\ c \in [Node -> [Node -> Seq(S)]]
        /\ \A i, j \in Node : c[i][j] = chan[i][j] \/ c[i][j] = << >>
    BY <1>0, <1>1
  <2>2. chan' = [c EXCEPT ![m][n] = << >>]
    BY DEF Disconnect
  <2> HIDE DEF c
  <2>3. chan' \in [Node -> [Node -> Seq(S)]]
    BY <1>0, <2>1, <2>2
  <2>4. \A i, j \in Node : chan'[i][j] = c[i][j] \/ chan'[i][j] = << >>
    BY <1>0, <2>1, <2>2
  <2> QED
    BY <2>1, <2>3, <2>4
<1>3. Sends(chan, chan', n, {}, {})
  BY <1>0, <1>2, ClearedLinks
<1>4. StoreTypes' /\ KeepsVotes(n)
  BY <1>0, UnchangedKeeps DEF Disconnect, logVars, chainVars, StoreTypes
<1>5. \A x \in {} : MessageType(x) /\ ~ (x.type = "VoteRes" /\ x.granted)
  OBVIOUS
<1> QED
  BY <1>3, <1>4, <1>5, KeepsInv

(* A crash finds a term at or above the current one: the writes under way raise
   it or leave it. *)
LEMMA PartialTerm ==
  ASSUME VoteTypes, LinkTypes, NEW n \in Node, NEW w \in PartialWrites(n)
  PROVE  w.term \in Nat /\ w.term >= term[n]
<1>1. term[n] \in Nat
  BY DEF VoteTypes
<1>2. ASSUME NEW h \in Heads(n), h.type \in {"VoteReq", "VoteRes", "AppendReq"}
      PROVE  h.term \in Nat
  <2>1. PICK m \in Others(n) : chan[m][n] # << >> /\ h = Head(chan[m][n])
    BY DEF Heads
  <2>2. h \in Carried(chan, m, n)
    BY <2>1, TakenLinks DEF LinkTypes, Others
  <2>3. MessageType(h)
    BY <2>1, <2>2 DEF LinkTypes, Others
  <2> QED
    BY <1>2, <2>3 DEF MessageType
<1>3. \/ w = [term |-> term[n], commit |-> commit[n]]
      \/ \E h \in Heads(n) : /\ h.type = "AppendReq" /\ h.term >= term[n]
                             /\ \E t \in {term[n], h.term} : w = [term |-> t, commit |-> h.commit]
      \/ \E h \in Heads(n) : /\ h.type \in {"VoteReq", "VoteRes"} /\ h.term > term[n]
                             /\ w = [term |-> h.term, commit |-> commit[n]]
      \/ w = [term |-> term[n] + 1, commit |-> commit[n]]
  <2> DEFINE A == {[term |-> term[n], commit |-> commit[n]]}
             B == UNION {{[term |-> t, commit |-> m.commit] : t \in {term[n], m.term}} :
                          m \in {h \in Heads(n) : h.type = "AppendReq" /\ h.term >= term[n]}}
             C == {[term |-> m.term, commit |-> commit[n]] :
                     m \in {h \in Heads(n) : h.type \in {"VoteReq", "VoteRes"} /\ h.term > term[n]}}
             D == {[term |-> t, commit |-> commit[n]] :
                     t \in {t \in {term[n] + 1} : t <= MaxTerm /\ ElectionTimeout(n)}}
  <2>1. w \in A \/ w \in B \/ w \in C \/ w \in D
    <3>1. PartialWrites(n) = A \cup B \cup C \cup D
      BY DEF PartialWrites
    <3> HIDE DEF A, B, C, D
    <3> QED
      BY <3>1
  <2>2. ASSUME w \in B
        PROVE  \E h \in Heads(n) : /\ h.type = "AppendReq" /\ h.term >= term[n]
                                   /\ \E t \in {term[n], h.term} : w = [term |-> t, commit |-> h.commit]
    BY <2>2, Zenon
  <2>3. ASSUME w \in C
        PROVE  \E h \in Heads(n) : /\ h.type \in {"VoteReq", "VoteRes"} /\ h.term > term[n]
                                   /\ w = [term |-> h.term, commit |-> commit[n]]
    BY <2>3, Zenon
  <2>4. w \in A => w = [term |-> term[n], commit |-> commit[n]]
    OBVIOUS
  <2>5. w \in D => w = [term |-> term[n] + 1, commit |-> commit[n]]
    OBVIOUS
  <2> HIDE DEF A, B, C, D
  <2> QED
    BY <2>1, <2>2, <2>3, <2>4, <2>5, Zenon
<1> QED
  BY <1>1, <1>2, <1>3

LEMMA CrashInv ==
  ASSUME Inv, NEW n \in Node, Crash(n)
  PROVE  Inv' /\ VoteKeptStep
<1>0. VoteTypes /\ StoreTypes /\ Links(chan) /\ LinkTypes
  BY DEF Inv, Types, LinkTypes
<1>1. PICK w \in PartialWrites(n) : Refresh(n, w.term, w.commit)
  BY DEF Crash
<1>2. w.term \in Nat /\ w.term >= term[n]
  BY <1>0, PartialTerm
<1>3. /\ \E u \in Nat, v \in Node \cup {None} :
              /\ u >= term[n]
              /\ u = term[n] => v = votedFor[n]
              /\ term' = [term EXCEPT ![n] = u]
              /\ votedFor' = [votedFor EXCEPT ![n] = v]
      /\ DOMAIN log' = Node /\ \A i \in Node : IsLog(log'[i])
      /\ DOMAIN base' = Node /\ \A i \in Node : IsPosition(base'[i])
  BY <1>0, <1>1, <1>2, RefreshStep
<1>4. KeepsVotes(n)
  <2>1. /\ role' = [role EXCEPT ![n] = "Follower"]
        /\ election' = [election EXCEPT ![n] = 0]
        /\ granted' = [granted EXCEPT ![n] = {}]
        /\ UNCHANGED <<ballots, won>>
    BY DEF Crash, BecomeFollower
  <2> QED
    BY <1>3, <2>1 DEF KeepsVotes
<1>5. StoreTypes'
  BY <1>0, <1>3 DEF StoreTypes, Crash
<1>6. Sends(chan, chan', n, {}, {})
  <2>1. chan' = [i \in Node |-> [j \in Node |-> IF n \in {i, j} THEN << >> ELSE chan[i][j]]]
    BY DEF Crash
  <2> QED
    BY <1>0, <2>1, ClearedLinks
<1>7. \A x \in {} : MessageType(x) /\ ~ (x.type = "VoteRes" /\ x.granted)
  OBVIOUS
<1> QED
  BY <1>4, <1>5, <1>6, <1>7, KeepsInv

-----------------------------------------------------------------------------
LEMMA InitInv == Init => Inv
<1> SUFFICES ASSUME Init PROVE Inv
  OBVIOUS
<1>1. VoteTypes
  BY DEF Init, VoteTypes, Roles
<1>2. StoreTypes
  <2>1. IsLog(EmptyLog) /\ IsPosition(Genesis)
    BY FS_EmptySet DEF IsLog, EmptyLog, IsPosition, Genesis
  <2>2. chain \in [Node -> Seq([block : {}, index : Nat, term : Nat])]
    <3> DEFINE E == [block : {}, index : Nat, term : Nat]
    <3> HIDE DEF E
    <3>1. << >> \in Seq(E)
      OBVIOUS
    <3>2. chain \in [Node -> Seq(E)]
      BY <3>1 DEF Init
    <3> QED
      BY <3>2 DEF E
  <2> QED
    BY <2>1, <2>2 DEF Init, StoreTypes, IsChains
<1>3. chan \in [Node -> [Node -> Seq({})]] /\ \A m, n \in Node : Carried(chan, m, n) = {}
  BY DEF Init, Carried
<1>4. LinkTypes /\ AnswersInv
  BY <1>3 DEF LinkTypes, Links, AnswersInv
<1>5. BallotsInv /\ GrantedInv /\ WonInv
  BY DEF Init, BallotsInv, GrantedInv, WonInv
<1> QED
  BY <1>1, <1>2, <1>4, <1>5 DEF Inv, Types, VotesInv

LEMMA StepInv == Inv /\ [Next]_vars => Inv' /\ VoteKeptStep
<1> SUFFICES ASSUME Inv, [Next]_vars PROVE Inv' /\ VoteKeptStep
  OBVIOUS
<1>1. CASE UNCHANGED vars
  <2>1. PICK n \in Node : TRUE
    BY RaftAssumption, FS_EmptySet
  <2>2. UNCHANGED voteVars /\ chan' = chan /\ UNCHANGED logVars /\ UNCHANGED chainVars
    BY <1>1 DEF vars
  <2>3. StoreTypes'
    BY <2>2 DEF Inv, Types, StoreTypes, logVars, chainVars
  <2> QED
    BY <2>2, <2>3, QuietInv
<1>2. ASSUME NEW n \in Node, NEW targets \in SUBSET Others(n), StartElection(n, targets)
      PROVE  Inv' /\ VoteKeptStep
  BY <1>2, StartElectionInv
<1>3. ASSUME NEW n \in Node, Work(n) \/ OnLogUpdated(n) \/ OnBlockCommitted(n) \/ Crash(n)
      PROVE  Inv' /\ VoteKeptStep
  BY <1>3, WorkInv, LogUpdatedInv, BlockCommittedInv, CrashInv
<1>4. ASSUME NEW n \in Node, NEW m \in Others(n),
             OnReqRequestVote(n, m) \/ OnResRequestVote(n, m) \/ Replicate(n, m)
             \/ OnReqAppendEntries(n, m) \/ OnResAppendEntries(n, m)
      PROVE  Inv' /\ VoteKeptStep
  BY <1>4, ReqVoteInv, ResVoteInv, ReplicateInv, ReqAppendInv, ResAppendInv
<1>5. ASSUME NEW n \in Node, NEW m \in Others(n),
             OnReqRequestProposal(n, m) \/ OnResRequestProposal(n, m) \/ Sync(n, m) \/ Disconnect(n, m)
      PROVE  Inv' /\ VoteKeptStep
  BY <1>5, ReqProposalInv, ResProposalInv, SyncInv, DisconnectInv
<1> QED
  BY <1>1, <1>2, <1>3, <1>4, <1>5 DEF Next

(* Two winners of a term share a voter, whose ballot names one candidate. *)
LEMMA OneWinner == Inv => ElectedOnce
<1> SUFFICES ASSUME Inv, NEW t \in 1 .. MaxTerm PROVE Cardinality(won[t]) <= 1
  BY DEF ElectedOnce
<1>1. ASSUME NEW a \in won[t], NEW b \in won[t] PROVE a = b
  <2>1. /\ Voters(a, t) \subseteq Node /\ Voters(b, t) \subseteq Node
        /\ Cardinality(Voters(a, t)) \in Nat /\ Cardinality(Voters(b, t)) \in Nat
    <3>1. Voters(a, t) \in SUBSET Node /\ Voters(b, t) \in SUBSET Node
      BY DEF Voters
    <3> QED
      BY <3>1, VotersFinite
  <2>2. Cardinality(Voters(a, t)) >= Majority /\ Cardinality(Voters(b, t)) >= Majority
    BY DEF Inv, VotesInv, WonInv
  <2>3. Cardinality(Voters(a, t)) + Cardinality(Voters(b, t)) > Cardinality(Node)
    BY <2>1, <2>2, MajorityNat
  <2>4. Voters(a, t) \cap Voters(b, t) # {}
    BY <2>1, <2>3, RaftAssumption, FS_MajoritiesIntersect
  <2>5. PICK m \in Node : a \in ballots[t][m] /\ b \in ballots[t][m]
    BY <2>4 DEF Voters
  <2> QED
    BY <2>5 DEF Inv, VotesInv, BallotsInv
<1>2. CASE won[t] = {}
  BY <1>2, FS_EmptySet
<1>3. CASE won[t] # {}
  <2>1. PICK a : won[t] = {a}
    BY <1>1, <1>3
  <2>2. Cardinality({a}) = 1
    BY FS_Singleton
  <2> QED
    BY <2>1, <2>2
<1> QED
  BY <1>2, <1>3

(* Election safety, for any number of nodes and terms: on_req_request_vote and
   on_res_request_vote, with messages lost and late, restarts between the two
   writes of term and vote, and Storage::refresh by a synchronised block. *)
THEOREM ElectionSafety == Spec => []ElectedOnce
<1>1. Inv /\ [Next]_vars => Inv'
  BY StepInv
<1> QED
  BY <1>1, InitInv, OneWinner, PTL DEF Spec

(* The persisted term never decreases, and within a term a vote is neither
   changed nor taken back. *)
THEOREM VotesKept == Spec => VoteKept
<1>1. Inv /\ [Next]_vars => Inv'
  BY StepInv
<1>2. Inv /\ [Next]_vars =>
        [\A n \in Node :
           /\ term'[n] >= term[n]
           /\ term'[n] = term[n] /\ votedFor[n] # None => votedFor'[n] = votedFor[n]]_vars
  BY StepInv DEF VoteKeptStep
<1> QED
  BY <1>1, <1>2, InitInv, PTL DEF Spec, VoteKept
=============================================================================
