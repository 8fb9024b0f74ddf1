-------------------------- MODULE GovernanceProofs --------------------------
(***************************************************************************)
(* What an administrators' vote puts in force, for any boards, members,    *)
(* weights and number of proposals.                                        *)
(*                                                                         *)
(* The invariant ties the pending proposal of each board and subject to    *)
(* the history: it is the last one made, its votes are those cast for its  *)
(* id, and no id at or above the counter has been used for anything.       *)
(***************************************************************************)
EXTENDS Governance, FiniteLemmas

Content(s) == IF s = "admin" THEN Admins ELSE Item
Proposals == [id : Nat, content : Admins \cup Item, vote : SUBSET Member]

Types ==
  /\ admin \in [Board -> Admins \cup {NoAdmin}]
  /\ item \in [Board -> Item]
  /\ version \in [Board -> Nat]
  /\ nextId \in [Board -> [Subject -> Nat]]
  /\ proposal \in [Board -> [Subject -> Proposals \cup {NoProposal}]]
  /\ passed \in Seq(Board \X Subject \X Nat)

(* What is pending is the last proposal made, with the votes cast for it, and
   has not been put in force. *)
PendingInv(b, s) ==
  LET p == proposal[b][s]
  IN  p # NoProposal =>
        /\ p \in Proposals /\ p.content \in Content(s)
        /\ nextId[b][s] = p.id + 1
        /\ <<b, s, p.id, p.content>> \in made
        /\ IsFiniteSet(p.vote)
        /\ \A m \in Member : m \in p.vote <=> <<b, s, p.id, m>> \in cast
        /\ \A i \in DOMAIN passed : passed[i] # <<b, s, p.id>>

(* An id at or above the counter is new to all histories. *)
FreshInv(b, s) ==
  \A id \in Nat : id >= nextId[b][s] =>
    /\ \A x \in made : ~ (x[1] = b /\ x[2] = s /\ x[3] = id)
    /\ \A i \in DOMAIN passed : passed[i] # <<b, s, id>>
    /\ \A m \in Member : <<b, s, id, m>> \notin cast

Inv ==
  /\ Types
  /\ \A b \in Board, s \in Subject : PendingInv(b, s) /\ FreshInv(b, s)
  /\ IdsNameOne
  /\ PassedOnce

-----------------------------------------------------------------------------
(* Administrators: what is stored at genesis and what a proposal stores have
   weights of 32 bits, and the support of a vote is a natural number. *)

LEMMA SupportIsNat ==
  ASSUME NEW votes, IsFiniteSet(votes), NEW weights, \A m \in DOMAIN weights : weights[m] \in Nat
  PROVE  Support(votes, weights) \in Nat
<1> DEFINE g == [m \in votes |-> WeightOf(m, weights)]
           Sums(iter) == iter = [s \in SUBSET votes |->
             IF s = {} THEN 0
             ELSE LET x == CHOOSE x \in s : TRUE IN WeightOf(x, weights) + iter[s \ {x}]]
<1>1. \A x \in votes : g[x] \in Nat
  BY DEF WeightOf
<1>2. ASSUME NEW iter PROVE Sums(iter) <=> IsSum(iter, votes, g)
  <2>1. \A s \in SUBSET votes : s # {} => g[Pick(s)] = WeightOf(Pick(s), weights)
    BY PickIn
  <2> HIDE DEF g
  <2> QED
    BY <2>1 DEF IsSum, Pick
<1>3. \E iter : Sums(iter)
  <2> HIDE DEF g, Sums
  <2> QED
    BY <1>2, SumExists
<1> DEFINE total == CHOOSE iter : Sums(iter)
<1>4. Sums(total)
  BY <1>3
<1>5. total[votes] \in Nat
  <2> HIDE DEF g, Sums, total
  <2>1. IsSum(total, votes, g)
    BY <1>4, <1>2
  <2> QED
    BY <2>1, <1>1, SumIsNat
<1> QED
  BY <1>5 DEF Support, MapThenSumSet, MapThenFoldSet

(* The sum of the weights listed at the indices S *)
Listed(list, S) == MapThenSumSet(LAMBDA i : list[i][2], S)

LEMMA ListedIsNat ==
  ASSUME NEW list, NEW S, IsFiniteSet(S), \A i \in S : list[i][2] \in Nat
  PROVE  Listed(list, S) \in Nat
<1> DEFINE g == [i \in S |-> list[i][2]]
           Sums(iter) == iter = [s \in SUBSET S |->
             IF s = {} THEN 0
             ELSE LET x == CHOOSE x \in s : TRUE IN list[x][2] + iter[s \ {x}]]
<1>1. \A x \in S : g[x] \in Nat
  OBVIOUS
<1>2. ASSUME NEW iter PROVE Sums(iter) <=> IsSum(iter, S, g)
  <2>1. \A s \in SUBSET S : s # {} => g[Pick(s)] = list[Pick(s)][2]
    BY PickIn
  <2> HIDE DEF g
  <2> QED
    BY <2>1 DEF IsSum, Pick
<1>3. \E iter : Sums(iter)
  <2> HIDE DEF g, Sums
  <2> QED
    BY <1>2, SumExists
<1> DEFINE total == CHOOSE iter : Sums(iter)
<1>4. Sums(total)
  BY <1>3
<1>5. total[S] \in Nat
  <2> HIDE DEF g, Sums, total
  <2>1. IsSum(total, S, g)
    BY <1>4, <1>2
  <2> QED
    BY <2>1, <1>1, SumIsNat
<1> QED
  BY <1>5 DEF Listed, MapThenSumSet, MapThenFoldSet

LEMMA ParamsType ==
  ASSUME NEW params \in AdminParams
  PROVE  /\ params.threshold \in 0..Word - 1
         /\ IsFiniteSet(DOMAIN params.members) /\ DOMAIN params.members \subseteq Int
         /\ \A i \in DOMAIN params.members :
              params.members[i][1] \in Member /\ params.members[i][2] \in 0..Word - 1
<1>1. params \in [threshold : 0..Word - 1, members : Seq(Member \X (0..Word - 1))]
  BY GovernanceAssumption
<1>2. params.members \in Seq(Member \X (0..Word - 1)) /\ params.threshold \in 0..Word - 1
  BY <1>1
<1>3. DOMAIN params.members = 1..Len(params.members) /\ Len(params.members) \in Nat
  BY <1>2
<1>4. IsFiniteSet(DOMAIN params.members)
  BY <1>3, FS_Interval
<1> QED
  BY <1>2, <1>3, <1>4

LEMMA AdminsIntro ==
  ASSUME NEW t \in 0..Word - 1, NEW M \in SUBSET Member, NEW w \in [M -> 0..Word - 1]
  PROVE  [threshold |-> t, weights |-> w] \in Admins
BY DEF Admins

LEMMA GenesisType ==
  ASSUME NEW params \in AdminParams
  PROVE  Genesis(params) \in Admins
<1> DEFINE list == params.members
           M == {list[i][1] : i \in DOMAIN list}
           Of(m) == {i \in DOMAIN list : list[i][1] = m}
<1>1. ASSUME NEW m \in M PROVE list[Max(Of(m))][2] \in 0..Word - 1
  <2>1. Of(m) \subseteq DOMAIN list /\ Of(m) # {}
    OBVIOUS
  <2>2. IsFiniteSet(Of(m)) /\ Of(m) \subseteq Int
    BY <2>1, ParamsType, FS_Subset
  <2>3. Max(Of(m)) \in Of(m)
    <3> HIDE DEF Of
    <3> QED
      BY <2>1, <2>2, MaxProperty
  <2> QED
    BY <2>1, <2>3, ParamsType
<1>2. M \in SUBSET Member
  BY ParamsType
<1>3. [m \in M |-> list[Max(Of(m))][2]] \in [M -> 0..Word - 1]
  BY <1>1
<1> QED
  BY <1>2, <1>3, ParamsType, AdminsIntro DEF Genesis

LEMMA AggregateType ==
  ASSUME NEW params \in AdminParams
  PROVE  Aggregate(params) \in Admins
<1> DEFINE list == params.members
           positive == {i \in DOMAIN list : list[i][2] > 0}
           M == {list[i][1] : i \in positive}
           Of(m) == {i \in positive : list[i][1] = m}
<1>1. ASSUME NEW m \in M PROVE Listed(list, Of(m)) % Word \in 0..Word - 1
  <2>1. Of(m) \subseteq DOMAIN list
    OBVIOUS
  <2>2. IsFiniteSet(Of(m))
    BY <2>1, ParamsType, FS_Subset
  <2>3. \A i \in Of(m) : list[i][2] \in Nat
    BY <2>1, ParamsType, GovernanceAssumption
  <2>4. Listed(list, Of(m)) \in Nat
    <3> HIDE DEF Of
    <3> QED
      BY <2>2, <2>3, ListedIsNat
  <2> HIDE DEF Of
  <2> QED
    BY <2>4, GovernanceAssumption
<1>2. M \in SUBSET Member
  BY ParamsType
<1>3. [m \in M |-> Listed(list, Of(m)) % Word] \in [M -> 0..Word - 1]
  <2> HIDE DEF Of, M
  <2> QED
    BY <1>1
<1> QED
  BY <1>2, <1>3, ParamsType, AdminsIntro DEF Aggregate, Listed

-----------------------------------------------------------------------------
(* A proposal p with the vote of m added is p with other votes. *)
LEMMA Voted ==
  ASSUME NEW u \in Proposals, NEW m \in Member
  PROVE  LET p == [u EXCEPT !.vote = @ \cup {m}]
         IN  /\ p \in Proposals
             /\ p.id = u.id /\ p.content = u.content /\ p.vote = u.vote \cup {m}
BY DEF Proposals

(* What Propose and VoteFor have in common: m's vote is added to the proposal u,
   which is new or pending, has been cast for by its voters and not been put
   in force. *)
Voting(b, s, m, u) ==
  /\ admin[b] \in Admins
  /\ u \in Proposals /\ u.content \in Content(s)
  /\ u.id = nextId[b][s] \/ u.id + 1 = nextId[b][s]
  /\ \A x \in made : x[1] = b /\ x[2] = s /\ x[3] = u.id => x[4] = u.content
  /\ IsFiniteSet(u.vote)
  /\ \A x \in Member : x \in u.vote <=> <<b, s, u.id, x>> \in cast
  /\ \A i \in DOMAIN passed : passed[i] # <<b, s, u.id>>
  /\ VoteAndPass(b, s, m, u)
  /\ made' = made \cup {<<b, s, u.id, u.content>>}
  /\ cast' = cast \cup {<<b, s, u.id, m>>}

LEMMA ProposeIsVoting ==
  ASSUME Inv, NEW b \in Board, NEW s \in Subject, NEW m \in Member, NEW c \in Content(s),
         Propose(b, s, m, c)
  PROVE  \E u : Voting(b, s, m, u)
<1> DEFINE u == [id |-> nextId[b][s], content |-> c, vote |-> {}]
<1>1. nextId[b][s] \in Nat
  BY DEF Inv, Types
<1>2. u \in Proposals /\ u.content \in Content(s)
  BY <1>1 DEF Proposals, Content
<1>3. admin[b] \in Admins
  BY DEF Inv, Types, Propose, IsMember
<1>4. /\ \A x \in made : ~ (x[1] = b /\ x[2] = s /\ x[3] = u.id)
      /\ \A i \in DOMAIN passed : passed[i] # <<b, s, u.id>>
      /\ \A x \in Member : <<b, s, u.id, x>> \notin cast
  BY <1>1 DEF Inv, FreshInv
<1>5. IsFiniteSet(u.vote)
  BY FS_EmptySet
<1>6. Voting(b, s, m, u)
  BY <1>2, <1>3, <1>4, <1>5 DEF Voting, Propose
<1> QED
  BY <1>6

LEMMA VoteForIsVoting ==
  ASSUME Inv, NEW b \in Board, NEW s \in Subject, NEW m \in Member, NEW id,
         VoteFor(b, s, m, id)
  PROVE  \E u : Voting(b, s, m, u)
<1> DEFINE u == proposal[b][s]
<1>1. u # NoProposal /\ u.id = id
  BY DEF VoteFor, IsPending
<1>2. PendingInv(b, s) /\ IdsNameOne
  BY DEF Inv
<1>3. /\ u \in Proposals /\ u.content \in Content(s)
      /\ nextId[b][s] = u.id + 1
      /\ <<b, s, u.id, u.content>> \in made
      /\ IsFiniteSet(u.vote)
      /\ \A x \in Member : x \in u.vote <=> <<b, s, u.id, x>> \in cast
      /\ \A i \in DOMAIN passed : passed[i] # <<b, s, u.id>>
  BY <1>1, <1>2 DEF PendingInv
<1>4. admin[b] \in Admins
  BY DEF Inv, Types, VoteFor, IsMember
<1>5. \A x \in made : x[1] = b /\ x[2] = s /\ x[3] = u.id => x[4] = u.content
  BY <1>2, <1>3 DEF IdsNameOne
<1>6. /\ VoteAndPass(b, s, m, u)
      /\ made' = made \cup {<<b, s, u.id, u.content>>}
      /\ cast' = cast \cup {<<b, s, u.id, m>>}
  BY <1>1, <1>3 DEF VoteFor
<1>7. Voting(b, s, m, u)
  <2> HIDE DEF u
  <2> QED
    BY <1>3, <1>4, <1>5, <1>6 DEF Voting
<1> QED
  BY <1>7

(* The state after a vote, in terms of the proposal p with the vote in it. *)
Effect(b, s, m, u, p, pass) ==
  /\ p.id = u.id /\ p.content = u.content /\ p.vote = u.vote \cup {m}
  /\ pass <=> Reaches(p.vote, b)
  /\ proposal' = [proposal EXCEPT ![b][s] = IF pass THEN NoProposal ELSE p]
  /\ nextId' = [nextId EXCEPT ![b][s] = p.id + 1]
  /\ admin' = IF pass /\ s = "admin" THEN [admin EXCEPT ![b] = p.content] ELSE admin
  /\ item' = IF pass /\ s = "item" THEN [item EXCEPT ![b] = p.content] ELSE item
  /\ version' = IF pass /\ s = "item" THEN [version EXCEPT ![b] = @ + 1] ELSE version
  /\ passed' = IF pass THEN Append(passed, <<b, s, p.id>>) ELSE passed

LEMMA VotingStep ==
  ASSUME Inv, NEW b \in Board, NEW s \in Subject, NEW m \in Member, NEW u, Voting(b, s, m, u)
  PROVE  \E p \in Proposals, pass \in BOOLEAN : Effect(b, s, m, u, p, pass)
<1> DEFINE p == [u EXCEPT !.vote = @ \cup {m}]
           pass == Reaches(p.vote, b)
<1>1. p \in Proposals /\ p.id = u.id /\ p.content = u.content /\ p.vote = u.vote \cup {m}
  BY Voted DEF Voting
<1>2. pass \in BOOLEAN
  BY DEF Reaches
<1>3. VoteAndPass(b, s, m, u)
  BY DEF Voting
<1>4. /\ proposal' = [proposal EXCEPT ![b][s] = IF pass THEN NoProposal ELSE p]
      /\ nextId' = [nextId EXCEPT ![b][s] = p.id + 1]
      /\ admin' = IF pass /\ s = "admin" THEN [admin EXCEPT ![b] = p.content] ELSE admin
      /\ item' = IF pass /\ s = "item" THEN [item EXCEPT ![b] = p.content] ELSE item
      /\ version' = IF pass /\ s = "item" THEN [version EXCEPT ![b] = @ + 1] ELSE version
      /\ passed' = IF pass THEN Append(passed, <<b, s, p.id>>) ELSE passed
  BY <1>3, Zenon DEF VoteAndPass, PendingAfter, NextIdAfter
<1> HIDE DEF p, pass
<1> QED
  BY <1>1, <1>2, <1>4 DEF pass, Effect

(* A vote keeps the invariant. *)
LEMMA VotingInv ==
  ASSUME Inv, NEW b \in Board, NEW s \in Subject, NEW m \in Member, NEW u, Voting(b, s, m, u)
  PROVE  Inv'
<1>1. PICK p \in Proposals, pass \in BOOLEAN : Effect(b, s, m, u, p, pass)
  BY VotingStep
<1> USE DEF Effect
<1>2. /\ p.id \in Nat /\ p.content \in Content(s) /\ IsFiniteSet(p.vote)
      /\ p.id = nextId[b][s] \/ p.id + 1 = nextId[b][s]
      /\ \A x \in made : x[1] = b /\ x[2] = s /\ x[3] = p.id => x[4] = p.content
      /\ \A x \in Member : x \in p.vote <=> x = m \/ <<b, s, p.id, x>> \in cast
      /\ \A i \in DOMAIN passed : passed[i] # <<b, s, p.id>>
      /\ made' = made \cup {<<b, s, p.id, p.content>>}
      /\ cast' = cast \cup {<<b, s, p.id, m>>}
  <2>1. IsFiniteSet(u.vote \cup {m})
    BY FS_AddElement DEF Voting
  <2>2. p.id \in Nat
    BY DEF Proposals
  <2> QED
    BY <1>1, <2>1, <2>2 DEF Voting
<1>3. Types
  BY DEF Inv
<1>4. Types'
  <2>1. admin' \in [Board -> Admins \cup {NoAdmin}]
    BY <1>1, <1>2, <1>3 DEF Types, Content
  <2>2. item' \in [Board -> Item] /\ version' \in [Board -> Nat]
    BY <1>1, <1>2, <1>3 DEF Types, Content
  <2>3. nextId' \in [Board -> [Subject -> Nat]]
    BY <1>1, <1>2, <1>3 DEF Types
  <2>4. proposal' \in [Board -> [Subject -> Proposals \cup {NoProposal}]]
    BY <1>1, <1>3 DEF Types
  <2>5. passed' \in Seq(Board \X Subject \X Nat)
    BY <1>1, <1>2, <1>3 DEF Types
  <2> QED
    BY <2>1, <2>2, <2>3, <2>4, <2>5 DEF Types
<1>5. /\ DOMAIN passed \subseteq DOMAIN passed'
      /\ \A i \in DOMAIN passed : passed'[i] = passed[i]
      /\ \A i \in DOMAIN passed' : i \in DOMAIN passed \/ (passed'[i] = <<b, s, p.id>> /\ pass)
      /\ \A i, j \in DOMAIN passed' \ DOMAIN passed : i = j
  <2>1. passed \in Seq(Board \X Subject \X Nat) /\ <<b, s, p.id>> \in Board \X Subject \X Nat
    BY <1>2, <1>3 DEF Types
  <2>2. CASE ~pass
    BY <1>1, <2>2
  <2>3. CASE pass
    <3>1. passed' = Append(passed, <<b, s, p.id>>)
      BY <1>1, <2>3
    <3>2. /\ DOMAIN passed = 1..Len(passed) /\ Len(passed) \in Nat
          /\ DOMAIN passed' = 1..Len(passed) + 1
          /\ \A i \in 1..Len(passed) : passed'[i] = passed[i]
          /\ passed'[Len(passed) + 1] = <<b, s, p.id>>
      BY <2>1, <3>1
    <3> QED
      BY <2>3, <3>2
  <2> QED
    BY <2>2, <2>3
<1>6. IdsNameOne'
  BY <1>2 DEF Inv, IdsNameOne
<1>7. PassedOnce'
  BY <1>2, <1>5 DEF Inv, PassedOnce
<1>8. ASSUME NEW c \in Board, NEW t \in Subject PROVE PendingInv(c, t)' /\ FreshInv(c, t)'
  <2>0. PendingInv(c, t) /\ FreshInv(c, t) /\ nextId[c][t] \in Nat
    BY <1>3 DEF Inv, Types
  <2>1. CASE c = b /\ t = s
    <3>1. nextId'[c][t] = p.id + 1 /\ proposal'[c][t] = IF pass THEN NoProposal ELSE p
      BY <1>1, <1>3, <2>1 DEF Types
    <3>2. PendingInv(c, t)'
      BY <1>2, <1>5, <2>1, <3>1 DEF PendingInv
    <3>3. FreshInv(c, t)'
      <4> SUFFICES ASSUME NEW id \in Nat, id >= nextId'[c][t]
                   PROVE  /\ \A x \in made' : ~ (x[1] = c /\ x[2] = t /\ x[3] = id)
                          /\ \A i \in DOMAIN passed' : passed'[i] # <<c, t, id>>
                          /\ \A x \in Member : <<c, t, id, x>> \notin cast'
        BY DEF FreshInv
      <4>1. id >= nextId[c][t] /\ id # p.id
        BY <1>2, <2>0, <2>1, <3>1
      <4> QED
        BY <1>2, <1>5, <2>0, <2>1, <4>1 DEF FreshInv
    <3> QED
      BY <3>2, <3>3
  <2>2. CASE ~ (c = b /\ t = s)
    <3>1. nextId'[c][t] = nextId[c][t] /\ proposal'[c][t] = proposal[c][t]
      BY <1>1, <1>3, <2>2 DEF Types
    <3>2. PendingInv(c, t)'
      BY <1>2, <1>5, <2>0, <2>2, <3>1 DEF PendingInv
    <3>3. FreshInv(c, t)'
      BY <1>2, <1>5, <2>0, <2>2, <3>1 DEF FreshInv
    <3> QED
      BY <3>2, <3>3
  <2> QED
    BY <2>1, <2>2
<1> QED
  BY <1>4, <1>6, <1>7, <1>8 DEF Inv

LEMMA InitInv == Init => Inv
<1> SUFFICES ASSUME Init PROVE Inv
  OBVIOUS
<1>1. admin \in [Board -> Admins \cup {NoAdmin}]
  <2>1. PICK params \in AdminParams, c \in Consensus :
          admin = [b \in Board |-> IF b = c THEN Genesis(params) ELSE NoAdmin]
    BY DEF Init
  <2> QED
    BY <2>1, GenesisType
<1>2. Types
  BY <1>1 DEF Init, Types
<1>3. ASSUME NEW b \in Board, NEW s \in Subject PROVE PendingInv(b, s) /\ FreshInv(b, s)
  BY DEF Init, PendingInv, FreshInv
<1> QED
  BY <1>2, <1>3 DEF Inv, Init, IdsNameOne, PassedOnce

LEMMA CreateInv ==
  ASSUME Inv, NEW c \in Contract, NEW m \in Member, NEW code \in Item, Create(c, m, code)
  PROVE  Inv'
<1>1. [threshold |-> 1, weights |-> [x \in {m} |-> 1]] \in Admins
  <2>1. 1 \in 0..Word - 1
    BY GovernanceAssumption
  <2>2. [x \in {m} |-> 1] \in [{m} -> 0..Word - 1] /\ {m} \in SUBSET Member
    BY <2>1
  <2> QED
    BY <2>1, <2>2, AdminsIntro
<1>2. Types'
  BY <1>1 DEF Inv, Types, Create, Board
<1>3. ASSUME NEW b \in Board, NEW s \in Subject PROVE PendingInv(b, s)' /\ FreshInv(b, s)'
  BY DEF Inv, PendingInv, FreshInv, Create
<1> QED
  BY <1>2, <1>3 DEF Inv, Create, IdsNameOne, PassedOnce

(* Every step is a vote, the creation of a contract or none. *)
LEMMA Steps ==
  ASSUME Inv, [Next]_vars
  PROVE  \/ \E b \in Board, s \in Subject, m \in Member : \E u : Voting(b, s, m, u)
         \/ \E c \in Contract, m \in Member, code \in Item : Create(c, m, code)
         \/ UNCHANGED vars
<1> DEFINE Goal == \E b \in Board, s \in Subject, m \in Member : \E u : Voting(b, s, m, u)
<1>1. /\ Poa \in Board /\ Raft \in Board /\ HotStuff \in Board /\ Contract \subseteq Board
      /\ "admin" \in Subject /\ "item" \in Subject
  BY DEF Board, Consensus, Subject
<1>2. ASSUME NEW b \in Board, NEW m \in Member, NEW params \in AdminParams,
             Propose(b, "admin", m, Aggregate(params))
      PROVE  Goal
  BY <1>1, <1>2, AggregateType, ProposeIsVoting DEF Content
<1>3. ASSUME NEW b \in Board, NEW m \in Member, NEW i \in Item, Propose(b, "item", m, i)
      PROVE  Goal
  BY <1>1, <1>3, ProposeIsVoting DEF Content
<1>4. ASSUME NEW b \in Board, NEW s \in Subject, NEW m \in Member, NEW id, VoteFor(b, s, m, id)
      PROVE  Goal
  BY <1>4, VoteForIsVoting
<1> HIDE DEF Goal
<1>5. ASSUME NEW m \in Member,
             \/ \E params \in AdminParams :
                  UpdateAdmin(m, params) \/ \E c \in Contract : UpdateContractAdmin(c, m, params)
             \/ \E i \in Item :
                  UpdateAuthority(m, i) \/ \E c \in Contract : UpdateCode(c, m, i)
      PROVE  Goal
  BY <1>1, <1>2, <1>3, <1>5 DEF UpdateAdmin, UpdateContractAdmin, UpdateAuthority, UpdateCode
<1>6. ASSUME NEW m \in Member, NEW id \in 1..MaxProposals,
             \/ UpdateAdminVote(m, id) \/ UpdateAuthorityVote(m, id)
             \/ \E c \in Contract : UpdateContractAdminVote(c, m, id) \/ UpdateCodeVote(c, m, id)
      PROVE  Goal
  BY <1>1, <1>4, <1>6
  DEF UpdateAdminVote, UpdateAuthorityVote, UpdateContractAdminVote, UpdateCodeVote
<1>7. ASSUME NEW m \in Member,
             RaftAdmin(m) \/ RaftAuthorities(m) \/ HotStuffAdmin(m) \/ HotStuffAuthorities(m)
      PROVE  Goal
  BY <1>1, <1>2, <1>3, <1>4, <1>7 DEF RaftAdmin, RaftAuthorities, HotStuffAdmin, HotStuffAuthorities
<1>8. CASE Next
  <2>1. PICK m \in Member :
          \/ \E params \in AdminParams :
               UpdateAdmin(m, params) \/ \E c \in Contract : UpdateContractAdmin(c, m, params)
          \/ \E i \in Item :
               \/ UpdateAuthority(m, i)
               \/ \E c \in Contract : UpdateCode(c, m, i) \/ Create(c, m, i)
          \/ \E id \in 1..MaxProposals :
               \/ UpdateAdminVote(m, id) \/ UpdateAuthorityVote(m, id)
               \/ \E c \in Contract : UpdateContractAdminVote(c, m, id) \/ UpdateCodeVote(c, m, id)
          \/ RaftAdmin(m) \/ RaftAuthorities(m)
          \/ HotStuffAdmin(m) \/ HotStuffAuthorities(m)
    BY <1>8, Zenon DEF Next
  <2>2. Goal \/ \E c \in Contract, i \in Item : Create(c, m, i)
    BY <2>1, <1>5, <1>6, <1>7
  <2> QED
    BY <2>2 DEF Goal
<1> QED
  BY <1>8

LEMMA StepInv == Inv /\ [Next]_vars => Inv'
<1> SUFFICES ASSUME Inv, [Next]_vars PROVE Inv'
  OBVIOUS
<1>1. CASE UNCHANGED vars
  <2>1. Types'
    BY <1>1 DEF vars, Inv, Types
  <2>2. ASSUME NEW b \in Board, NEW s \in Subject PROVE PendingInv(b, s)' /\ FreshInv(b, s)'
    <3>1. PendingInv(b, s) /\ FreshInv(b, s)
      BY DEF Inv
    <3>2. PendingInv(b, s)'
      BY <1>1, <3>1 DEF vars, PendingInv
    <3> QED
      BY <1>1, <3>1, <3>2 DEF vars, FreshInv
  <2>3. IdsNameOne' /\ PassedOnce'
    BY <1>1 DEF vars, Inv, IdsNameOne, PassedOnce
  <2> QED
    BY <2>1, <2>2, <2>3 DEF Inv
<1> QED
  BY <1>1, Steps, VotingInv, CreateInv

(* A vote that puts a proposal in force has the support it needs. *)
LEMMA VotingSupported ==
  ASSUME Inv, NEW b \in Board, NEW s \in Subject, NEW m \in Member, NEW u, Voting(b, s, m, u),
         Len(passed') > Len(passed)
  PROVE  LET id == passed'[Len(passed')][3]
             content == IF s = "admin" THEN admin'[b] ELSE item'[b]
         IN  /\ passed'[Len(passed')][1] = b /\ passed'[Len(passed')][2] = s
             /\ <<b, s, id, content>> \in made'
             /\ Support({x \in Member : <<b, s, id, x>> \in cast'}, admin[b].weights)
                  >= admin[b].threshold
<1>1. PICK p \in Proposals, pass \in BOOLEAN : Effect(b, s, m, u, p, pass)
  BY VotingStep
<1>2. pass /\ passed \in Seq(Board \X Subject \X Nat)
  BY <1>1 DEF Effect, Inv, Types
<1>3. p.id \in Nat /\ p.vote \in SUBSET Member
  BY DEF Proposals
<1>4. passed'[Len(passed')] = <<b, s, p.id>>
  <2>1. passed' = Append(passed, <<b, s, p.id>>) /\ <<b, s, p.id>> \in Board \X Subject \X Nat
    BY <1>1, <1>2, <1>3 DEF Effect
  <2> QED
    BY <1>2, <2>1
<1>5. (IF s = "admin" THEN admin'[b] ELSE item'[b]) = p.content
  BY <1>1, <1>2 DEF Effect, Inv, Types, Subject
<1>6. {x \in Member : <<b, s, p.id, x>> \in cast'} = p.vote
  BY <1>1, <1>3 DEF Effect, Voting
<1>7. <<b, s, p.id, p.content>> \in made'
  BY <1>1 DEF Effect, Voting
<1>8. IsFiniteSet(p.vote)
  <2>1. IsFiniteSet(u.vote) /\ p.vote = u.vote \cup {m}
    BY <1>1 DEF Effect, Voting
  <2> QED
    BY <2>1, FS_AddElement
<1>9. admin[b].threshold \in Nat /\ \A x \in DOMAIN admin[b].weights : admin[b].weights[x] \in Nat
  BY GovernanceAssumption DEF Voting, Admins
<1>10. Support(p.vote, admin[b].weights) \in Nat
  BY <1>8, <1>9, SupportIsNat
<1>11. Support(p.vote, admin[b].weights) % Word >= admin[b].threshold
  BY <1>1, <1>2 DEF Effect, Reaches
<1>12. Support(p.vote, admin[b].weights) >= admin[b].threshold
  <2>1. \A n, t \in Nat : n % Word >= t => n >= t
    BY GovernanceAssumption
  <2> QED
    BY <1>9, <1>10, <1>11, <2>1, Zenon
<1>13. passed'[Len(passed')][1] = b /\ passed'[Len(passed')][2] = s /\ passed'[Len(passed')][3] = p.id
  BY <1>4
<1> QED
  BY <1>5, <1>6, <1>7, <1>12, <1>13, Zenon

(* Weights, thresholds, ids and votes have their types. *)
THEOREM TypeCorrect == Spec => []TypeOK
<1>1. Inv => TypeOK
  BY DEF Inv, Types, PendingInv, Proposals, TypeOK
<1> QED
  BY <1>1, InitInv, StepInv, PTL DEF Spec

(* A threshold is met by the votes cast for the proposal's id, also where the
   u32 sum of the weights wraps: update_admin_vote_and_pass and its siblings of
   the consensus modules and of the contract module. *)
THEOREM ChangesSupported == Spec => ChangedBySupport
<1>1. Inv /\ [Next]_vars =>
        [\A b \in Board, s \in Subject :
           Len(passed') > Len(passed) /\ passed'[Len(passed')][1] = b /\ passed'[Len(passed')][2] = s =>
             LET id == passed'[Len(passed')][3]
                 content == IF s = "admin" THEN admin'[b] ELSE item'[b]
             IN  /\ <<b, s, id, content>> \in made'
                 /\ Support({m \in Member : <<b, s, id, m>> \in cast'}, admin[b].weights)
                      >= admin[b].threshold]_vars
  <2> SUFFICES ASSUME Inv, [Next]_vars, NEW b \in Board, NEW s \in Subject,
                      Len(passed') > Len(passed),
                      passed'[Len(passed')][1] = b, passed'[Len(passed')][2] = s
               PROVE  LET id == passed'[Len(passed')][3]
                          content == IF s = "admin" THEN admin'[b] ELSE item'[b]
                      IN  /\ <<b, s, id, content>> \in made'
                          /\ Support({m \in Member : <<b, s, id, m>> \in cast'}, admin[b].weights)
                               >= admin[b].threshold
    OBVIOUS
  <2>1. Len(passed) \in Nat
    BY DEF Inv, Types
  <2>2. ~ UNCHANGED vars /\ \A c \in Contract, m \in Member, i \in Item : ~ Create(c, m, i)
    BY <2>1 DEF vars, Create
  <2>3. PICK c \in Board, t \in Subject, m \in Member : \E u : Voting(c, t, m, u)
    BY <2>2, Steps
  <2>4. PICK u : Voting(c, t, m, u)
    BY <2>3
  <2>5. passed'[Len(passed')][1] = c /\ passed'[Len(passed')][2] = t
    BY <2>4, VotingSupported
  <2>6. c = b /\ t = s
    BY <2>5
  <2> QED
    BY <2>4, <2>6, VotingSupported
<1> QED
  BY <1>1, InitInv, StepInv, PTL DEF Spec, ChangedBySupport

(* Ids are never reused, over proposals that replace one another and proposals
   that pass at once (the counter of update_admin and its siblings). *)
THEOREM IdsUnique == Spec => []IdsNameOne
<1>1. Inv => IdsNameOne
  BY DEF Inv
<1> QED
  BY <1>1, InitInv, StepInv, PTL DEF Spec

(* A late vote does not put a proposal in force again. *)
THEOREM ForcedOnce == Spec => []PassedOnce
<1>1. Inv => PassedOnce
  BY DEF Inv
<1> QED
  BY <1>1, InitInv, StepInv, PTL DEF Spec
=============================================================================
