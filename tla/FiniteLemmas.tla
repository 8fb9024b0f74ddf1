---------------------------- MODULE FiniteLemmas ----------------------------
(***************************************************************************)
(* Facts about finite sets, the least and the greatest number of one, and  *)
(* sums over one, that the proofs about the components share.              *)
(*                                                                         *)
(* What would be an induction takes a minimal counterexample instead: a    *)
(* non-empty collection of subsets of a finite set has a minimal member,   *)
(* and a non-empty set of naturals a least one.                            *)
(***************************************************************************)
EXTENDS Integers, FiniteSets, FiniteSetsExt, FiniteSetTheorems, WellFoundedInduction, TLAPS

(* A non-empty set of natural numbers has a least element. *)
LEMMA LeastNatural ==
  ASSUME NEW T \in SUBSET Nat, T # {}
  PROVE  \E n \in T : \A m \in T : n <= m
<1>1. PICK n \in T : \A m \in T : ~ (<<m, n>> \in OpToRel(<, Nat))
  BY NatLessThanWellFounded, WFMin
<1>2. \A m \in T : ~ (m < n)
  BY <1>1 DEF OpToRel
<1> QED
  BY <1>2

(* A non-empty collection of subsets of a finite set has a minimal one. *)
LEMMA MinimalSet ==
  ASSUME NEW S, IsFiniteSet(S), NEW T \in SUBSET SUBSET S, T # {}
  PROVE  \E A \in T : \A B \in T : B \subseteq A => B = A
<1>1. FiniteSubsetsOf(S) = SUBSET S
  BY FS_FiniteSubsetsOfFinite
<1>2. PICK A \in T : \A B \in T : ~ (<<B, A>> \in StrictSubsetOrdering(S))
  BY <1>1, FS_StrictSubsetOrderingWellFounded, WFMin
<1> QED
  BY <1>2 DEF StrictSubsetOrdering

(* A finite non-empty set of integers has a greatest and a least element. *)
LEMMA MaxProperty ==
  ASSUME NEW S, IsFiniteSet(S), S # {}
  PROVE  S \subseteq Int => Max(S) \in S /\ \A y \in S : y <= Max(S)
<1>0. \A U \in SUBSET SUBSET S : U # {} => \E A \in U : \A B \in U : B \subseteq A => B = A
  BY MinimalSet
<1> SUFFICES ASSUME S \subseteq Int PROVE Max(S) \in S /\ \A y \in S : y <= Max(S)
  OBVIOUS
<1> DEFINE T == {A \in SUBSET S : A # {} /\ \A x \in S \ A : \E y \in A : x <= y}
<1>1. T # {} /\ T \in SUBSET SUBSET S
  <2>1. S \in T
    OBVIOUS
  <2> QED
    BY <2>1
<1>2. PICK A \in T : \A B \in T : B \subseteq A => B = A
  <2> HIDE DEF T
  <2> QED
    BY <1>0, <1>1
<1>3. PICK m \in A : TRUE
  BY <1>2
<1>4. ASSUME NEW y \in A PROVE y = m
  <2>1. CASE y < m
    <3>1. A \ {y} \in T
      BY <2>1, <1>2
    <3> QED
      BY <3>1, <1>2
  <2>2. CASE y > m
    <3>1. A \ {m} \in T
      BY <2>2, <1>2
    <3> QED
      BY <3>1, <1>2
  <2> QED
    BY <1>2, <2>1, <2>2
<1>5. m \in S /\ \A y \in S : m >= y
  BY <1>2, <1>4
<1> QED
  BY <1>5 DEF Max

LEMMA MinProperty ==
  ASSUME NEW S, IsFiniteSet(S), S # {}
  PROVE  S \subseteq Int => Min(S) \in S /\ \A y \in S : Min(S) <= y
<1>0. \A U \in SUBSET SUBSET S : U # {} => \E A \in U : \A B \in U : B \subseteq A => B = A
  BY MinimalSet
<1> SUFFICES ASSUME S \subseteq Int PROVE Min(S) \in S /\ \A y \in S : Min(S) <= y
  OBVIOUS
<1> DEFINE T == {A \in SUBSET S : A # {} /\ \A x \in S \ A : \E y \in A : y <= x}
<1>1. T # {} /\ T \in SUBSET SUBSET S
  <2>1. S \in T
    OBVIOUS
  <2> QED
    BY <2>1
<1>2. PICK A \in T : \A B \in T : B \subseteq A => B = A
  <2> HIDE DEF T
  <2> QED
    BY <1>0, <1>1
<1>3. PICK m \in A : TRUE
  BY <1>2
<1>4. ASSUME NEW y \in A PROVE y = m
  <2>1. CASE y > m
    <3>1. A \ {y} \in T
      BY <2>1, <1>2
    <3> QED
      BY <3>1, <1>2
  <2>2. CASE y < m
    <3>1. A \ {m} \in T
      BY <2>2, <1>2
    <3> QED
      BY <3>1, <1>2
  <2> QED
    BY <1>2, <2>1, <2>2
<1>5. m \in S /\ \A y \in S : m <= y
  BY <1>2, <1>4
<1> QED
  BY <1>5 DEF Min

-----------------------------------------------------------------------------
(* The element a fold takes next, and the sums of g over the subsets of S as
   MapThenSumSet computes them. *)
Pick(s) == CHOOSE x \in s : TRUE
IsSum(iter, S, g) ==
  iter = [s \in SUBSET S |-> IF s = {} THEN 0 ELSE g[Pick(s)] + iter[s \ {Pick(s)}]]

LEMMA PickIn ==
  ASSUME NEW s, s # {}
  PROVE  Pick(s) \in s
BY DEF Pick

LEMMA SumStep ==
  ASSUME NEW S, NEW g, NEW iter, IsSum(iter, S, g)
  PROVE  /\ iter[{}] = 0
         /\ \A s \in SUBSET S : s # {} => iter[s] = g[Pick(s)] + iter[s \ {Pick(s)}]
BY DEF IsSum

(* The sums are determined: what is a sum over the subsets of S is one over
   those of a subset of S, and no other is. *)
LEMMA SumUnique ==
  ASSUME NEW S, IsFiniteSet(S), NEW g, NEW f, IsSum(f, S, g),
         NEW R \in SUBSET S, NEW h, IsSum(h, R, g)
  PROVE  \A s \in SUBSET R : f[s] = h[s]
<1> DEFINE T == {s \in SUBSET R : f[s] # h[s]}
<1> SUFFICES ASSUME T # {} PROVE FALSE
  OBVIOUS
<1>1. T \in SUBSET SUBSET S
  OBVIOUS
<1>2. PICK A \in T : \A B \in T : B \subseteq A => B = A
  <2> HIDE DEF T
  <2> QED
    BY <1>1, MinimalSet
<1>3. A # {}
  BY <1>2, SumStep
<1>4. f[A] = g[Pick(A)] + f[A \ {Pick(A)}] /\ h[A] = g[Pick(A)] + h[A \ {Pick(A)}]
  <2>1. A \in SUBSET S /\ A \in SUBSET R
    BY <1>2
  <2> QED
    BY <1>3, <2>1, SumStep
<1>5. A \ {Pick(A)} \notin T /\ A \ {Pick(A)} \in SUBSET R
  BY <1>2, <1>3, PickIn
<1> QED
  BY <1>2, <1>4, <1>5

(* They exist. *)
LEMMA SumExists ==
  ASSUME NEW S, IsFiniteSet(S), NEW g
  PROVE  \E iter : IsSum(iter, S, g)
<1> DEFINE T == {A \in SUBSET S : ~ \E f : IsSum(f, A, g)}
<1> SUFFICES ASSUME T # {} PROVE FALSE
  OBVIOUS
<1>1. T \in SUBSET SUBSET S
  OBVIOUS
<1>2. PICK A \in T : \A B \in T : B \subseteq A => B = A
  <2> HIDE DEF T
  <2> QED
    BY <1>1, MinimalSet
<1> DEFINE F(B) == CHOOSE f : IsSum(f, B, g)
<1>3. ASSUME NEW B \in SUBSET A, B # A PROVE IsSum(F(B), B, g)
  <2>1. B \notin T /\ B \in SUBSET S
    BY <1>2, <1>3
  <2>2. \E f : IsSum(f, B, g)
    BY <2>1
  <2> QED
    BY <2>2
<1> HIDE DEF F
<1> DEFINE V(s) == IF s = {} THEN 0 ELSE g[Pick(s)] + F(s \ {Pick(s)})[s \ {Pick(s)}]
           h == [s \in SUBSET A |-> V(s)]
<1>4. ASSUME NEW s \in SUBSET A, s # A PROVE h[s] = F(s)[s]
  <2>1. IsSum(F(s), s, g)
    BY <1>3, <1>4
  <2>2. CASE s = {}
    BY <2>1, <2>2, SumStep
  <2>3. CASE s # {}
    <3> DEFINE r == s \ {Pick(s)}
    <3>1. r \in SUBSET s /\ r \in SUBSET A /\ r # A
      BY <1>4, <2>3, PickIn
    <3>2. F(s)[r] = F(r)[r]
      <4>1. IsFiniteSet(s) /\ IsSum(F(r), r, g)
        BY <3>1, <1>3, <1>2, FS_Subset
      <4> HIDE DEF r
      <4> QED
        BY <3>1, <4>1, <2>1, SumUnique
    <3>3. F(s)[s] = g[Pick(s)] + F(s)[r]
      BY <2>1, <2>3, SumStep
    <3> QED
      BY <2>3, <3>2, <3>3
  <2> QED
    BY <2>2, <2>3
<1>5. ASSUME NEW s \in SUBSET A, s # {} PROVE h[s] = g[Pick(s)] + h[s \ {Pick(s)}]
  <2>1. s \ {Pick(s)} \in SUBSET A /\ s \ {Pick(s)} # A
    BY <1>5, PickIn
  <2> HIDE DEF h
  <2>2. h[s \ {Pick(s)}] = F(s \ {Pick(s)})[s \ {Pick(s)}]
    BY <2>1, <1>4
  <2>3. h[s] = g[Pick(s)] + F(s \ {Pick(s)})[s \ {Pick(s)}]
    BY <1>5 DEF h
  <2> QED
    BY <2>2, <2>3
<1>6. h = [s \in SUBSET A |-> IF s = {} THEN 0 ELSE g[Pick(s)] + h[s \ {Pick(s)}]]
  <2>1. h[{}] = 0
    OBVIOUS
  <2>2. h = [s \in SUBSET A |-> h[s]]
    OBVIOUS
  <2> HIDE DEF h
  <2> QED
    BY <1>5, <2>1, <2>2
<1>7. IsSum(h, A, g)
  BY <1>6 DEF IsSum
<1> QED
  <2> HIDE DEF h
  <2> QED
    BY <1>2, <1>7

(* A sum of natural numbers is one. *)
LEMMA SumIsNat ==
  ASSUME NEW S, IsFiniteSet(S), NEW g, \A x \in S : g[x] \in Nat,
         NEW iter, IsSum(iter, S, g)
  PROVE  \A s \in SUBSET S : iter[s] \in Nat
<1> DEFINE T == {A \in SUBSET S : iter[A] \notin Nat}
<1> SUFFICES ASSUME T # {} PROVE FALSE
  OBVIOUS
<1>1. T \in SUBSET SUBSET S
  OBVIOUS
<1>2. PICK A \in T : \A B \in T : B \subseteq A => B = A
  <2> HIDE DEF T
  <2> QED
    BY <1>1, MinimalSet
<1>0. /\ iter[{}] = 0
      /\ \A s \in SUBSET S : s # {} => iter[s] = g[Pick(s)] + iter[s \ {Pick(s)}]
  BY SumStep
<1>3. A # {} /\ A \in SUBSET S
  <2>1. A \in SUBSET S /\ iter[A] \notin Nat
    BY <1>2
  <2>2. ASSUME A = {} PROVE FALSE
    BY <1>0, <2>1, <2>2
  <2> QED
    BY <2>1, <2>2
<1>4. iter[A] = g[Pick(A)] + iter[A \ {Pick(A)}]
  BY <1>0, <1>3
<1>5. A \ {Pick(A)} \notin T /\ A \ {Pick(A)} \in SUBSET S /\ Pick(A) \in S
  BY <1>2, <1>3, PickIn
<1> QED
  BY <1>2, <1>4, <1>5

(* The order in which a sum takes its elements does not matter. *)
LEMMA SumTake ==
  ASSUME NEW S, IsFiniteSet(S), NEW g, \A x \in S : g[x] \in Nat,
         NEW iter, IsSum(iter, S, g)
  PROVE  \A s \in SUBSET S : \A x \in s : iter[s] = g[x] + iter[s \ {x}]
<1> DEFINE T == {A \in SUBSET S : \E x \in A : iter[A] # g[x] + iter[A \ {x}]}
<1> SUFFICES ASSUME T # {} PROVE FALSE
  OBVIOUS
<1>1. T \in SUBSET SUBSET S
  OBVIOUS
<1>2. PICK A \in T : \A B \in T : B \subseteq A => B = A
  <2> HIDE DEF T
  <2> QED
    BY <1>1, MinimalSet
<1>3. PICK x \in A : iter[A] # g[x] + iter[A \ {x}]
  BY <1>2
<1> DEFINE p == Pick(A)
<1>4. A \in SUBSET S /\ p \in A
  BY <1>2, <1>3, PickIn
<1> HIDE DEF p
<1>5. iter[A] = g[p] + iter[A \ {p}]
  BY <1>3, <1>4, SumStep DEF p
<1>6. p # x
  BY <1>3, <1>5
<1>7. iter[A \ {p}] = g[x] + iter[(A \ {p}) \ {x}]
  <2>1. A \ {p} \in SUBSET S /\ A \ {p} \subseteq A /\ A \ {p} # A /\ x \in A \ {p}
    BY <1>3, <1>4, <1>6
  <2>2. A \ {p} \notin T
    BY <1>2, <2>1
  <2> QED
    BY <2>1, <2>2
<1>8. iter[A \ {x}] = g[p] + iter[(A \ {x}) \ {p}]
  <2>1. A \ {x} \in SUBSET S /\ A \ {x} \subseteq A /\ A \ {x} # A /\ p \in A \ {x}
    BY <1>3, <1>4, <1>6
  <2>2. A \ {x} \notin T
    BY <1>2, <2>1
  <2> QED
    BY <2>1, <2>2
<1>9. (A \ {p}) \ {x} = (A \ {x}) \ {p}
  OBVIOUS
<1>10. iter[(A \ {x}) \ {p}] \in Nat /\ g[x] \in Nat /\ g[p] \in Nat
  <2>1. (A \ {x}) \ {p} \in SUBSET S
    BY <1>4
  <2> QED
    BY <2>1, <1>3, <1>4, SumIsNat
<1>11. iter[A] = g[p] + (g[x] + iter[(A \ {x}) \ {p}])
  BY <1>5, <1>7, <1>9
<1>12. \A a, b, c, d, e \in Int : a = c + (d + e) /\ b = c + e => a = d + b
  OBVIOUS
<1> QED
  BY <1>3, <1>8, <1>10, <1>11, <1>12

(* The sum over two sets without a common element. *)
LEMMA SumUnion ==
  ASSUME NEW S, IsFiniteSet(S), NEW g, \A x \in S : g[x] \in Nat,
         NEW iter, IsSum(iter, S, g),
         NEW B \in SUBSET S
  PROVE  \A s \in SUBSET S : s \cap B = {} => iter[s \cup B] = iter[s] + iter[B]
<1> DEFINE T == {A \in SUBSET S : A \cap B = {} /\ iter[A \cup B] # iter[A] + iter[B]}
<1> SUFFICES ASSUME T # {} PROVE FALSE
  OBVIOUS
<1>1. T \in SUBSET SUBSET S
  OBVIOUS
<1>2. PICK A \in T : \A C \in T : C \subseteq A => C = A
  <2> HIDE DEF T
  <2> QED
    BY <1>1, MinimalSet
<1>3. A \in SUBSET S /\ A \cap B = {} /\ iter[A \cup B] # iter[A] + iter[B]
  BY <1>2
<1>4. \A s \in SUBSET S : iter[s] \in Nat
  BY SumIsNat
<1>5. A # {}
  <2> SUFFICES ASSUME A = {} PROVE FALSE
    OBVIOUS
  <2>1. iter[{}] = 0 /\ A \cup B = B
    BY SumStep
  <2> QED
    BY <2>1, <1>3, <1>4
<1>6. PICK x \in A : TRUE
  BY <1>5
<1>7. iter[A] = g[x] + iter[A \ {x}]
  BY <1>3, <1>6, SumTake
<1>8. iter[A \cup B] = g[x] + iter[(A \ {x}) \cup B]
  <2>1. A \cup B \in SUBSET S /\ x \in A \cup B /\ (A \cup B) \ {x} = (A \ {x}) \cup B
    BY <1>3, <1>6
  <2> QED
    BY <2>1, SumTake
<1>9. iter[(A \ {x}) \cup B] = iter[A \ {x}] + iter[B]
  <2>1. A \ {x} \in SUBSET S /\ A \ {x} # A /\ A \ {x} \subseteq A /\ (A \ {x}) \cap B = {}
    BY <1>3, <1>6
  <2>2. A \ {x} \notin T
    BY <1>2, <2>1
  <2> QED
    BY <2>1, <2>2
<1>10. g[x] \in Nat /\ iter[A \ {x}] \in Nat /\ iter[B] \in Nat
  <2>1. A \ {x} \in SUBSET S /\ x \in S
    BY <1>3, <1>6
  <2> QED
    BY <2>1, <1>4
<1> QED
  BY <1>3, <1>7, <1>8, <1>9, <1>10
-----------------------------------------------------------------------------
(* The remainder of a division is determined by the number up to a multiple of
   the divisor. *)
LEMMA ModUnique ==
  ASSUME NEW L \in Nat \ {0}, NEW r \in 0 .. L - 1, NEW s \in 0 .. L - 1, NEW k \in Int, r = s + L * k
  PROVE  r = s
<1>1. CASE k >= 1
  <2>1. L * k >= L
    BY <1>1
  <2> QED
    BY <2>1
<1>2. CASE k <= -1
  <2>1. L * k <= -L
    BY <1>2
  <2> QED
    BY <2>1
<1>3. CASE k = 0
  <2>1. L * k = 0
    BY <1>3
  <2> QED
    BY <2>1
<1> QED
  BY <1>1, <1>2, <1>3

LEMMA ModFacts ==
  ASSUME NEW L \in Nat \ {0}, NEW a \in Int
  PROVE  a % L \in 0 .. L - 1 /\ a \div L \in Int /\ a = L * (a \div L) + (a % L)
OBVIOUS
=============================================================================
